-------------------------- MODULE MC_MstpReceiver --------------------------
(***************************************************************************)
(* Instance of MstpReceiver for TLC: a line of four octets (the two        *)
(* preamble octets, 0 and 2, enough to announce no payload, the largest    *)
(* payload that fits and payloads that do not), a payload buffer of two    *)
(* octets, a debug buffer of seven, and check sums on those octets.        *)
(***************************************************************************)
EXTENDS MstpReceiver, SequencesExt

MCOctet == {0, 2, 85, 255}

Wrap(n) == <<0, 2, 85, 255>>[1 + (n % 4)]

Sum(s) == FoldLeft(LAMBDA a, b : 2 * a + b, 1, s)

MCHeaderCRC(h) == Wrap(Sum(h))

MCDataCRC(p) == <<Wrap(Sum(p)), Wrap(Sum(p) + 2 * Len(p))>>
=============================================================================
