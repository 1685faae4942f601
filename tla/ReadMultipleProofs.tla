------------------------- MODULE ReadMultipleProofs -------------------------
(***************************************************************************)
(* The two cursors of ReadMultiple stay together on every request, however *)
(* long it is and whatever the device knows, and the answer is complete.   *)
(***************************************************************************)
EXTENDS ReadMultiple, SequenceTheorems, WellFoundedInduction, TLAPS

\* The cursors stay within a list that starts with an object.
CursorType ==
    /\ request \in Seq(Parameter) /\ (Len(request) > 0 => IsObject(request[1]))
    /\ at \in 1..Len(request) + 1 /\ index \in 0..Len(request)
    /\ pc \in {"outer", "inner", "answered", "failed"}

\* The inner cursor has passed the outer one, and only over what belongs to its object.
InnerAhead ==
    pc = "inner" =>
        /\ at \in DOMAIN request /\ IsObject(request[at])
        /\ at <= index /\ NoObject(at + 1, index)

\* Back in the outer loop the inner cursor waits at the next object, or at the end.
OuterCatchesUp ==
    pc = "outer" =>
        /\ at - 1 <= index /\ NoObject(at, index)
        /\ index < Len(request) => IsObject(request[index + 1])

CursorInv == CursorType /\ InnerAhead /\ OuterCatchesUp

\* The inductive invariant holds at first.
LEMMA CursorInit == Init => CursorInv
<1> SUFFICES ASSUME Init PROVE CursorInv
  OBVIOUS
<1>1. CursorType
  BY RequestsAssumption DEF Init, CursorType
<1>2. InnerAhead
  BY DEF Init, InnerAhead
<1>3. OuterCatchesUp
  BY RequestsAssumption DEF Init, OuterCatchesUp, NoObject
<1> QED BY <1>1, <1>2, <1>3 DEF CursorInv

\* An item behind the inner cursor is no object.
LEMMA Advance ==
    ASSUME CursorInv, pc = "inner", index < Len(request), ~IsObject(request[index + 1])
    PROVE  /\ index + 1 \in 0..Len(request) /\ at <= index + 1
           /\ NoObject(at + 1, index + 1)
<1>1. index \in Nat /\ at \in Nat /\ Len(request) \in Nat
  BY DEF CursorInv, CursorType
<1>2. at <= index /\ NoObject(at + 1, index)
  BY DEF CursorInv, InnerAhead
<1>3. ASSUME NEW i \in (at + 1)..(index + 1), i \in DOMAIN request PROVE ~IsObject(request[i])
  <2>1. i = index + 1 \/ i \in (at + 1)..index
    BY <1>1
  <2> QED BY <1>2, <1>3, <2>1 DEF NoObject
<1>4. NoObject(at + 1, index + 1)
  BY <1>3 DEF NoObject
<1> QED BY <1>1, <1>2, <1>4

\* Every step is one of the walk, or leaves the walk where it is.
LEMMA StepKinds ==
    ASSUME [Next]_vars
    PROVE  \/ NextParameter \/ ProcessDevice \/ SendAnswer
           \/ Bracket \/ Skip \/ ReadProperty \/ Fail \/ Return
           \/ UNCHANGED walk /\ (pc = "failed" => UNCHANGED unreadable)
BY DEF Next, Walk, Write, vars, walk

\* Every step keeps the inductive invariant.
LEMMA CursorNext == CursorInv /\ [Next]_vars => CursorInv'
<1> SUFFICES ASSUME CursorInv, [Next]_vars PROVE CursorInv'
  OBVIOUS
<1> USE DEF CursorInv
<1>0. index \in Nat /\ at \in Nat /\ Len(request) \in Nat /\ DOMAIN request = 1..Len(request)
  BY DEF CursorType
<1>1. CASE UNCHANGED walk
  BY <1>1 DEF walk, CursorType, InnerAhead, OuterCatchesUp, NoObject
<1>2. CASE NextParameter
  <2>1. at <= index
    BY <1>0, <1>2 DEF NextParameter, OuterCatchesUp
  <2>2. NoObject(at + 1, index)
    BY <1>0, <1>2 DEF NextParameter, OuterCatchesUp, NoObject
  <2> QED
    BY <1>0, <1>2, <2>1, <2>2 DEF NextParameter, CursorType, InnerAhead, OuterCatchesUp, NoObject
<1>3. CASE ProcessDevice
  <2>1. at - 1 = index
    BY <1>0, <1>3 DEF ProcessDevice, OuterCatchesUp, NoObject
  <2>2. index' = at /\ at' = at /\ request' = request /\ pc' = "inner"
        /\ at \in DOMAIN request /\ IsObject(request[at])
    BY <1>0, <1>3, <2>1 DEF ProcessDevice
  <2> QED
    BY <1>0, <2>2 DEF CursorType, InnerAhead, OuterCatchesUp, NoObject
<1>4. CASE SendAnswer
  BY <1>4 DEF SendAnswer, CursorType, InnerAhead, OuterCatchesUp
<1>5. CASE Bracket \/ Skip \/ ReadProperty
  <2>1. /\ pc = "inner" /\ index < Len(request) /\ ~IsObject(request[index + 1])
        /\ index' = index + 1 /\ UNCHANGED <<request, at, pc>>
    BY <1>5 DEF Bracket, Skip, ReadProperty, ParameterIs, IsObject
  <2>2. /\ index + 1 \in 0..Len(request) /\ at <= index + 1
        /\ NoObject(at + 1, index + 1)
    BY <2>1, Advance
  <2> QED
    BY <1>0, <2>1, <2>2 DEF CursorType, InnerAhead, OuterCatchesUp, NoObject
<1>6. CASE Fail
  BY <1>0, <1>6 DEF Fail, ParameterIs, CursorType, InnerAhead, OuterCatchesUp
<1>7. CASE Return
  <2>1. index < Len(request) => IsObject(request[index + 1])
    BY <1>7 DEF Return, ParameterIs, IsObject
  <2>2. /\ at \in DOMAIN request /\ at <= index /\ NoObject(at + 1, index)
        /\ pc' = "outer" /\ at' = at + 1 /\ UNCHANGED <<request, index>>
    BY <1>7 DEF Return, InnerAhead
  <2> QED
    BY <1>0, <2>1, <2>2 DEF CursorType, InnerAhead, OuterCatchesUp, NoObject
<1> QED
  BY <1>1, <1>2, <1>3, <1>4, <1>5, <1>6, <1>7, StepKinds

\* The cursors never drift apart, for every list of parameters the parser may produce
\* (DefaultMessageController.java:807-815, 911-921).
THEOREM CursorsTogether == Spec => []IndexAtObject
<1>1. CursorInv => IndexAtObject
  BY DEF CursorInv, CursorType, InnerAhead, OuterCatchesUp, NoObject, IndexAtObject
<1> QED
  BY <1>1, CursorInit, CursorNext, PTL DEF Spec

-----------------------------------------------------------------------------
(* Where the walk fails                                                    *)

\* The inner loop knows whose properties are asked for, and whether any are.
InnerKnows ==
    pc = "inner" =>
        /\ LastOf(request, {"object"}, index) = at /\ target = request[at].object
        /\ within <=> Opened(request, index)

\* The walk has passed nothing that cannot be answered.
NothingPassed(r, last) == \A i \in 1..last : ~Unanswerable(r, i)

\* Where a request may fail: what is asked for has no answer, or throws as it is now.
Fails(r, i) ==
    \/ Unanswerable(r, i)
    \/ Asked(r, i) /\ r[i].kind = "key" /\ Throws(Owner(r, i), DevicePropertyKey(r[i]))

WalkClean ==
    /\ pc \in {"inner", "outer"} => NothingPassed(request, index)
    /\ pc = "failed" => Fails(request, index) /\ NothingPassed(request, index - 1)

WalkInv == CursorInv /\ InnerKnows /\ WalkClean

\* The last position of some kind, one position further on
LEMMA LastOfNext ==
    ASSUME NEW r, NEW kinds, NEW i \in Nat
    PROVE  LastOf(r, kinds, i + 1) =
             IF r[i + 1].kind \in kinds THEN i + 1 ELSE LastOf(r, kinds, i)
<1> DEFINE P(n) == {j \in 1..n : r[j].kind \in kinds}
<1>1. ASSUME r[i + 1].kind \in kinds PROVE LastOf(r, kinds, i + 1) = i + 1
  <2>1. i + 1 \in P(i + 1) /\ \A k \in P(i + 1) : k <= i + 1
    BY <1>1
  <2>2. \A j \in P(i + 1) : (\A k \in P(i + 1) : k <= j) => j = i + 1
    <3> SUFFICES ASSUME NEW j \in P(i + 1), \A k \in P(i + 1) : k <= j PROVE j = i + 1
      OBVIOUS
    <3>1. i + 1 <= j /\ j <= i + 1 /\ j \in Nat
      BY <2>1
    <3> QED BY <3>1
  <2>3. LastOf(r, kinds, i + 1) = CHOOSE j \in P(i + 1) : \A k \in P(i + 1) : k <= j
    BY <2>1 DEF LastOf
  <2> HIDE DEF P
  <2>4. (CHOOSE j \in P(i + 1) : \A k \in P(i + 1) : k <= j) = i + 1
    BY <2>1, <2>2
  <2> QED BY <2>3, <2>4
<1>2. ASSUME r[i + 1].kind \notin kinds PROVE LastOf(r, kinds, i + 1) = LastOf(r, kinds, i)
  <2> DEFINE last(S) == IF S = {} THEN 0 ELSE CHOOSE j \in S : \A k \in S : k <= j
  <2>1. P(i + 1) = P(i)
    BY <1>2
  <2>2. LastOf(r, kinds, i + 1) = last(P(i + 1)) /\ LastOf(r, kinds, i) = last(P(i))
    BY DEF LastOf
  <2> HIDE DEF P, last
  <2> QED BY <2>1, <2>2
<1> HIDE DEF P
<1> QED BY <1>1, <1>2

\* A position that is no object belongs to the object before it, and unless it is a
\* bracket itself the bracket before it decides whether it is read.
LEMMA NextPosition ==
    ASSUME NEW r, NEW i \in Nat, ~IsObject(r[i + 1])
    PROVE  /\ LastOf(r, {"object"}, i + 1) = LastOf(r, {"object"}, i)
           /\ Owner(r, i + 1) = Owner(r, i)
           /\ r[i + 1].kind \in {"key", "empty"} =>
                  /\ Opened(r, i + 1) <=> Opened(r, i)
                  /\ Asked(r, i + 1) <=> Opened(r, i)
<1>1. LastOf(r, {"object"}, i + 1) = LastOf(r, {"object"}, i)
  BY LastOfNext DEF IsObject
<1>2. ASSUME r[i + 1].kind \in {"key", "empty"}
      PROVE  LastOf(r, {"object", "opening", "closing"}, i + 1)
               = LastOf(r, {"object", "opening", "closing"}, i)
  BY <1>2, LastOfNext
<1>3. ASSUME r[i + 1].kind \in {"key", "empty"}
      PROVE  (Opened(r, i + 1) <=> Opened(r, i)) /\ (Asked(r, i + 1) <=> Opened(r, i))
  BY <1>2, <1>3 DEF Opened, Asked
<1> QED BY <1>1, <1>3 DEF Owner

\* After a bracket, what it says
LEMMA NextBracket ==
    ASSUME NEW r, NEW i \in Nat, r[i + 1].kind \in {"object", "opening", "closing"}
    PROVE  /\ Opened(r, i + 1) <=> r[i + 1].kind = "opening"
           /\ ~Asked(r, i + 1) /\ ~Unanswerable(r, i + 1)
<1>1. LastOf(r, {"object", "opening", "closing"}, i + 1) = i + 1
  BY LastOfNext
<1>2. ~Asked(r, i + 1)
  BY DEF Asked
<1> QED BY <1>1, <1>2 DEF Opened, Unanswerable

\* A position that can be answered joins the others that can.
LEMMA NothingPassedNext ==
    ASSUME NEW r, NEW i \in Nat, NothingPassed(r, i), ~Unanswerable(r, i + 1)
    PROVE  NothingPassed(r, i + 1)
<1> SUFFICES ASSUME NEW j \in 1..i + 1 PROVE ~Unanswerable(r, j)
  BY DEF NothingPassed
<1>1. j = i + 1 \/ j \in 1..i
  OBVIOUS
<1> QED BY <1>1 DEF NothingPassed

\* The invariant of the walk holds at first.
LEMMA WalkInit == Init => WalkInv
<1> SUFFICES ASSUME Init PROVE WalkInv
  OBVIOUS
<1>1. CursorInv
  BY CursorInit
<1>2. InnerKnows
  BY DEF Init, InnerKnows
<1>3. WalkClean
  BY DEF Init, WalkClean, NothingPassed
<1> QED BY <1>1, <1>2, <1>3 DEF WalkInv

\* Every step keeps the invariant of the walk.
LEMMA WalkNext == WalkInv /\ [Next]_vars => WalkInv'
<1> SUFFICES ASSUME WalkInv, [Next]_vars PROVE WalkInv'
  OBVIOUS
<1>0. /\ CursorInv' /\ index \in Nat /\ at \in Nat /\ Len(request) \in Nat
      /\ request \in Seq(Parameter) /\ DOMAIN request = 1..Len(request)
  BY CursorNext DEF WalkInv, CursorInv, CursorType
<1> SUFFICES InnerKnows' /\ WalkClean'
  BY <1>0 DEF WalkInv
<1>1. CASE UNCHANGED walk /\ (pc = "failed" => UNCHANGED unreadable)
  <2>1. pc = "failed" => (Fails(request, index) <=> Fails(request', index'))
    BY <1>1 DEF walk
  <2>2. pc = "failed" => Fails(request, index)'
    BY <1>1, <2>1 DEF walk, WalkInv, WalkClean, Fails, Throws
  <2> QED BY <1>1, <2>2 DEF walk, WalkInv, InnerKnows, WalkClean
<1>2. CASE NextParameter
  BY <1>2 DEF NextParameter, WalkInv, InnerKnows, WalkClean
<1>3. CASE ProcessDevice
  <2>1. at - 1 = index
    BY <1>0, <1>3 DEF ProcessDevice, WalkInv, CursorInv, OuterCatchesUp, NoObject
  <2>2. index' = index + 1 /\ at = index + 1 /\ IsObject(request[index + 1])
        /\ target' = request[at].object /\ within' = FALSE /\ pc' = "inner" /\ pc = "outer"
        /\ UNCHANGED <<request, at>>
    BY <1>0, <1>3, <2>1 DEF ProcessDevice
  <2>3. LastOf(request, {"object"}, index + 1) = at
    BY <1>0, <2>2, LastOfNext DEF IsObject
  <2>4. ~Opened(request, index + 1) /\ ~Unanswerable(request, index + 1)
    BY <1>0, <2>2, NextBracket DEF IsObject
  <2>5. NothingPassed(request, index + 1)
    BY <1>0, <2>2, <2>4, NothingPassedNext DEF WalkInv, WalkClean
  <2> QED BY <2>2, <2>3, <2>4, <2>5 DEF InnerKnows, WalkClean
<1>4. CASE SendAnswer
  BY <1>4 DEF SendAnswer, InnerKnows, WalkClean
<1>5. CASE Bracket
  <2>1. /\ pc = "inner" /\ ~IsObject(request[index + 1]) /\ pc' = "inner"
        /\ request[index + 1].kind \in {"opening", "closing"}
        /\ within' = (request[index + 1].kind = "opening")
        /\ index' = index + 1 /\ UNCHANGED <<request, at, target>>
    BY <1>5 DEF Bracket, ParameterIs, IsObject
  <2>2. LastOf(request, {"object"}, index + 1) = at
    BY <1>0, <2>1, NextPosition DEF WalkInv, InnerKnows
  <2>3. /\ Opened(request, index + 1) <=> request[index + 1].kind = "opening"
        /\ ~Unanswerable(request, index + 1)
    BY <1>0, <2>1, NextBracket
  <2>4. NothingPassed(request, index + 1)
    BY <1>0, <2>1, <2>3, NothingPassedNext DEF WalkInv, WalkClean
  <2> QED BY <2>1, <2>2, <2>3, <2>4 DEF WalkInv, InnerKnows, WalkClean
<1>6. ASSUME ParameterIs({"key", "empty"})
      PROVE  /\ pc = "inner" /\ LastOf(request, {"object"}, index + 1) = at
             /\ Owner(request, index + 1) = target
             /\ Opened(request, index + 1) <=> within
             /\ Asked(request, index + 1) <=> within
             /\ NothingPassed(request, index)
  <2>1. /\ pc = "inner" /\ request[index + 1].kind \in {"key", "empty"}
        /\ ~IsObject(request[index + 1])
    BY <1>6 DEF ParameterIs, IsObject
  <2>2. /\ LastOf(request, {"object"}, index) = at /\ target = request[at].object
        /\ within <=> Opened(request, index)
    BY <2>1 DEF WalkInv, InnerKnows
  <2> QED
    BY <1>0, <2>1, <2>2, NextPosition DEF WalkInv, WalkClean, Owner
<1>7. CASE Skip
  <2>1. ~Unanswerable(request, index + 1)
    BY <1>6, <1>7 DEF Skip, Unanswerable
  <2>2. NothingPassed(request, index + 1)
    BY <1>0, <1>6, <1>7, <2>1, NothingPassedNext DEF Skip
  <2> QED
    BY <1>6, <1>7, <2>2 DEF Skip, WalkInv, InnerKnows, WalkClean
<1>8. CASE ReadProperty
  <2>1. ParameterIs({"key", "empty"}) /\ request[index + 1].kind = "key"
    BY <1>8 DEF ReadProperty, ParameterIs
  <2>2. ~NoneToRead(target, DevicePropertyKey(request[index + 1]))
    BY <1>8 DEF ReadProperty
  <2>3. ~Unanswerable(request, index + 1)
    BY <1>6, <2>1, <2>2 DEF Unanswerable
  <2>4. NothingPassed(request, index + 1)
    BY <1>0, <1>6, <2>1, <2>3, NothingPassedNext
  <2> QED
    BY <1>6, <1>8, <2>1, <2>4 DEF ReadProperty, WalkInv, InnerKnows, WalkClean
<1>9. CASE Fail
  <2>1. Fails(request, index + 1) /\ NothingPassed(request, index)
    BY <1>6, <1>9 DEF Fail, ParameterIs, Unanswerable, Fails
  <2>2. /\ index' = index + 1 /\ index' - 1 = index /\ pc' = "failed"
        /\ request' = request /\ unreadable' = unreadable
    BY <1>0, <1>9 DEF Fail
  <2>3. Fails(request, index)'
    BY <2>1, <2>2 DEF Fails, Throws
  <2> QED BY <2>1, <2>2, <2>3 DEF InnerKnows, WalkClean
<1>10. CASE Return
  BY <1>10 DEF Return, WalkInv, InnerKnows, WalkClean
<1> QED
  BY <1>1, <1>2, <1>3, <1>4, <1>5, <1>7, <1>8, <1>9, <1>10, StepKinds

\* A request goes unanswered only where it asks for something that has no answer: a
\* property without a key or all properties of an object the device does not know, at the
\* first such place, or a value that cannot be converted at that time, whatever the
\* requests and whatever is written meanwhile (DefaultMessageController.java:942-952, 1148).
THEOREM FailsOnlyThere == Spec => []FailsOnlyWhereAsked
<1>1. WalkInv => FailsOnlyWhereAsked
  BY DEF WalkInv, WalkClean, NothingPassed, Fails, FailsOnlyWhereAsked
<1> QED
  BY <1>1, WalkInit, WalkNext, PTL DEF Spec

-----------------------------------------------------------------------------
(* Induction over the members of a sequence                                *)

\* Every set of natural numbers has a least one.
LEMMA Least ==
    ASSUME NEW T \in SUBSET Nat, T # {}
    PROVE  \E m \in T : \A k \in T : m <= k
<1> DEFINE R == OpToRel(<, Nat)
<1>1. IsWellFoundedOn(R, Nat)
  BY NatLessThanWellFounded
<1>2. \A x, y \in Nat : <<y, x>> \in R <=> y < x
  BY DEF OpToRel
<1> HIDE DEF R
<1>3. PICK m \in T : \A k \in T : ~(<<k, m>> \in R)
  BY <1>1, WFMin
<1>4. \A k \in T : ~(k < m)
  BY <1>2, <1>3
<1> QED BY <1>4

\* A set with 0 and with each of its members' successors has all natural numbers.
LEMMA Induction ==
    ASSUME NEW S \in SUBSET Nat, 0 \in S, \A n \in S : n + 1 \in S
    PROVE  S = Nat
<1> SUFFICES ASSUME Nat \ S # {} PROVE FALSE
  OBVIOUS
<1>1. PICK m \in Nat \ S : \A k \in Nat \ S : m <= k
  BY Least
<1>2. m - 1 \in Nat /\ m - 1 \in S
  BY <1>1
<1> QED BY <1>2

\* f[i] is what the first i members of s are together.
Joins(s, n, f) == f = [i \in 1..n |-> IF i = 1 THEN s[i] ELSE f[i - 1] \o s[i]]

\* Each of them is the one before and one member more.
LEMMA JoinsAt ==
    ASSUME NEW s, NEW n, NEW f, Joins(s, n, f), NEW i \in 1..n
    PROVE  f[i] = IF i = 1 THEN s[i] ELSE f[i - 1] \o s[i]
<1> DEFINE g == [j \in 1..n |-> IF j = 1 THEN s[j] ELSE f[j - 1] \o s[j]]
<1>1. f = g
  BY Zenon DEF Joins
<1>2. g[i] = IF i = 1 THEN s[i] ELSE f[i - 1] \o s[i]
  OBVIOUS
<1> HIDE DEF g
<1> QED BY <1>1, <1>2

\* There is such a function, so the recursive one of FlattenSeq is one.
LEMMA JoinsExist ==
    ASSUME NEW s, NEW n \in Nat
    PROVE  \E f : Joins(s, n, f)
<1> DEFINE S == {m \in Nat : \E f : Joins(s, m, f)}
<1>1. 0 \in S
  <2>1. Joins(s, 0, [i \in 1..0 |-> <<>>])
    BY DEF Joins
  <2> QED BY <2>1
<1>2. ASSUME NEW m \in S PROVE m + 1 \in S
  <2>1. PICK f : Joins(s, m, f)
    OBVIOUS
  <2> DEFINE next == IF m + 1 = 1 THEN s[m + 1] ELSE f[m] \o s[m + 1]
             g == [i \in 1..m + 1 |-> IF i = m + 1 THEN next ELSE f[i]]
  <2>2. ASSUME NEW i \in 1..m + 1
        PROVE  g[i] = IF i = 1 THEN s[i] ELSE g[i - 1] \o s[i]
    <3>1. CASE i = m + 1
      BY <3>1
    <3>2. CASE i # m + 1
      <4>1. i \in 1..m
        BY <3>2
      <4>2. f[i] = IF i = 1 THEN s[i] ELSE f[i - 1] \o s[i]
        BY <2>1, <4>1, JoinsAt
      <4>3. g[i] = f[i] /\ (i # 1 => g[i - 1] = f[i - 1])
        BY <4>1
      <4> QED BY <4>2, <4>3
    <3> QED BY <3>1, <3>2
  <2>3. Joins(s, m + 1, g)
    BY <2>2 DEF Joins
  <2> QED BY <2>3
<1> QED BY <1>1, <1>2, Induction

\* It depends on nothing but the members.
LEMMA JoinsAgree ==
    ASSUME NEW s, NEW n \in Nat, NEW f, Joins(s, n, f),
           NEW t, NEW m \in Nat, NEW g, Joins(t, m, g),
           n <= m, \A i \in 1..n : s[i] = t[i]
    PROVE  \A i \in 1..n : f[i] = g[i]
<1> DEFINE S == {k \in Nat : k \in 1..n => f[k] = g[k]}
<1>1. 0 \in S
  OBVIOUS
<1>2. ASSUME NEW k \in S PROVE k + 1 \in S
  <2> SUFFICES ASSUME k + 1 \in 1..n PROVE f[k + 1] = g[k + 1]
    OBVIOUS
  <2>1. f[k + 1] = IF k + 1 = 1 THEN s[k + 1] ELSE f[k] \o s[k + 1]
    BY JoinsAt, k + 1 - 1 = k
  <2>2. g[k + 1] = IF k + 1 = 1 THEN t[k + 1] ELSE g[k] \o t[k + 1]
    <3>1. k + 1 \in 1..m /\ k + 1 - 1 = k
      OBVIOUS
    <3> QED BY <3>1, JoinsAt
  <2>3. k + 1 # 1 => f[k] = g[k]
    OBVIOUS
  <2> QED BY <2>1, <2>2, <2>3
<1>3. S = Nat
  BY <1>1, <1>2, Induction
<1> QED BY <1>3

\* FlattenSeq is what all members are together.
LEMMA FlattenIs ==
    ASSUME NEW s, Len(s) \in Nat \ {0}
    PROVE  \E f : Joins(s, Len(s), f) /\ FlattenSeq(s) = f[Len(s)]
<1>1. \E f : Joins(s, Len(s), f)
  BY JoinsExist
<1>2. \E f : f = [i \in 1..Len(s) |-> IF i = 1 THEN s[i] ELSE f[i - 1] \o s[i]]
  BY <1>1 DEF Joins
<1> DEFINE P(f) == f = [i \in 1..Len(s) |-> IF i = 1 THEN s[i] ELSE f[i - 1] \o s[i]]
<1>3. P(CHOOSE f : P(f))
  BY <1>2, Zenon
<1>4. FlattenSeq(s) = (CHOOSE f : P(f))[Len(s)]
  BY DEF FlattenSeq
<1> QED BY <1>3, <1>4 DEF Joins

\* Nothing in a row
LEMMA FlattenEmpty == FlattenSeq(<<>>) = <<>>
BY DEF FlattenSeq

\* One member more goes to the end.
LEMMA FlattenAppend ==
    ASSUME NEW s, NEW t, NEW X, Len(s) \in Nat, Len(t) = Len(s) + 1,
           \A i \in 1..Len(s) : s[i] = t[i], t[Len(t)] \in Seq(X), Len(s) = 0 => s = <<>>
    PROVE  FlattenSeq(t) = FlattenSeq(s) \o t[Len(t)]
<1>1. PICK g : Joins(t, Len(t), g) /\ FlattenSeq(t) = g[Len(t)]
  BY FlattenIs
<1>2. CASE Len(s) = 0
  <2>1. FlattenSeq(t) = t[Len(t)]
    BY <1>1, <1>2, JoinsAt, 1 \in 1..Len(t)
  <2> QED BY <1>2, <2>1, FlattenEmpty
<1>3. CASE Len(s) # 0
  <2>1. PICK f : Joins(s, Len(s), f) /\ FlattenSeq(s) = f[Len(s)]
    BY <1>3, FlattenIs
  <2>2. f[Len(s)] = g[Len(s)]
    <3>1. Len(s) \in 1..Len(s) /\ Len(s) <= Len(t) /\ Len(t) \in Nat
      BY <1>3
    <3>2. \A i \in 1..Len(s) : f[i] = g[i]
      BY <1>1, <2>1, <3>1, JoinsAgree
    <3> QED BY <3>1, <3>2
  <2>3. g[Len(t)] = g[Len(s)] \o t[Len(t)]
    <3>1. \A i \in 1..Len(t) : g[i] = IF i = 1 THEN t[i] ELSE g[i - 1] \o t[i]
      BY <1>1, JoinsAt
    <3>2. Len(t) \in 1..Len(t) /\ Len(t) # 1 /\ Len(t) - 1 = Len(s)
      BY <1>3
    <3> QED BY <3>1, <3>2
  <2> QED BY <1>1, <2>1, <2>2, <2>3
<1> QED BY <1>2, <1>3

\* Sequences over a set in a row are a sequence over it.
LEMMA FlattenType ==
    ASSUME NEW X, NEW s \in Seq(Seq(X))
    PROVE  FlattenSeq(s) \in Seq(X)
<1>1. CASE Len(s) = 0
  BY <1>1 DEF FlattenSeq
<1>2. CASE Len(s) # 0
  <2>1. PICK f : Joins(s, Len(s), f) /\ FlattenSeq(s) = f[Len(s)]
    BY <1>2, FlattenIs
  <2> DEFINE S == {k \in Nat : k \in 1..Len(s) => f[k] \in Seq(X)}
  <2>2. 0 \in S
    OBVIOUS
  <2>3. ASSUME NEW k \in S PROVE k + 1 \in S
    <3> SUFFICES ASSUME k + 1 \in 1..Len(s) PROVE f[k + 1] \in Seq(X)
      OBVIOUS
    <3>1. f[k + 1] = IF k + 1 = 1 THEN s[k + 1] ELSE f[k] \o s[k + 1]
      BY <2>1, JoinsAt, k + 1 - 1 = k
    <3>2. s[k + 1] \in Seq(X) /\ (k + 1 # 1 => f[k] \in Seq(X))
      OBVIOUS
    <3> QED BY <3>1, <3>2
  <2>4. S = Nat
    BY <2>2, <2>3, Induction
  <2>5. Len(s) \in S /\ Len(s) \in 1..Len(s)
    BY <1>2, <2>4
  <2> QED BY <2>1, <2>5
<1> QED BY <1>1, <1>2

-----------------------------------------------------------------------------
(* The answer                                                              *)

\* What position i adds to the answer, before what closes the object's results
Opens(r, i) ==
    IF Owner(r, i) \notin Known THEN <<>>
    ELSE IF IsObject(r[i]) THEN Header(Owner(r, i))
    ELSE IF Asked(r, i) THEN Read(Owner(r, i), DevicePropertyKey(r[i])) ELSE <<>>

Closes(r, i) ==
    IF Owner(r, i) \in Known /\ (i = Len(r) \/ IsObject(r[i + 1])) THEN Trailer ELSE <<>>

\* The answer to the first n positions
AnswerTo(r, n) == FlattenSeq([i \in 1..n |-> Result(r, i)])

\* The answer is the one to the positions passed, but for what is still to close.
AnswerInv ==
    /\ target \in Object /\ within \in BOOLEAN /\ answer \in Seq(Token)
    /\ pc \in {"outer", "answered"} => answer = AnswerTo(request, index)
    /\ pc = "inner" =>
         /\ AnswerTo(request, index - 1) \in Seq(Token) /\ Opens(request, index) \in Seq(Token)
         /\ answer = AnswerTo(request, index - 1) \o Opens(request, index)
    /\ pc = "answered" => index = Len(request)

FullInv == WalkInv /\ AnswerInv

\* All parts of an answer are tokens.
LEMMA Parts ==
    /\ <<>> \in Seq(Token) /\ Trailer \in Seq(Token)
    /\ \A o \in Object : Header(o) \in Seq(Token)
    /\ \A o \in Object, k \in Key : AddPropertyValue(o, k) \in Seq(Token)
    /\ \A k \in Nat : PropertyError(k) \in Seq(Token)
    /\ RestartTimestamp \in Seq(Token)
<1>1. /\ RestartDate \in Token /\ RestartTime \in Token /\ UnknownProperty \in Token
      /\ \A n \in {1, 2, 4, 5} : Open(n) \in Token /\ Close(n) \in Token
      /\ \A o \in Object : ObjectParameter(o) \in Token
      /\ \A o \in Object, k \in Key : Value(o, k) \in Token
  BY DEF Token, Parameter
<1>2. \A k \in Nat : PropertyIdentifier(k) \in Token
  <2>1. \A k \in Nat : k % 256 \in Octet
    BY DEF Octet
  <2>2. ASSUME NEW b \in Octet PROVE KeyParameter(<<b>>) \in Token
    <3>1. KeyParameter(<<b>>) \in CutKey
      BY DEF CutKey
    <3> QED BY <3>1 DEF Token
  <2> QED BY <2>1, <2>2 DEF PropertyIdentifier
<1>3. Key \subseteq Nat /\ Restart \in Nat
  BY KeyAssumption DEF Restart
<1> HIDE DEF Token
<1> QED
  BY <1>1, <1>2, <1>3 DEF Trailer, Header, AddPropertyValue, PropertyError, RestartTimestamp

\* So is what is read.
LEMMA ReadType ==
    ASSUME NEW o \in Known, NEW k \in Nat
    PROVE  Read(o, k) \in Seq(Token)
<1> DEFINE P == Properties[o]
<1>1. o \in Object /\ DOMAIN P = 1..Len(P) /\ Len(P) \in Nat /\ \A i \in 1..Len(P) : P[i] \in Key
  BY PropertiesAssumption
<1>2. [i \in DOMAIN Properties[o] |-> AddPropertyValue(o, Properties[o][i])] \in Seq(Seq(Token))
  <2> HIDE DEF P
  <2>1. \A i \in DOMAIN P : AddPropertyValue(o, P[i]) \in Seq(Token)
    BY <1>1, Parts
  <2>2. [i \in DOMAIN P |-> AddPropertyValue(o, P[i])] \in Seq(Seq(Token))
    BY <1>1, <2>1
  <2> QED BY <2>2 DEF P
<1>3. AllProperties(o) \in Seq(Token)
  BY <1>2, FlattenType DEF AllProperties
<1>4. Has(o, k) => AddPropertyValue(o, k) \in Seq(Token)
  <2>1. Has(o, k) => k \in Key
    BY <1>1 DEF Has
  <2> QED BY <1>1, <2>1, Parts
<1> QED BY <1>3, <1>4, Parts DEF Read

\* A position's result is what it opens and what it closes.
LEMMA ResultIs ==
    ASSUME NEW r, NEW i, Opens(r, i) \in Seq(Token)
    PROVE  Result(r, i) = Opens(r, i) \o Closes(r, i) /\ Result(r, i) \in Seq(Token)
<1>1. Closes(r, i) \in Seq(Token) /\ <<>> \o <<>> = <<>>
  BY Parts DEF Closes
<1>2. Result(r, i) = Opens(r, i) \o Closes(r, i)
  BY <1>1 DEF Result, Opens, Closes
<1> QED BY <1>1, <1>2

\* The answer to one position more
LEMMA AnswerToNext ==
    ASSUME NEW r, NEW n \in Nat, AnswerTo(r, n) \in Seq(Token), Opens(r, n + 1) \in Seq(Token)
    PROVE  /\ AnswerTo(r, n + 1) = (AnswerTo(r, n) \o Opens(r, n + 1)) \o Closes(r, n + 1)
           /\ AnswerTo(r, n + 1) \in Seq(Token)
<1> DEFINE s == [i \in 1..n |-> Result(r, i)]
           t == [i \in 1..n + 1 |-> Result(r, i)]
<1>1. Len(s) = n /\ Len(t) = n + 1 /\ (n = 0 => s = <<>>)
  OBVIOUS
<1>2. /\ \A i \in 1..n : s[i] = t[i]
      /\ t[n + 1] = Result(r, n + 1)
  OBVIOUS
<1> HIDE DEF s, t
<1>3. /\ Result(r, n + 1) = Opens(r, n + 1) \o Closes(r, n + 1)
      /\ Result(r, n + 1) \in Seq(Token)
  BY ResultIs
<1>4. FlattenSeq(t) = FlattenSeq(s) \o t[Len(t)]
  BY <1>1, <1>2, <1>3, FlattenAppend
<1>5. AnswerTo(r, n + 1) = AnswerTo(r, n) \o (Opens(r, n + 1) \o Closes(r, n + 1))
  BY <1>1, <1>2, <1>3, <1>4 DEF AnswerTo, s, t
<1>6. Closes(r, n + 1) \in Seq(Token)
  BY Parts DEF Closes
<1> DEFINE a == AnswerTo(r, n)
           b == Opens(r, n + 1)
           c == Closes(r, n + 1)
<1>7. a \in Seq(Token) /\ b \in Seq(Token) /\ c \in Seq(Token)
  BY <1>6
<1> HIDE DEF a, b, c
<1>8. (a \o b) \o c = a \o (b \o c)
  BY <1>7
<1>9. (a \o b) \o c \in Seq(Token)
  BY <1>7, ConcatProperties
<1> QED BY <1>5, <1>8, <1>9 DEF a, b, c

\* The answer to nothing is empty.
LEMMA AnswerToNothing == \A r : AnswerTo(r, 0) = <<>>
<1> SUFFICES ASSUME NEW r PROVE AnswerTo(r, 0) = <<>>
  OBVIOUS
<1>1. [i \in 1..0 |-> Result(r, i)] = <<>>
  OBVIOUS
<1> QED BY <1>1, FlattenEmpty DEF AnswerTo

\* While processDevice is at work, the answer lacks no more than what it closes.
LEMMA InnerAnswer ==
    ASSUME WalkInv, AnswerInv, pc = "inner"
    PROVE  /\ Owner(request, index) = target
           /\ AnswerTo(request, index) = answer \o Closes(request, index)
           /\ AnswerTo(request, index) \in Seq(Token)
<1>1. Owner(request, index) = target
  BY DEF WalkInv, InnerKnows, Owner
<1>2. index - 1 \in Nat /\ (index - 1) + 1 = index
  BY DEF WalkInv, CursorInv, CursorType, InnerAhead
<1>3. /\ AnswerTo(request, index - 1) \in Seq(Token) /\ Opens(request, index) \in Seq(Token)
      /\ answer = AnswerTo(request, index - 1) \o Opens(request, index)
  BY DEF AnswerInv
<1>4. /\ AnswerTo(request, index)
           = (AnswerTo(request, index - 1) \o Opens(request, index)) \o Closes(request, index)
      /\ AnswerTo(request, index) \in Seq(Token)
  BY <1>2, <1>3, AnswerToNext
<1> QED BY <1>1, <1>3, <1>4

\* The parameters of a request are what their kinds say.
LEMMA Kinds ==
    ASSUME NEW p \in Parameter
    PROVE  /\ IsObject(p) => p.object \in Object
           /\ p.kind = "key" => DevicePropertyKey(p) \in Nat
<1>1. IsObject(p) => p.object \in Object
  BY DEF Parameter, IsObject, ObjectParameter, KeyParameter, Opening, Closing, NoPayload
<1>2. p.kind = "key" => p.payload \in Payload
  BY DEF Parameter, ObjectParameter, KeyParameter, Opening, Closing, NoPayload
<1>3. ASSUME NEW b \in Payload PROVE b[1] \in Nat
  <2>1. b \in Seq(Octet) /\ 1 \in 1..Len(b)
    BY PayloadAssumption
  <2>2. b[1] \in Octet
    BY <2>1
  <2> QED BY <2>2 DEF Octet
<1> QED BY <1>1, <1>2, <1>3 DEF DevicePropertyKey

\* One position further on within an object
LEMMA InnerStep ==
    ASSUME FullInv, pc = "inner", index < Len(request), ~IsObject(request[index + 1]),
           NEW part \in Seq(Token), Opens(request, index + 1) = part,
           pc' = "inner", index' = index + 1, answer' = answer \o part,
           within' \in BOOLEAN, UNCHANGED <<request, at, target>>
    PROVE  AnswerInv'
<1>1. index \in Nat /\ index' - 1 = index /\ Len(request) \in Nat
  BY DEF FullInv, WalkInv, CursorInv, CursorType
<1>2. Closes(request, index) = <<>>
  BY <1>1 DEF Closes
<1>3. answer \in Seq(Token) /\ target \in Object
  BY DEF FullInv, AnswerInv
<1>4. AnswerTo(request, index) = answer
  BY <1>2, <1>3, InnerAnswer DEF FullInv
<1>5. answer' \in Seq(Token)
  BY <1>3
<1> QED BY <1>1, <1>3, <1>4, <1>5 DEF AnswerInv

\* At first nothing is answered.
LEMMA AnswerInit == Init => AnswerInv
<1> SUFFICES ASSUME Init PROVE AnswerInv
  OBVIOUS
<1>1. target \in Object
  BY ObjectAssumption DEF Init
<1>2. AnswerTo(request, 0) = <<>> /\ <<>> \in Seq(Token)
  BY AnswerToNothing
<1> QED BY <1>1, <1>2 DEF Init, AnswerInv

\* Every step keeps the answer in step with the inner cursor.
LEMMA AnswerNext == FullInv /\ [Next]_vars => AnswerInv'
<1> SUFFICES ASSUME FullInv, [Next]_vars PROVE AnswerInv'
  OBVIOUS
<1>0. /\ index \in Nat /\ at \in Nat /\ Len(request) \in Nat
      /\ request \in Seq(Parameter) /\ DOMAIN request = 1..Len(request)
      /\ index <= Len(request)
      /\ target \in Object /\ within \in BOOLEAN /\ answer \in Seq(Token)
  BY DEF FullInv, WalkInv, CursorInv, CursorType, AnswerInv
<1>1. CASE UNCHANGED walk
  BY <1>1 DEF walk, FullInv, AnswerInv
<1>2. CASE NextParameter
  BY <1>2 DEF NextParameter, FullInv, AnswerInv
<1>3. CASE ProcessDevice
  <2>1. at - 1 = index
    BY <1>0, <1>3 DEF ProcessDevice, FullInv, WalkInv, CursorInv, OuterCatchesUp, NoObject
  <2>2. /\ at = index + 1 /\ index' = index + 1 /\ index' - 1 = index /\ pc' = "inner"
        /\ IsObject(request[index + 1]) /\ request[index + 1] \in Parameter
        /\ target' = request[index + 1].object /\ within' = FALSE /\ UNCHANGED <<request, at>>
        /\ answer = AnswerTo(request, index)
    BY <1>0, <1>3, <2>1 DEF ProcessDevice, FullInv, AnswerInv
  <2>3. target' \in Object
    BY <2>2, Kinds
  <2>4. Owner(request, index + 1) = target'
    BY <1>0, <2>2, LastOfNext DEF IsObject, Owner
  <2>5. /\ Opens(request, index + 1) = IF target' \in Known THEN Header(target') ELSE <<>>
        /\ Opens(request, index + 1) \in Seq(Token)
    <3>1. Opens(request, index + 1) = IF target' \in Known THEN Header(target') ELSE <<>>
      BY <2>2, <2>4 DEF Opens
    <3>2. Header(target') \in Seq(Token) /\ <<>> \in Seq(Token)
      BY <2>3, Parts
    <3> QED BY <3>1, <3>2
  <2>6. answer' = answer \o Opens(request, index + 1)
    <3>1. answer' = IF target' \in Known THEN answer \o Header(target') ELSE answer
      BY <1>3 DEF ProcessDevice
    <3>2. answer \o <<>> = answer
      BY <1>0
    <3> QED BY <2>5, <3>1, <3>2
  <2>7. answer' \in Seq(Token)
    BY <1>0, <2>5, <2>6
  <2> QED BY <1>0, <2>2, <2>3, <2>5, <2>6, <2>7 DEF AnswerInv
<1>4. CASE SendAnswer
  <2>1. at - 1 <= index /\ at > Len(request)
    BY <1>4 DEF SendAnswer, FullInv, WalkInv, CursorInv, OuterCatchesUp
  <2>2. index \in Nat /\ at \in Nat /\ Len(request) \in Nat /\ index <= Len(request)
    BY <1>0
  <2>3. index = Len(request)
    BY <2>1, <2>2
  <2> QED BY <1>4, <2>3 DEF SendAnswer, FullInv, AnswerInv
<1>5. CASE Bracket
  <2>1. /\ pc = "inner" /\ index < Len(request) /\ ~IsObject(request[index + 1])
        /\ request[index + 1].kind \in {"opening", "closing"} /\ within' \in BOOLEAN
        /\ pc' = "inner" /\ index' = index + 1 /\ UNCHANGED <<request, at, target, answer>>
    BY <1>5 DEF Bracket, ParameterIs, IsObject
  <2>2. Opens(request, index + 1) = <<>>
    BY <2>1 DEF Opens, Asked
  <2>3. answer' = answer \o <<>> /\ <<>> \in Seq(Token)
    BY <1>0, <2>1
  <2> QED BY <2>1, <2>2, <2>3, InnerStep
<1>6. ASSUME ParameterIs({"key", "empty"})
      PROVE  /\ pc = "inner" /\ index < Len(request) /\ ~IsObject(request[index + 1])
             /\ Owner(request, index + 1) = target
             /\ Asked(request, index + 1) <=> within
  <2>1. /\ pc = "inner" /\ index < Len(request) /\ request[index + 1].kind \in {"key", "empty"}
        /\ ~IsObject(request[index + 1])
    BY <1>6 DEF ParameterIs, IsObject
  <2>2. /\ LastOf(request, {"object"}, index) = at /\ target = request[at].object
        /\ within <=> Opened(request, index)
    BY <2>1 DEF FullInv, WalkInv, InnerKnows
  <2> QED BY <1>0, <2>1, <2>2, NextPosition DEF Owner
<1>7. CASE Skip
  <2>1. /\ pc' = "inner" /\ index' = index + 1 /\ UNCHANGED <<request, at, target, within, answer>>
        /\ ParameterIs({"key", "empty"}) /\ ~within
    BY <1>6, <1>7 DEF Skip
  <2>2. Opens(request, index + 1) = <<>>
    BY <1>6, <2>1 DEF Opens
  <2>3. answer' = answer \o <<>> /\ <<>> \in Seq(Token)
    BY <1>0, <2>1
  <2> QED BY <1>0, <1>6, <2>1, <2>2, <2>3, InnerStep
<1>8. CASE ReadProperty
  <2> DEFINE k == DevicePropertyKey(request[index + 1])
             part == IF target \in Known THEN Read(target, k) ELSE <<>>
  <2>1. ParameterIs({"key", "empty"}) /\ request[index + 1].kind = "key" /\ within
    BY <1>8 DEF ReadProperty, ParameterIs
  <2>2. /\ pc' = "inner" /\ index' = index + 1 /\ UNCHANGED <<request, at, target, within>>
        /\ answer' = IF target \in Known THEN answer \o Read(target, k) ELSE answer
    BY <1>6, <1>8, <2>1 DEF ReadProperty
  <2>3. k \in Nat
    BY <1>0, <1>6, <2>1, Kinds
  <2>4. part \in Seq(Token)
    BY <2>3, ReadType
  <2>5. Opens(request, index + 1) = part
    BY <1>6, <2>1 DEF Opens
  <2>6. answer' = answer \o part
    BY <1>0, <2>2
  <2> HIDE DEF part
  <2> QED BY <1>0, <1>6, <2>1, <2>2, <2>4, <2>5, <2>6, InnerStep
<1>9. CASE Fail
  BY <1>0, <1>9 DEF Fail, AnswerInv
<1>10. CASE Return
  <2>1. /\ pc = "inner" /\ pc' = "outer" /\ UNCHANGED <<request, target, index, within>>
        /\ answer' = IF target \in Known THEN answer \o Trailer ELSE answer
        /\ index = Len(request) \/ IsObject(request[index + 1])
    BY <1>0, <1>10 DEF Return, ParameterIs, IsObject
  <2>2. /\ Owner(request, index) = target
        /\ AnswerTo(request, index) = answer \o Closes(request, index)
        /\ AnswerTo(request, index) \in Seq(Token)
    BY <2>1, InnerAnswer DEF FullInv
  <2>3. answer' = answer \o Closes(request, index)
    <3>1. Closes(request, index) = IF target \in Known THEN Trailer ELSE <<>>
      BY <2>1, <2>2 DEF Closes
    <3>2. answer \o <<>> = answer
      BY <1>0
    <3> QED BY <2>1, <3>1, <3>2
  <2> QED BY <1>0, <2>1, <2>2, <2>3 DEF AnswerInv
<1> QED
  BY <1>1, <1>2, <1>3, <1>4, <1>5, <1>7, <1>8, <1>9, <1>10, StepKinds

\* The invariants of the walk and of the answer hold together.
LEMMA FullInvariant == Spec => []FullInv
<1>1. Init => FullInv
  BY WalkInit, AnswerInit DEF FullInv
<1>2. FullInv /\ [Next]_vars => FullInv'
  BY WalkNext, AnswerNext DEF FullInv
<1> QED BY <1>1, <1>2, PTL DEF Spec

\* Type correctness: whatever is asked for, the cursors stay within the list and all that
\* is answered is part of an answer (DefaultMessageController.java:807-1160).
THEOREM Typing == Spec => []TypeOK
<1>1. FullInv /\ unreadable \subseteq Written => TypeOK
  BY DEF FullInv, WalkInv, CursorInv, CursorType, AnswerInv, TypeOK
<1>2. Init => unreadable \subseteq Written
  BY DEF Init
<1>3. unreadable \subseteq Written /\ [Next]_vars => (unreadable \subseteq Written)'
  BY DEF Next, Walk, Write, vars, NextParameter, ProcessDevice, SendAnswer, Bracket, Skip,
         ReadProperty, Fail, Return
<1> QED BY <1>1, <1>2, <1>3, FullInvariant, PTL DEF Spec

\* The answer is complete, for requests of any length and for any objects and properties:
\* each first octet within brackets of an object the device knows has the result of the
\* key it is taken for, in the order of the request and in the object's one pair of
\* brackets, every key is cut to one octet, and nothing else is answered
\* (DefaultMessageController.java:864-1160).
THEOREM AnswersComplete == Spec => []AnswerIsComplete
<1>1. ASSUME FullInv, pc = "answered" PROVE answer = FlattenSeq([i \in DOMAIN request |-> Result(request, i)])
  <2>1. DOMAIN request = 1..index
    BY <1>1 DEF FullInv, WalkInv, CursorInv, CursorType, AnswerInv
  <2>2. answer = AnswerTo(request, index)
    BY <1>1 DEF FullInv, AnswerInv
  <2> QED BY <2>1, <2>2 DEF AnswerTo
<1>2. FullInv => AnswerIsComplete
  BY <1>1 DEF AnswerIsComplete
<1> QED BY <1>2, FullInvariant, PTL
=============================================================================
