--------------------------- MODULE MC_ReadMultiple ---------------------------
(***************************************************************************)
(* Instances of ReadMultiple for TLC: every request for one object with up *)
(* to two items, and for two objects with up to one item each, whatever    *)
(* stands in place of the last opening bracket.  Property 371 has two      *)
(* octets, of which the first is read as key 1.                            *)
(***************************************************************************)
EXTENDS ReadMultiple

CONSTANTS device, door, stranger

Name         == 77
PresentValue == 85
PropertyList == 371

TwoKnown   == (device :> <<Name, Restart>>) @@ (door :> <<PropertyList, PresentValue>>)
AnyObject  == {device, door, stranger}
AnyKey     == {Name, PresentValue, PropertyList, Restart}
TwoWritten == {<<device, Name>>, <<door, PresentValue>>}

AnyPayload == {<<Name>>, <<PresentValue>>, <<All>>, <<Restart>>, <<1, 115>>}

Item == {KeyParameter(b) : b \in AnyPayload} \cup {Opening, Closing, NoPayload}

\* As the parser reads it: an object, a bracket or what stands in its place, the items
\* up to the closing bracket.
Block(brackets, n) ==
    {<<ObjectParameter(o), bracket>> \o items \o <<Closing>> :
        o \in AnyObject, bracket \in brackets, items \in UNION {[1..k -> Item] : k \in 0..n}}

AnyRequest ==
    {<<>>} \cup Block(Item, 2)
    \cup {first \o second : first \in Block({Opening}, 1), second \in Block(Item, 1)}
=============================================================================
