--------------------------- MODULE MCInvoiceIntake ---------------------------
(* Instances of InvoiceIntake for TLC.  Replicas, workers and readings are    *)
(* interchangeable.                                                           *)
EXTENDS InvoiceIntake, TLC

CONSTANTS ann, bob, cat, shopA, shopB, codeA, codeB, codeC, bill

Message(user, id, kind, about) ==
  [user |-> user, message_id |-> id, kind |-> kind, about |-> about]

\* ann and bob hold the codes; cat works in shop A.
CodesOfShops == (codeA :> shopA) @@ (codeB :> shopB) @@ (codeC :> shopA)
CatInShop == {<<cat, codeC>>}

Joins == {Message(ann, 1, "code", codeA), Message(ann, 2, "code", codeB),
          Message(bob, 1, "code", codeA)}
\* In the chats of ann and cat two photos of one bill have the same number.
Photos == {Message(ann, 3, "photo", bill), Message(cat, 3, "photo", bill)}
Sheets == {Message(cat, 4, "excel", bill), Message(cat, 5, "excel", bill)}
Messages == Joins \cup Photos \cup Sheets \cup {Message(cat, 6, "text", bill)}

Times(n, some) == [u \in Messages |-> IF u \in some THEN n ELSE 0]
From(user) == {u \in Messages : u.user = user}

Of(kinds) == {u \in Messages : u.kind \in kinds}

Scenarios ==
  { Times(1, Joins \cup (From(ann) \cap Photos)),
    Times(1, {u \in From(ann) : u.message_id # 2} \cup Photos),
    Times(2, From(cat) \cap Of({"photo", "text"})),
    Times(1, From(cat) \cap Of({"excel"})) }

\* One sheet, delivered once.
OneSheet == {Times(1, {u \in Sheets : u.message_id = 4})}

Symmetry == Permutations(Replicas) \cup Permutations(Workers) \cup Permutations(Readings)
=============================================================================
