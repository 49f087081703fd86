-------------------------------- MODULE ORSet --------------------------------
(***************************************************************************)
(* The observed-remove set of src/src/or_set.rs.  Its map value -> tokens  *)
(* is the set of its live <<value, token>> pairs: an entry whose token set *)
(* is empty answers every query like an absent one (contains, iter, len    *)
(* and remove all test is_empty), so the two are not told apart, and       *)
(* prune_empties, which drops exactly the former, is the identity.         *)
(***************************************************************************)
EXTENDS FiniteSets

\* ORSet::new
EmptySet == {}

\* ORSet::contains
SetContains(entries, value) == \E p \in entries : p[1] = value

\* The live tokens of a value.
TokensOf(entries, value) == {p[2] : p \in {q \in entries : q[1] = value}}

\* ORSet::add.  The token stands for "<node_id>-<uuid>".
AddOp(value, token) == [type |-> "Add", value |-> value, token |-> token]

\* ORSet::remove when the value is present: the tokens observed.
RemoveOp(entries, value) ==
    [type |-> "Remove", tokens |-> TokensOf(entries, value)]

\* Mutant of SetApply: a Remove takes every token of the values it meets.
ApplyRemovesValues(entries, op) ==
    IF op.type = "Add"
    THEN entries \cup {<<op.value, op.token>>}
    ELSE {p \in entries :
            \A q \in entries : q[1] = p[1] => q[2] \notin op.tokens}

\* Mutant of SetApply: an Add of a value that is present is skipped.
ApplySkipsPresent(entries, op) ==
    IF op.type = "Add"
    THEN IF SetContains(entries, op.value) THEN entries
         ELSE entries \cup {<<op.value, op.token>>}
    ELSE {p \in entries : p[2] \notin op.tokens}

\* ORSet::apply
SetApply(entries, op) ==
    IF op.type = "Add"
    THEN entries \cup {<<op.value, op.token>>}
    ELSE {p \in entries : p[2] \notin op.tokens}

\* ORSet::merge: the union of the live tokens.
SetMerge(entries, other) == entries \cup other
=============================================================================
