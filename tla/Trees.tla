------------------------------- MODULE Trees --------------------------------
(***************************************************************************)
(* Configuration trees (dynamic-config, value.rs and snapshot.rs).          *)
(*                                                                         *)
(* A tree is written as its leaves: a function from paths, which are        *)
(* sequences of names, to scalars or to EmptyTable.  No leaf's path begins  *)
(* with another's.  A scalar is a tuple whose first element is its value;   *)
(* what follows it, if anything, says where it came from.                   *)
(***************************************************************************)
EXTENDS Integers, Sequences, FiniteSets

EmptyTable == <<"{}">>
EmptyTree == [t \in {} |-> EmptyTable]

\* p begins with q, and is longer.
Under(p, q) ==
    /\ Len(q) < Len(p)
    /\ SubSeq(p, 1, Len(q)) = q

PathsOf(Names) == Seq(Names) \ {<<>>}

\* t is a tree, and its tables are keyed by some names.
IsTree(t, Names) ==
    /\ t = [p \in DOMAIN t |-> t[p]]
    /\ DOMAIN t \subseteq PathsOf(Names)
    /\ \A p, q \in DOMAIN t : ~Under(p, q)

Touch(p, q) == p = q \/ Under(p, q) \/ Under(q, p)

\* A leaf of one tree and a leaf of another that meet only in tables: an
\* empty table beside what the other tree has inside it.
MeetInTables(a, p, b, q) ==
    \/ Under(q, p) /\ a[p] = EmptyTable
    \/ Under(p, q) /\ b[q] = EmptyTable
    \/ p = q /\ a[p] = EmptyTable /\ b[q] = EmptyTable

\* Value::merge: tables fold, anything else is displaced by the overlay.
MergeTrees(a, b) ==
    LET kept == {p \in DOMAIN a :
                    \A q \in DOMAIN b :
                        Touch(p, q) => Under(p, q) /\ b[q] = EmptyTable}
        laid == {q \in DOMAIN b :
                    ~(b[q] = EmptyTable /\ \E p \in DOMAIN a : Under(p, q))}
    IN  [p \in kept \union laid |-> IF p \in laid THEN b[p] ELSE a[p]]

\* Value::overlapping_paths: every place where the two trees meet and one
\* of them is not a table.
OverlappingPaths(a, b) ==
    {IF Len(x[1]) < Len(x[2]) THEN x[1] ELSE x[2] :
        x \in {y \in (DOMAIN a) \X (DOMAIN b) :
                  Touch(y[1], y[2]) /\ ~MeetInTables(a, y[1], b, y[2])}}

\* Value::get and Snapshot::at walk down to a path and find a scalar or a
\* table there, or nothing; Snapshot::sub is the table they find.
Holds(t, p) == \E q \in DOMAIN t : q = p \/ Under(q, p)
IsTable(t, p) == Holds(t, p) /\ (p \notin DOMAIN t \/ t[p] = EmptyTable)

Sub(t, p) ==
    LET inside == {q \in DOMAIN t : Under(q, p)}
        rest(q) == SubSeq(q, Len(p) + 1, Len(q))
    IN  [r \in {rest(q) : q \in inside} |-> t[p \o r]]

\* Snapshot::without_top_level.
WithoutTopLevel(t, key) ==
    [p \in {q \in DOMAIN t : q[1] # key} |-> t[p]]

TopLevelKeys(t) == {p[1] : p \in DOMAIN t}

-----------------------------------------------------------------------------
(* Snapshot::diff.                                                          *)

\* compare gets to a path when everything above it is a table on both sides.
Reached(a, b, p) ==
    \A n \in 1..(Len(p) - 1) :
        IsTable(a, SubSeq(p, 1, n)) /\ IsTable(b, SubSeq(p, 1, n))

Nodes(t) ==
    UNION {{SubSeq(p, 1, n) : n \in 1..Len(p)} : p \in DOMAIN t}

\* compare_values: two tables are compared inside, and of two scalars the
\* values are compared, not where they came from.
Differ(a, b, p) ==
    /\ ~(IsTable(a, p) /\ IsTable(b, p))
    /\ (IsTable(a, p) \/ IsTable(b, p) \/ a[p][1] # b[p][1])

Diff(a, b) ==
    LET change(p, kind) == [path |-> p, kind |-> kind]
    IN  {change(p, "Removed") :
            p \in {q \in Nodes(a) \ Nodes(b) : Reached(a, b, q)}}
        \union
        {change(p, "Added") :
            p \in {q \in Nodes(b) \ Nodes(a) : Reached(a, b, q)}}
        \union
        {change(p, "Modified") :
            p \in {q \in Nodes(a) \intersect Nodes(b) :
                      Reached(a, b, q) /\ Differ(a, b, q)}}

\* Mutant: only a changed path at or inside a secret one counts.
touches_secret_inside(path, secrets) ==
    \E s \in secrets : s = path \/ Under(path, s)

\* touches_secret: a changed path at, inside or above a secret one.
touches_secret(path, secrets) ==
    \E s \in secrets : Touch(s, path)
=============================================================================
