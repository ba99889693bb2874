------------------------------- MODULE MCCore -------------------------------
(***************************************************************************)
(* What a load resolves to, one question at a time: stage says which calls  *)
(* and edits a behaviour is made of.                                        *)
(***************************************************************************)
EXTENDS Resolution, Units

VARIABLES stage,
          before, after   \* two snapshots, for their difference

vars == <<resolutionVars, stage, text, before, after>>

MCPathOrder == <<<<"a">>, <<"m">>, <<"::", "s">>, <<"s">>, <<"t">>,
                 <<"t", "x">>>>
\* Bound: aliases lead from scalars to scalars; t is a table somewhere.
Scalars == {p \in Paths : p # <<"t">>}
MCVariables == [APP_M |-> <<"m">>, APP_T__X |-> <<"t", "x">>, BOUND |-> <<>>]
MCEnvTexts == {Unset, "", "1", "yes", "not an entry"}

Leaves(names) == [p \in names |-> <<"1">>]
MCDocSet == {Missing, Unreadable,
             Leaves({<<"app", "m">>}),
             Leaves({<<"app", "s">>, <<"app", "t", "x">>}),
             Leaves({<<"app", "t">>, <<"old", "s">>}),
             Leaves({<<"$schema">>, <<"m">>})}

\* Bound: no terabytes, whose factor is beyond TLC's integers.
MCUnitTexts ==
    LET component == [number : {0, 1, 5, 6, 19, 20, 333, 334, 20000, 20001},
                      unit : {"ms", "s", "m", "h", "d", "k", "kb", "gib", ""}]
    IN  {<<>>} \union {<<c>> : c \in component}
               \union {<<c, d>> : c \in component, d \in component}

\* Snapshots whose paths meet in every way two can.
SmallTrees ==
    LET paths == {<<"a">>, <<"b">>, <<"a", "b">>, <<"a", "c">>}
        sets == {d \in SUBSET paths : \A p, q \in d : ~Under(p, q)}
    IN  UNION {[d -> {<<"1">>, <<"2">>, EmptyTable}] : d \in sets}

PlainSpec == [whole |-> FALSE, profile |-> "", decryptor |-> TRUE,
              allow_empty |-> FALSE, strict_env |-> FALSE]
NoFiles == [f \in FileNames |-> Missing]
Listed(doc) == [NoFiles EXCEPT ![<<"listed", "">>] = doc]

ListedDocs == {Listed(doc) : doc \in MCDocSet}
EnvironmentSpecs == {[PlainSpec EXCEPT !.allow_empty = a, !.strict_env = s] :
                        a \in BOOLEAN, s \in BOOLEAN}
DocumentSpecs == [whole : BOOLEAN, profile : {"", "prod", "../x"},
                  decryptor : BOOLEAN, allow_empty : {FALSE}, strict_env : {FALSE}]

Loading == text = <<>> /\ before = EmptyTree /\ after = EmptyTree
LoadingNothing == spec = PlainSpec /\ files = NoFiles

\* Only what a stage is about differs at first.
StageInit ==
    \/ /\ stage = "names" /\ Loading
       /\ spec = PlainSpec /\ files \in ListedDocs
    \/ /\ stage = "environment" /\ Loading
       /\ spec \in EnvironmentSpecs /\ files = Listed(Leaves({<<"app", "m">>}))
    \/ /\ stage = "documents" /\ Loading
       /\ spec \in DocumentSpecs /\ files = NoFiles
    \/ /\ stage = "units" /\ LoadingNothing
       /\ UnitsInit /\ before = EmptyTree /\ after = EmptyTree
    \/ /\ stage = "diff" /\ LoadingNothing
       /\ text = <<>> /\ before \in SmallTrees /\ after \in SmallTrees

MCInit == Fresh /\ StageInit

NamesNext ==
    /\ stage = "names"
    /\ \/ \E p \in Paths : Set("default", p, "2") \/ unset("default", p)
       \/ \E p \in {<<"m">>, <<"t">>} :
              Set("override", p, "2") \/ unset("override", p)
       \/ \E p, q \in Scalars : add(p, q)
       \/ \E doc \in DocSet : WriteFile(<<"listed", "">>, doc)

EnvironmentNext ==
    /\ stage = "environment"
    /\ \/ \E v \in DOMAIN Variables, t \in EnvTexts :
              SetVariable(v, t) \/ WriteDotenv(v, t)
       \/ \E p \in {<<"m">>, <<"::", "s">>}, v \in DOMAIN Variables : bind(p, v)
       \/ Set("flag", <<"m">>, "2")

DocumentsNext ==
    /\ stage = "documents"
    /\ \/ \E name \in FileNames, doc \in {Leaves({<<"app", "m">>}), Unreadable,
                                         Leaves({<<"$schema">>, <<"m">>})} :
              WriteFile(name, doc)
       \/ MountSecret(<<"m">>, "3")

MCNext ==
    /\ NamesNext \/ EnvironmentNext \/ DocumentsNext
          \/ (stage \in {"names", "environment", "documents"}
              /\ (Compose \/ \E p \in {<<"m">>, <<"t", "x">>} : Walk(p)))
    /\ UNCHANGED <<stage, text, before, after>>

MCSpec == MCInit /\ [][MCNext]_vars

-----------------------------------------------------------------------------
Swapped(kind) == CASE kind = "Added" -> "Removed"
                   [] kind = "Removed" -> "Added"
                   [] kind = "Modified" -> "Modified"

\* A difference says what changed and nothing else: every leaf that is not
\* the same in both snapshots is at, inside or above a change, no two
\* changes overlap, the other way round it is the same list with added and
\* removed swapped, and a secret whose value changed is touched by one.
DiffIsExact ==
    LET changes == Diff(before, after)
        paths == {c.path : c \in changes}
        moved == {p \in DOMAIN before \union DOMAIN after :
                     ~(p \in DOMAIN before /\ p \in DOMAIN after
                       /\ before[p] = after[p])}
    IN  /\ \A p \in moved : \E c \in paths : Touch(p, c)
        /\ \A c \in paths : \E p \in moved : Touch(p, c)
        /\ \A c, d \in changes : Touch(c.path, d.path) => c = d
        /\ Diff(after, before) =
               {[c EXCEPT !.kind = Swapped(@)] : c \in changes}
        /\ \A s \in moved : \E c \in paths : touches_secret(c, {s})
=============================================================================
