------------------------------ MODULE Registry ------------------------------
(***************************************************************************)
(* The registry of generic configuration types (registry.rs): one slot per    *)
(* key, made on first use, in a table that is replaced as a whole.  Reads     *)
(* take no lock; a first use clones the table, inserts and swaps it in with   *)
(* compare-and-swap, again from the table that won if it lost (ArcSwap::rcu,  *)
(* external).                                                                *)
(*                                                                         *)
(* A slot is the use that allocated it; tables are told apart by a stamp.     *)
(***************************************************************************)
EXTENDS Naturals

CONSTANTS
    Users,   \* threads that call entry
    Keys,      \* configuration types
    Absent,    \* no slot
    MaxUses    \* bound on the calls of entry

ASSUME RegistryAssumption == MaxUses \in Nat /\ Absent \notin Nat

VARIABLES
    table, stamp,   \* the current table, and its identity
    stage, key,        \* where each thread is, and for which type
    leaked,         \* the slot it allocated
    loaded, base,   \* the table its closure works on, and its identity
    installed,      \* what its closure last found or inserted
    uses,           \* calls so far
    handed          \* history: the slots handed out, with their keys

callVars == <<stage, key, leaked, loaded, base, installed>>
tableVars == <<table, stamp, callVars, uses, handed>>

Slots == 1..MaxUses
Tables == [Keys -> Slots \union {Absent}]

TableTypeOK ==
    /\ table \in Tables /\ stamp \in Nat
    /\ stage \in [Users -> {"idle", "look", "load", "build", "swap"}]
    /\ key \in [Users -> Keys]
    /\ leaked \in [Users -> 0..MaxUses]
    /\ loaded \in [Users -> Tables] /\ base \in [Users -> Nat]
    /\ installed \in [Users -> Slots \union {Absent}]
    /\ uses \in 0..MaxUses
    /\ handed \subseteq Keys \X Slots

TableInit ==
    /\ table = [k \in Keys |-> Absent] /\ stamp = 0
    /\ stage = [t \in Users |-> "idle"]
    /\ key \in [Users -> Keys]
    /\ leaked = [t \in Users |-> 0]
    /\ loaded = [t \in Users |-> table] /\ base = [t \in Users |-> 0]
    /\ installed = [t \in Users |-> Absent]
    /\ uses = 0 /\ handed = {}

UserTo(t, l) == stage' = [stage EXCEPT ![t] = l]

\* The table itself is made on first use, by OnceLock.
Entry(t) ==
    /\ stage[t] = "idle" /\ uses < MaxUses
    /\ uses' = uses + 1
    /\ \E k \in Keys : key' = [key EXCEPT ![t] = k]
    /\ leaked' = [leaked EXCEPT ![t] = uses + 1]
    /\ UserTo(t, "look")
    /\ UNCHANGED <<table, stamp, loaded, base, installed, handed>>

Hand(t, slot) == handed' = handed \union {<<key[t], slot>>}

\* The common case: the slot is there.
Found(t) ==
    /\ stage[t] = "look" /\ table[key[t]] # Absent
    /\ Hand(t, table[key[t]])
    /\ UserTo(t, "idle")
    /\ UNCHANGED <<table, stamp, key, leaked, loaded, base, installed, uses>>

\* A slot is allocated, and rcu begins.
Missing(t) ==
    /\ stage[t] = "look" /\ table[key[t]] = Absent
    /\ UserTo(t, "load")
    /\ UNCHANGED <<table, stamp, key, leaked, loaded, base, installed, uses, handed>>

Load(t) ==
    /\ stage[t] = "load"
    /\ loaded' = [loaded EXCEPT ![t] = table]
    /\ base' = [base EXCEPT ![t] = stamp]
    /\ UserTo(t, "build")
    /\ UNCHANGED <<table, stamp, key, leaked, installed, uses, handed>>

\* Mutant: insert, not or_insert.
InsertAlways(t) == leaked[t]

OrInsert(t) == IF loaded[t][key[t]] = Absent THEN leaked[t] ELSE loaded[t][key[t]]

\* The closure.
Build(t) ==
    /\ stage[t] = "build"
    /\ installed' = [installed EXCEPT ![t] = OrInsert(t)]
    /\ loaded' = [loaded EXCEPT ![t][key[t]] = OrInsert(t)]
    /\ UserTo(t, "swap")
    /\ UNCHANGED <<table, stamp, key, leaked, base, uses, handed>>

\* The swap succeeds while the table is the one that was loaded.
Unmoved(t) == stamp = base[t]

Swap(t) ==
    /\ stage[t] = "swap" /\ Unmoved(t)
    /\ table' = loaded[t] /\ stamp' = stamp + 1
    /\ Hand(t, installed[t])
    /\ UserTo(t, "idle")
    /\ UNCHANGED <<key, leaked, loaded, base, installed, uses>>

Lost(t) ==
    /\ stage[t] = "swap" /\ ~Unmoved(t)
    /\ UserTo(t, "load")
    /\ UNCHANGED <<table, stamp, key, leaked, loaded, base, installed, uses, handed>>

UserNext(t) ==
    \/ Entry(t) \/ Found(t) \/ Missing(t) \/ Load(t) \/ Build(t)
    \/ Swap(t) \/ Lost(t)

TableNext == \E t \in Users : UserNext(t)

TableSpec == TableInit /\ [][TableNext]_tableVars

\* Threads run, and a thread that keeps losing is not alone: rcu is lock-free.
TableFairSpec == TableSpec /\ \A t \in Users : WF_tableVars(UserNext(t))

-----------------------------------------------------------------------------
(* Properties.                                                              *)

\* Two slots for one type would be two snapshots: whoever asks for a key, at
\* whatever moment of whatever race, is handed one and the same slot, it is the
\* one in the table, and no two keys share one (registry.rs:143-146).
OneSlotPerKey ==
    /\ \A h \in handed : table[h[1]] = h[2]
    /\ \A g, h \in handed : g[2] = h[2] => g[1] = h[1]

\* Every call of entry returns.
EveryUseReturns == \A t \in Users : stage[t] # "idle" ~> stage[t] = "idle"

=============================================================================
