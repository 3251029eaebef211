------------------------------ MODULE EventHook ------------------------------
(***************************************************************************)
(* The hooks behind EventManager::on, fire and detach (EventHook.hpp): a   *)
(* map from ids to callbacks that fire walks through in the order of the   *)
(* ids while the callbacks attach and detach.                              *)
(*                                                                         *)
(* _id is never initialized: the first id is any value.  Ids wrap around;  *)
(* MaxAttach, the bound on the attach calls of a behaviour, is smaller     *)
(* than the number of ids, as 2^64 calls are out of reach.  A fire from    *)
(* inside of a callback of the same hook is left out: none of the hooks of *)
(* the repository does that.                                               *)
(***************************************************************************)
EXTENDS Naturals

CONSTANTS IdRange, MaxAttach, MaxFire

ASSUME IdRangeAssumption == IdRange \in Nat /\ MaxAttach \in 1..(IdRange - 1)
ASSUME MaxFireAssumption == MaxFire \in Nat

Ids == 0..(IdRange - 1)
None == IdRange             \* no callback of the walk is running

VARIABLES
    id,         \* _id
    callbacks,  \* the keys of _callbacks
    cancel_id,  \* _cancel_id, whose order and repetitions do not matter
    firing,     \* _firing
    at,         \* the callback that is running, or None
    nattach,    \* how often attach was called
    nfire,      \* how often fire was called
    attached,   \* history: the ids attach has returned
    detached,   \* history: the ids detach was called for
    due,        \* history: attached when fire began and not detached since
    called      \* history: how often the current, or last, fire called each

hook_vars == <<id, callbacks, cancel_id, firing, at, nattach, nfire, attached, detached, due, called>>

HookTypeOK ==
    /\ id \in Ids
    /\ callbacks \subseteq Ids
    /\ cancel_id \subseteq Ids
    /\ firing \in BOOLEAN
    /\ at \in Ids \union {None}
    /\ nattach \in 0..MaxAttach
    /\ nfire \in 0..MaxFire
    /\ attached \subseteq Ids
    /\ detached \subseteq attached
    /\ due \subseteq Ids
    /\ called \in [Ids -> 0..2]

HookInit ==
    /\ id \in Ids
    /\ callbacks = {} /\ cancel_id = {}
    /\ firing = FALSE /\ at = None /\ nattach = 0 /\ nfire = 0
    /\ attached = {} /\ detached = {} /\ due = {}
    /\ called = [i \in Ids |-> 0]

-----------------------------------------------------------------------------
\* The program calls attach, between two fires or from a callback.
HookUserCode == ~firing \/ at # None

\* _id++
next_id == IF id = IdRange - 1 THEN 0 ELSE id + 1

attach ==
    /\ HookUserCode
    /\ nattach < MaxAttach
    /\ nattach' = nattach + 1
    /\ id' = next_id
    /\ callbacks' = callbacks \union {id}
    /\ attached' = attached \union {id}
    /\ UNCHANGED <<cancel_id, firing, at, nfire, detached, due, called>>

\* Mutant: the entry is erased under the walk's feet.
detach_at_once(i) ==
    /\ HookUserCode
    /\ i \in attached
    /\ detached' = detached \union {i}
    /\ due' = due \ {i}
    /\ callbacks' = callbacks \ {i}
    /\ UNCHANGED <<id, cancel_id, firing, at, nattach, nfire, attached, called>>

\* detach: put off to the end of the walk while there is one.
detach(i) ==
    /\ HookUserCode
    /\ i \in attached
    /\ detached' = detached \union {i}
    /\ due' = due \ {i}
    /\ \/ firing /\ cancel_id' = cancel_id \union {i} /\ UNCHANGED callbacks
       \/ ~firing /\ callbacks' = callbacks \ {i} /\ UNCHANGED cancel_id
    /\ UNCHANGED <<id, firing, at, nattach, nfire, attached, called>>

\* The iterator of the walk: the first id, or the one after i.
First(S, i) == i \in S /\ \A j \in S : i =< j
\* Mutant: a callback that has detached itself takes the iterator one too far.
After_self_detach(i) ==
    {j \in callbacks : i = None \/ (j > i /\ (i \in cancel_id => \E k \in callbacks : i < k /\ k < j))}

After(i) == {j \in callbacks : i = None \/ j > i}

Run(i) ==
    /\ at' = i
    /\ called' = [called EXCEPT ![i] = IF @ = 2 THEN 2 ELSE @ + 1]

\* fire with nothing to call.
fire_nobody ==
    /\ ~firing /\ nfire < MaxFire
    /\ callbacks = {}
    /\ nfire' = nfire + 1
    /\ called' = [i \in Ids |-> 0]
    /\ UNCHANGED <<id, callbacks, cancel_id, firing, at, nattach, attached, detached, due>>

\* fire up to the first callback.
fire(i) ==
    /\ ~firing /\ nfire < MaxFire
    /\ First(callbacks, i)
    /\ nfire' = nfire + 1
    /\ firing' = TRUE
    /\ due' = callbacks
    /\ at' = i
    /\ called' = [j \in Ids |-> IF j = i THEN 1 ELSE 0]
    /\ UNCHANGED <<id, callbacks, cancel_id, nattach, attached, detached>>

\* The callback returns and the walk goes on.
fire_next(i) ==
    /\ firing
    /\ First(After(at), i)
    /\ Run(i)
    /\ UNCHANGED <<id, callbacks, cancel_id, firing, nattach, nfire, attached, detached, due>>

\* Mutant: the ids that were put off are forgotten.
fire_end_forgets ==
    /\ firing
    /\ After(at) = {}
    /\ firing' = FALSE /\ at' = None
    /\ UNCHANGED <<id, callbacks, cancel_id, nattach, nfire, attached, detached, due, called>>

\* The last callback returns; what was put off is erased.  _cancel_id itself
\* is never cleared.
fire_end ==
    /\ firing
    /\ After(at) = {}
    /\ firing' = FALSE /\ at' = None
    /\ callbacks' = callbacks \ cancel_id
    /\ UNCHANGED <<id, cancel_id, nattach, nfire, attached, detached, due, called>>

HookNext ==
    \/ attach
    \/ \E i \in Ids : detach(i) \/ fire(i) \/ fire_next(i)
    \/ fire_nobody
    \/ fire_end

HookSpec == HookInit /\ [][HookNext]_hook_vars

-----------------------------------------------------------------------------
\* The callback that is running stays in the map until it has returned, so
\* that the walk's iterator and the function object remain valid.
IteratorStaysValid == firing => at \in callbacks

\* fire calls nobody twice, and by its end it has called every callback that
\* was there when it began and was not detached meanwhile, whatever the
\* callbacks attached and detached.
FireReachesAll ==
    /\ \A i \in Ids : called[i] =< 1
    /\ \A i \in due : called[i] = 1 \/ (firing /\ i > at)

\* Between two fires the map holds exactly what was attached and not detached:
\* a detach that was put off takes effect, and the old entries of _cancel_id
\* do not hit a callback that was attached later.
DetachTakesEffect == ~firing => callbacks = attached \ detached

\* How far i is ahead of the next id.
Ahead(i) == IF i >= id THEN i - id ELSE i + IdRange - id

\* What makes the three above inductive: the ids in use are the last nattach
\* ones, so the next is fresh; what is in the map and not put off is what is
\* attached and not detached; everyone due is among these; the walk has
\* called nobody beyond its place.
HookInv ==
    /\ HookTypeOK
    /\ \A i \in attached : Ahead(i) >= IdRange - nattach
    /\ callbacks \subseteq attached /\ cancel_id \subseteq detached
    /\ callbacks \ cancel_id = attached \ detached
    /\ due \subseteq attached \ detached
    /\ firing => \A i \in Ids : i > at => called[i] = 0
    /\ IteratorStaysValid /\ FireReachesAll /\ DetachTakesEffect
=============================================================================
