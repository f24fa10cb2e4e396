------------------------------- MODULE KvStore -------------------------------
(***************************************************************************)
(* One key of the process-wide store that actors share (modules/kv.rs):     *)
(* read, write, increment, delete, and the cleaner.                        *)
(*                                                                         *)
(* The store is a DashMap: each of its calls is atomic, but read_from_store *)
(* and increment_store make two of them, and other actors run in between.   *)
(***************************************************************************)
EXTENDS Integers

CONSTANTS
  Clients,      \* the actors that use the key
  Operations,   \* what the program does with it
  Lifetimes,    \* the expirations it gives, Never among them or not
  Never,        \* no expiration
  Text,         \* a value that is no number
  Absent,       \* the key is not in the map
  MaxTime,      \* bound: the clock
  MaxNumber     \* bound: numbers stored

ASSUME StoreAssumption ==
  /\ Operations \subseteq {"read", "write", "increment", "delete"}
  /\ Lifetimes \ {Never} \subseteq Nat
  /\ MaxTime \in Nat /\ MaxNumber \in Nat
ASSUME ValueAssumption ==
  /\ Never \notin Int /\ Text \notin Int
  /\ Absent \notin [value : Nat \cup {Text}, expiration : Nat \cup {Never}]

VARIABLES
  store,   \* the entry, or Absent; a program may have set a counter up at first
  now,     \* get_timestamp()
  pc,      \* pc[c]: between which of its calls client c is
  taken,   \* taken[c]: the entry c has read, or is about to insert
  due      \* what a counter would be if every increment that returned counted

vars == <<store, now, pc, taken, due>>

Numbers == 0..MaxNumber
Entry(value, expiration) == [value |-> value, expiration |-> expiration]

Init ==
  /\ store \in {Absent, Entry(0, Never)}
  /\ now = 0
  /\ pc = [c \in Clients |-> "idle"]
  /\ taken = [c \in Clients |-> Absent]
  /\ due = 0

Expired(entry) == entry # Absent /\ entry.expiration # Never /\ entry.expiration < now

Deadline(lifetime) == IF lifetime = Never THEN Never ELSE now + lifetime

Does(c, operation) == pc[c] = "idle" /\ operation \in Operations

Moves(c, to, entry) ==
  /\ pc' = [pc EXCEPT ![c] = to]
  /\ taken' = [taken EXCEPT ![c] = entry]

-----------------------------------------------------------------------------
Tick ==
  /\ now < MaxTime
  /\ now' = now + 1
  /\ UNCHANGED <<store, pc, taken, due>>

\* Mutation of Clean: the comparison the wrong way round.
CleanLive ==
  /\ store # Absent /\ ~Expired(store)
  /\ store' = Absent
  /\ due' = 0
  /\ UNCHANGED <<now, pc, taken>>

\* clean_kv, which spawn_kv_cleaner calls every two minutes.
Clean ==
  /\ Expired(store)
  /\ store' = Absent
  /\ due' = 0
  /\ UNCHANGED <<now, pc, taken>>

\* read_from_store: KV.get, and a copy of the entry.
Read(c) ==
  /\ Does(c, "read")
  /\ Moves(c, "read", store)
  /\ UNCHANGED <<store, now, due>>

\* The copy is judged by the time it is now.
Judge(c) ==
  /\ pc[c] = "read"
  /\ IF Expired(taken[c]) THEN Moves(c, "expired", taken[c]) ELSE Moves(c, "idle", Absent)
  /\ UNCHANGED <<store, now, due>>

\* KV.remove, whatever is there by now; the read returns null.
RemoveExpired(c) ==
  /\ pc[c] = "expired"
  /\ store' = Absent
  /\ due' = 0
  /\ Moves(c, "idle", Absent)
  /\ UNCHANGED now

Write(c, value, lifetime) ==
  /\ Does(c, "write")
  /\ store' = Entry(value, Deadline(lifetime))
  /\ due' = value
  /\ UNCHANGED <<now, pc, taken>>

Delete(c) ==
  /\ Does(c, "delete")
  /\ store' = Absent
  /\ due' = 0
  /\ UNCHANGED <<now, pc, taken>>

\* Mutation of Increment: the number is read first and written later.
IncrementApart(c, lifetime) ==
  /\ Does(c, "increment")
  /\ store # Absent /\ store.value \in Numbers /\ store.value < MaxNumber
  /\ Moves(c, "missed", Entry(store.value + 1, Deadline(lifetime)))
  /\ UNCHANGED <<store, now, due>>

\* increment_store, when KV.get_mut finds an entry: its expiration is replaced,
\* then its number, if it is one; otherwise the call fails.  Nothing asks
\* whether the entry has expired.
Increment(c, lifetime) ==
  /\ Does(c, "increment")
  /\ store # Absent
  /\ \A n \in {store.value, due} : n \in Numbers => n < MaxNumber
  /\ store' = Entry(IF store.value \in Numbers THEN store.value + 1 ELSE store.value,
                    Deadline(lifetime))
  /\ due' = IF due \in Numbers THEN due + 1 ELSE due
  /\ UNCHANGED <<now, pc, taken>>

\* KV.get_mut finds nothing.
IncrementMisses(c, lifetime) ==
  /\ Does(c, "increment")
  /\ store = Absent
  /\ Moves(c, "missed", Entry(1, Deadline(lifetime)))
  /\ UNCHANGED <<store, now, due>>

\* KV.insert, over whatever is there by now.
InsertFirst(c) ==
  /\ pc[c] = "missed"
  /\ due \in Numbers => due < MaxNumber
  /\ store' = taken[c]
  /\ due' = IF due \in Numbers THEN due + 1 ELSE due
  /\ Moves(c, "idle", Absent)
  /\ UNCHANGED now

-----------------------------------------------------------------------------
Next ==
  \/ Tick \/ Clean
  \/ \E c \in Clients :
       \/ Read(c) \/ Judge(c) \/ RemoveExpired(c)
       \/ \E lifetime \in Lifetimes :
            \/ \E value \in {0, Text} : Write(c, value, lifetime)
            \/ Increment(c, lifetime) \/ IncrementMisses(c, lifetime)
       \/ InsertFirst(c)
       \/ Delete(c)

Spec == Init /\ [][Next]_vars

-----------------------------------------------------------------------------
(* Properties.                                                             *)

\* What has not expired is lost to a call that deletes it, or else in one way
\* only: a reader removes it that has found an earlier entry expired, which
\* somebody has replaced in between (kv.rs, read_from_store).
LiveLostToReader ==
  [][store # Absent /\ ~Expired(store) /\ store' = Absent
       => \E c \in Clients :
            \/ Delete(c)
            \/ RemoveExpired(c) /\ taken[c] # store /\ Expired(taken[c])]_vars

\* A key that is never absent counts every increment that returned, whichever
\* actors make them (test_increment).  Two first increments of an absent key
\* may count as one (InsertFirst).
Counted == store # Absent /\ store.value \in Numbers => store.value = due
IncrementsAdd == [](store # Absent) => []Counted
=============================================================================
