---------------------------- MODULE KvStoreProofs ----------------------------
(***************************************************************************)
(* Theorems about KvStore, for every set of clients, operations, lifetimes   *)
(* and bounds.                                                             *)
(***************************************************************************)
EXTENDS KvStore, TLAPS

Entries == [value : Nat \cup {Text}, expiration : Nat \cup {Never}]

PcStates == {"idle", "read", "expired", "missed"}

TypeOK ==
  /\ store \in Entries \cup {Absent}
  /\ now \in 0..MaxTime
  /\ pc \in [Clients -> PcStates]
  /\ taken \in [Clients -> Entries \cup {Absent}]
  /\ due \in Nat \cup {Text}

\* A read that is about to remove an entry has found that one expired, and an
\* increment that is about to insert one has one to insert.  Time does not go
\* back, so that what was expired when it was read still is.
TakenFits ==
  \A c \in Clients :
    /\ pc[c] = "expired" => Expired(taken[c])
    /\ pc[c] = "missed" => taken[c] \in Entries

\* What a client writes is an entry, and an entry is not the absence of one.
LEMMA EntryTypes ==
  /\ \A value \in Nat \cup {Text} : \A lifetime \in Lifetimes :
       now \in Nat => Entry(value, Deadline(lifetime)) \in Entries
  /\ Absent \notin Entries
  <1>1. Absent \notin Entries
    BY ValueAssumption DEF Entries
  <1>2. ASSUME NEW value \in Nat \cup {Text}, NEW lifetime \in Lifetimes, now \in Nat
        PROVE  Entry(value, Deadline(lifetime)) \in Entries
    <2>1. Deadline(lifetime) \in Nat \cup {Never}
      BY <1>2, StoreAssumption DEF Deadline
    <2> QED BY <2>1 DEF Entry, Entries
  <1> QED BY <1>1, <1>2

\* Every step of the store and its clients keeps the types, and keeps what a
\* client has taken fit for what the client will do with it.
LEMMA StoreStep == TypeOK /\ TakenFits /\ [Next]_vars => TypeOK' /\ TakenFits'
  <1> SUFFICES ASSUME TypeOK, TakenFits, [Next]_vars PROVE TypeOK' /\ TakenFits'
    OBVIOUS
  <1> now \in Nat /\ 0 \in Nat
    BY StoreAssumption DEF TypeOK
  <1>1. CASE Tick
    <2>1. now' \in 0..MaxTime /\ now' = now + 1
      BY <1>1, StoreAssumption DEF Tick, TypeOK
    <2>2. TypeOK'
      BY <1>1, <2>1 DEF Tick, TypeOK
    <2>3. ASSUME NEW e \in Entries \cup {Absent}, Expired(e) PROVE Expired(e)'
      BY <2>1, <2>3, EntryTypes DEF Expired, Entries
    <2>4. TakenFits'
      BY <1>1, <2>3 DEF Tick, TakenFits, TypeOK
    <2> QED BY <2>2, <2>4
  <1>2. CASE Clean
    BY <1>2 DEF Clean, TypeOK, TakenFits, Expired
  <1>3. ASSUME NEW c \in Clients, Read(c) \/ Judge(c) \/ RemoveExpired(c)
        PROVE  TypeOK' /\ TakenFits'
    BY <1>3 DEF Read, Judge, RemoveExpired, Does, Moves, TypeOK, TakenFits, Expired, PcStates
  <1>4. ASSUME NEW c \in Clients, NEW lifetime \in Lifetimes, NEW value \in {0, Text},
               Write(c, value, lifetime)
        PROVE  TypeOK' /\ TakenFits'
    <2>1. Entry(value, Deadline(lifetime)) \in Entries
      BY EntryTypes
    <2> QED BY <1>4, <2>1 DEF Write, TypeOK, TakenFits, Expired
  <1>5. ASSUME NEW c \in Clients, NEW lifetime \in Lifetimes, Increment(c, lifetime)
        PROVE  TypeOK' /\ TakenFits'
    <2>1. store \in Entries
      BY <1>5 DEF Increment, TypeOK
    <2>2. (IF store.value \in Numbers THEN store.value + 1 ELSE store.value) \in Nat \cup {Text}
      BY <2>1, StoreAssumption DEF Entries, Numbers
    <2>3. store' \in Entries
      BY <1>5, <2>2, EntryTypes DEF Increment
    <2>4. due' \in Nat \cup {Text}
      BY <1>5, StoreAssumption DEF Increment, TypeOK, Numbers
    <2> QED BY <1>5, <2>3, <2>4 DEF Increment, TypeOK, TakenFits, Expired
  <1>6. ASSUME NEW c \in Clients, NEW lifetime \in Lifetimes, IncrementMisses(c, lifetime)
        PROVE  TypeOK' /\ TakenFits'
    <2>1. Entry(1, Deadline(lifetime)) \in Entries
      BY EntryTypes
    <2> QED BY <1>6, <2>1 DEF IncrementMisses, Moves, TypeOK, TakenFits, Expired, PcStates
  <1>7. ASSUME NEW c \in Clients, InsertFirst(c) PROVE TypeOK' /\ TakenFits'
    <2>1. due' \in Nat \cup {Text}
      BY <1>7, StoreAssumption DEF InsertFirst, TypeOK, Numbers
    <2> QED BY <1>7, <2>1 DEF InsertFirst, Moves, TypeOK, TakenFits, Expired, PcStates
  <1>8. ASSUME NEW c \in Clients, Delete(c) PROVE TypeOK' /\ TakenFits'
    BY <1>8 DEF Delete, TypeOK, TakenFits, Expired
  <1>9. CASE UNCHANGED vars
    BY <1>9 DEF vars, TypeOK, TakenFits, Expired
  <1> QED BY <1>1, <1>2, <1>3, <1>4, <1>5, <1>6, <1>7, <1>8, <1>9 DEF Next

\* In every run the store and what its clients hold of it between two calls
\* (read_from_store, increment_store) are well formed.
LEMMA StoreInvariant == Spec => [](TypeOK /\ TakenFits)
  <1>1. Init => TypeOK /\ TakenFits
    <2>1. Entry(0, Never) \in Entries
      BY DEF Entry, Entries
    <2> QED BY <2>1, StoreAssumption DEF Init, TypeOK, TakenFits, PcStates
  <1> QED BY <1>1, StoreStep, PTL DEF Spec

-----------------------------------------------------------------------------
\* The cleaner (clean_kv) and the writers lose no live entry: apart from a
\* delete, only a reader does that removes what replaced the entry it found
\* expired (read_from_store).
THEOREM LiveEntriesAreKept == Spec => LiveLostToReader
  <1>1. TypeOK /\ TakenFits /\ [Next]_vars
          => [store # Absent /\ ~Expired(store) /\ store' = Absent
               => \E c \in Clients :
                    \/ Delete(c)
                    \/ RemoveExpired(c) /\ taken[c] # store /\ Expired(taken[c])]_vars
    <2> SUFFICES ASSUME TypeOK, TakenFits, Next, store # Absent, ~Expired(store), store' = Absent
                 PROVE  \E c \in Clients :
                          \/ Delete(c)
                          \/ RemoveExpired(c) /\ taken[c] # store /\ Expired(taken[c])
      OBVIOUS
    <2> now \in Nat /\ 0 \in Nat
      BY StoreAssumption DEF TypeOK
    <2>1. ~Tick /\ ~Clean
      BY DEF Tick, Clean
    <2>2. ASSUME NEW c \in Clients, Read(c) \/ Judge(c) PROVE FALSE
      BY <2>2 DEF Read, Judge
    <2>3. ASSUME NEW c \in Clients, RemoveExpired(c)
          PROVE  taken[c] # store /\ Expired(taken[c])
      BY <2>3 DEF RemoveExpired, TakenFits
    <2>4. ASSUME NEW c \in Clients, NEW lifetime \in Lifetimes, NEW value \in {0, Text},
                 Write(c, value, lifetime)
          PROVE  FALSE
      <3>1. store' \in Entries
        BY <2>4, EntryTypes DEF Write
      <3> QED BY <3>1, EntryTypes
    <2>5. ASSUME NEW c \in Clients, NEW lifetime \in Lifetimes, Increment(c, lifetime)
          PROVE  FALSE
      <3>1. store \in Entries
        BY DEF TypeOK
      <3>2. (IF store.value \in Numbers THEN store.value + 1 ELSE store.value)
              \in Nat \cup {Text}
        BY <3>1, StoreAssumption DEF Entries, Numbers
      <3>3. store' \in Entries
        BY <2>5, <3>2, EntryTypes DEF Increment
      <3> QED BY <3>3, EntryTypes
    <2>6. ASSUME NEW c \in Clients, NEW lifetime \in Lifetimes, IncrementMisses(c, lifetime)
          PROVE  FALSE
      BY <2>6 DEF IncrementMisses
    <2>7. ASSUME NEW c \in Clients, InsertFirst(c) PROVE FALSE
      <3>1. store' \in Entries
        BY <2>7 DEF InsertFirst, TakenFits
      <3> QED BY <3>1, EntryTypes
    <2> QED BY <2>1, <2>2, <2>3, <2>4, <2>5, <2>6, <2>7 DEF Next
  <1> QED BY <1>1, StoreInvariant, PTL DEF Spec, LiveLostToReader

-----------------------------------------------------------------------------
\* While the key is never absent no increment misses it, so that none inserts
\* a first number over the others' (increment_store).
NoneMissed == \A c \in Clients : pc[c] # "missed"

\* Actors that increment a key which is never absent, in whatever order their
\* calls come, lose no increment (increment_store).
THEOREM IncrementsAreCounted == Spec => IncrementsAdd
  <1>1. Init => NoneMissed /\ Counted
    BY DEF Init, NoneMissed, Counted, Entry
  <1>2. TypeOK /\ NoneMissed /\ Counted /\ store # Absent /\ (store # Absent)' /\ [Next]_vars
          => NoneMissed' /\ Counted'
    <2> SUFFICES ASSUME TypeOK, NoneMissed, Counted, store # Absent, store' # Absent,
                        [Next]_vars
                 PROVE  NoneMissed' /\ Counted'
      OBVIOUS
    <2>1. CASE Tick
      BY <2>1 DEF Tick, NoneMissed, Counted
    <2>2. ~Clean
      BY DEF Clean
    <2>3. ASSUME NEW c \in Clients, Read(c) \/ Judge(c) \/ RemoveExpired(c)
          PROVE  NoneMissed' /\ Counted'
      BY <2>3 DEF Read, Judge, RemoveExpired, Does, Moves, NoneMissed, Counted, TypeOK
    <2>4. ASSUME NEW c \in Clients, NEW lifetime \in Lifetimes, NEW value \in {0, Text},
                 Write(c, value, lifetime)
          PROVE  NoneMissed' /\ Counted'
      BY <2>4 DEF Write, Entry, NoneMissed, Counted
    <2>5. ASSUME NEW c \in Clients, NEW lifetime \in Lifetimes, Increment(c, lifetime)
          PROVE  NoneMissed' /\ Counted'
      <3>1. NoneMissed'
        BY <2>5 DEF Increment, NoneMissed
      <3>2. CASE store.value \in Numbers
        <4>1. store.value = due
          BY <3>2 DEF Counted
        <4>2. store'.value = store.value + 1 /\ due' = due + 1
          BY <2>5, <3>2, <4>1 DEF Increment, Entry
        <4> QED BY <3>1, <4>1, <4>2 DEF Counted
      <3>3. CASE store.value \notin Numbers
        <4>1. store'.value = store.value
          BY <2>5, <3>3 DEF Increment, Entry
        <4> QED BY <3>1, <3>3, <4>1 DEF Counted, Numbers
      <3> QED BY <3>2, <3>3
    <2>6. ASSUME NEW c \in Clients, NEW lifetime \in Lifetimes, IncrementMisses(c, lifetime)
          PROVE  FALSE
      BY <2>6 DEF IncrementMisses
    <2>7. ASSUME NEW c \in Clients, InsertFirst(c) PROVE FALSE
      BY <2>7 DEF InsertFirst, NoneMissed
    <2>8. ASSUME NEW c \in Clients, Delete(c) PROVE FALSE
      BY <2>8 DEF Delete
    <2>9. CASE UNCHANGED vars
      BY <2>9 DEF vars, NoneMissed, Counted
    <2> QED BY <2>1, <2>2, <2>3, <2>4, <2>5, <2>6, <2>7, <2>8, <2>9 DEF Next
  <1> QED BY <1>1, <1>2, StoreInvariant, PTL DEF Spec, IncrementsAdd
=============================================================================
