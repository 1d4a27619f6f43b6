-------------------------- MODULE EventQueueProofs --------------------------
(***************************************************************************)
(* Proofs about EventQueue, for any number of producers, of nodes and of   *)
(* events: the order of the stores protects the consumer, which takes no   *)
(* lock.                                                                   *)
(***************************************************************************)
EXTENDS EventQueue, FiniteSetTheorems, SequenceTheorems, TLAPS

-----------------------------------------------------------------------------
(* The invariant.                                                          *)

\* Where a producer is while it holds the lock.
Inside == (BeforePublish \ {"lock"}) \cup {"tail", "unlock"}

Locking == \A p \in Producers : ppc[p] \in Inside <=> list_wlock = p

\* A new node is its producer's own until it is published, and the node that
\* left the list is the consumer's.
Owned ==
  /\ \A p \in Producers : ppc[p] \in BeforePublish =>
       /\ item[p] \in Items
       /\ new[p] \in alloc
       /\ \A q \in Producers :
            ppc[q] \in BeforePublish /\ new[q] = new[p] => q = p
       /\ cpc = "free" => cnode # new[p]
  /\ cpc = "free" => cnode \in alloc

\* What the holder of the lock has stored so far.
Stored(p) ==
  /\ ppc[p] \in {"data", "next", "newnext", "newph", "publish"} =>
       node[tail].key = item[p].key
  /\ ppc[p] \in {"next", "newnext", "newph", "publish"} =>
       node[tail].data = item[p].data
  /\ ppc[p] \in {"newnext", "newph", "publish"} => node[tail].next = new[p]
  /\ ppc[p] = "publish" => node[new[p]].is_placeholder = TRUE

\* The list: nodes c[i] from the one that holds the first event not consumed
\* to the placeholder, each linked to the next.
First == Len(got) + 1
Last == Len(put) + 1

Full(x, n) ==
  [next |-> n, key |-> x.key, data |-> x.data, is_placeholder |-> FALSE]

List(c) ==
  /\ c \in [First..Last -> alloc]
  /\ \A i, j \in First..Last : c[i] = c[j] => i = j
  /\ head = c[First]
  /\ \A i \in First..Len(put) : node[c[i]] = Full(put[i], c[i + 1])
  /\ node[c[Last]].is_placeholder = TRUE
  /\ \A p \in Producers : ppc[p] = "tail" => new[p] = c[Last]
  /\ tail = c[Last] \/ \E p \in Producers : ppc[p] = "tail"
  /\ \A i \in First..Last :
       /\ \A p \in Producers : ppc[p] \in BeforePublish => new[p] # c[i]
       /\ cpc = "free" => cnode # c[i]

Linked == \E c \in [First..Last -> Nodes] : List(c)

\* What the consumer has read so far.
Reading ==
  /\ Len(got) <= Len(put)
  /\ \A i \in 1..Len(got) : got[i] = put[i]
  /\ cpc \in {"key", "data", "move"} => Len(got) < Len(put)
  /\ cpc \in {"data", "move"} => key = put[First].key
  /\ cpc = "move" => data = put[First].data

\* The producers that own a node, and how many nodes there are.
Owners == {p \in Producers : ppc[p] \in BeforePublish}

Counted ==
  /\ IsFiniteSet(alloc) /\ IsFiniteSet(Owners)
  /\ Cardinality(alloc) = Len(put) - Len(got) + 1 + Cardinality(Owners)
                          + (IF cpc = "free" THEN 1 ELSE 0)

\* An event not consumed is on its way, or will be looked for.
Noticed ==
  \/ Len(put) = Len(got) \/ active
  \/ cpc \notin {"poll", "return"}
  \/ \E p \in Producers : ppc[p] \in {"tail", "unlock", "activate"}

IInv ==
  /\ TypeOK
  /\ Locking
  /\ Owned
  /\ \A p \in Producers : Stored(p)
  /\ Linked
  /\ Reading
  /\ Counted
  /\ Noticed

-----------------------------------------------------------------------------
(* Stores.                                                                 *)

Records == [next : Nodes \cup {None, Garbage},
            key : Keys \cup {Garbage},
            data : Data \cup {Garbage},
            is_placeholder : BOOLEAN \cup {Garbage}]

\* A store changes one field of one node.
LEMMA StoreField ==
  ASSUME TypeOK, NEW n \in Nodes, NEW v
  PROVE  /\ node' = [node EXCEPT ![n]["key"] = v] =>
              /\ \A m \in Nodes : m # n => node'[m] = node[m]
              /\ node'[n] = [node[n] EXCEPT !.key = v]
         /\ node' = [node EXCEPT ![n]["data"] = v] =>
              /\ \A m \in Nodes : m # n => node'[m] = node[m]
              /\ node'[n] = [node[n] EXCEPT !.data = v]
         /\ node' = [node EXCEPT ![n]["next"] = v] =>
              /\ \A m \in Nodes : m # n => node'[m] = node[m]
              /\ node'[n] = [node[n] EXCEPT !.next = v]
         /\ node' = [node EXCEPT ![n]["is_placeholder"] = v] =>
              /\ \A m \in Nodes : m # n => node'[m] = node[m]
              /\ node'[n] = [node[n] EXCEPT !.is_placeholder = v]
BY DEF TypeOK

\* A store of a value of its type keeps the nodes records.
LEMMA StoreType ==
  ASSUME TypeOK, NEW n \in Nodes, NEW v
  PROVE  \/ node' = [node EXCEPT ![n]["key"] = v] /\ v \in Keys
         \/ node' = [node EXCEPT ![n]["data"] = v] /\ v \in Data
         \/ node' = [node EXCEPT ![n]["next"] = v] /\ v \in Nodes \cup {None}
         \/ node' = [node EXCEPT ![n]["is_placeholder"] = v] /\ v \in BOOLEAN
         => node' \in [Nodes -> Records]
<1> SUFFICES
      ASSUME \/ node' = [node EXCEPT ![n]["key"] = v] /\ v \in Keys
             \/ node' = [node EXCEPT ![n]["data"] = v] /\ v \in Data
             \/ node' = [node EXCEPT ![n]["next"] = v] /\ v \in Nodes \cup {None}
             \/ node' = [node EXCEPT ![n]["is_placeholder"] = v] /\ v \in BOOLEAN
      PROVE  node' \in [Nodes -> Records]
  OBVIOUS
<1>1. node' = [m \in Nodes |-> node'[m]]
  BY DEF TypeOK
<1>2. node[n] \in Records
  BY DEF TypeOK, Records
<1>3. node'[n] \in Records
  <2>1. \/ node'[n] = [node[n] EXCEPT !.key = v] /\ v \in Keys
        \/ node'[n] = [node[n] EXCEPT !.data = v] /\ v \in Data
        \/ node'[n] = [node[n] EXCEPT !.next = v] /\ v \in Nodes \cup {None}
        \/ node'[n] = [node[n] EXCEPT !.is_placeholder = v] /\ v \in BOOLEAN
    BY StoreField
  <2> QED BY <1>2, <2>1 DEF Records
<1>4. \A m \in Nodes : m # n => node'[m] \in Records
  BY StoreField DEF TypeOK, Records
<1> QED BY <1>1, <1>3, <1>4

\* The list, node by node, for the consumer.
LEMMA HeadFacts ==
  ASSUME TypeOK, Linked, Reading
  PROVE  /\ head \in alloc
         /\ Len(got) < Len(put) =>
              /\ put[First] \in Items
              /\ node[head].key = put[First].key
              /\ node[head].data = put[First].data
              /\ node[head].next \in alloc
              /\ node[head].is_placeholder = FALSE
         /\ Len(got) = Len(put) => node[head].is_placeholder = TRUE
<1>1. PICK c \in [First..Last -> Nodes] : List(c)
  BY DEF Linked
<1>2. /\ Len(got) \in Nat /\ Len(put) \in Nat /\ Len(got) <= Len(put)
      /\ First = Len(got) + 1 /\ Last = Len(put) + 1
  BY DEF TypeOK, Reading, First, Last
<1>3. head = c[First] /\ c \in [First..Last -> alloc]
  BY <1>1 DEF List
<1>4. First \in First..Last
  BY <1>2
<1>5. CASE Len(got) < Len(put)
  <2>1. First \in First..Len(put) /\ First + 1 \in First..Last
    BY <1>2, <1>5
  <2>2. node[head] = Full(put[First], c[First + 1])
    BY <1>1, <1>3, <2>1 DEF List
  <2>3. c[First + 1] \in alloc
    BY <1>3, <2>1
  <2>4. put[First] \in Items
    BY <1>2, <1>5 DEF TypeOK
  <2>5. /\ node[head].key = put[First].key
        /\ node[head].data = put[First].data
        /\ node[head].next = c[First + 1]
        /\ node[head].is_placeholder = FALSE
    BY <2>2 DEF Full
  <2>6. head \in alloc
    BY <1>3, <1>4
  <2>7. Len(got) # Len(put)
    BY <1>2, <1>5
  <2>8. node[head].next \in alloc
    BY <2>3, <2>5
  <2> QED BY <2>4, <2>5, <2>6, <2>7, <2>8, Zenon
<1>6. CASE Len(got) = Len(put)
  <2>1. First = Last
    BY <1>2, <1>6
  <2> QED BY <1>1, <1>2, <1>3, <1>4, <1>6, <2>1 DEF List
<1>7. Len(got) < Len(put) \/ Len(got) = Len(put)
  BY <1>2
<1> QED BY <1>5, <1>6, <1>7, Zenon

\* The tail, for a producer that holds the lock and has yet to publish.
LEMMA TailFacts ==
  ASSUME TypeOK, Locking, Reading, NEW c \in [First..Last -> Nodes], List(c),
         NEW p \in Producers, ppc[p] \in BeforePublish \ {"lock"}
  PROVE  tail = c[Last] /\ tail \in alloc
<1>1. Last \in First..Last
  BY DEF TypeOK, Reading, First, Last
<1>2. \A q \in Producers : ppc[q] # "tail"
  <2> SUFFICES ASSUME NEW q \in Producers, ppc[q] = "tail" PROVE FALSE
    OBVIOUS
  <2>1. list_wlock = q /\ list_wlock = p
    BY DEF Locking, Inside
  <2> QED BY <2>1 DEF BeforePublish
<1> QED BY <1>1, <1>2 DEF List

-----------------------------------------------------------------------------
(* Producers and the lock.                                                 *)

Trigger(p) == EventTrigger(p) \/ ListProduce(p) \/ Activate(p)
Consume == CustomEventCb \/ ListConsume

\* What a producer leaves alone.
LEMMA ProducerFrame ==
  ASSUME TypeOK, NEW p \in Producers, Trigger(p)
  PROVE  /\ UNCHANGED consumer
         /\ \A q \in Producers : q # p =>
              ppc'[q] = ppc[q] /\ item'[q] = item[q] /\ new'[q] = new[q]
<1>1. CASE EventTrigger(p)
  BY <1>1 DEF EventTrigger, TypeOK
<1>2. CASE Lock(p) \/ StoreTail(p) \/ Unlock(p)
  BY <1>2 DEF Lock, StoreTail, Unlock, TypeOK
<1>3. CASE StoreKey(p) \/ StoreData(p) \/ StoreNext(p)
  BY <1>3 DEF StoreKey, StoreData, StoreNext, Store, TypeOK
<1>4. CASE StoreNewNext(p) \/ StoreNewPlaceholder(p) \/ Publish(p)
  BY <1>4 DEF StoreNewNext, StoreNewPlaceholder, Publish, Store, TypeOK
<1>5. CASE Activate(p)
  BY <1>5 DEF Activate, TypeOK
<1> QED BY <1>1, <1>2, <1>3, <1>4, <1>5 DEF Trigger, ListProduce

\* The consumer leaves the producers alone.
LEMMA ConsumerFrame ==
  ASSUME Consume \/ UNCHANGED vars
  PROVE  UNCHANGED producers
BY DEF Consume, CustomEventCb, ListConsume, TestHead, LoadKey, LoadData,
       MoveHead, Free, CallbackReturns, CbReturns, vars

\* Where the next stage of a producer is.
LEMMA ProducerMoves ==
  ASSUME TypeOK, NEW p \in Producers
  PROVE  /\ EventTrigger(p) => ppc[p] = "idle" /\ ppc'[p] = "lock"
         /\ Lock(p) => ppc[p] = "lock" /\ ppc'[p] = "key"
         /\ StoreKey(p) => ppc[p] = "key" /\ ppc'[p] = "data"
         /\ StoreData(p) => ppc[p] = "data" /\ ppc'[p] = "next"
         /\ StoreNext(p) => ppc[p] = "next" /\ ppc'[p] = "newnext"
         /\ StoreNewNext(p) => ppc[p] = "newnext" /\ ppc'[p] = "newph"
         /\ StoreNewPlaceholder(p) => ppc[p] = "newph" /\ ppc'[p] = "publish"
         /\ Publish(p) => ppc[p] = "publish" /\ ppc'[p] = "tail"
         /\ StoreTail(p) => ppc[p] = "tail" /\ ppc'[p] = "unlock"
         /\ Unlock(p) => ppc[p] = "unlock" /\ ppc'[p] = "activate"
         /\ Activate(p) => ppc[p] = "activate" /\ ppc'[p] = "idle"
<1> USE DEF TypeOK
<1>1. EventTrigger(p) => ppc[p] = "idle" /\ ppc'[p] = "lock"
  BY DEF EventTrigger
<1>2. Lock(p) => ppc[p] = "lock" /\ ppc'[p] = "key"
  BY DEF Lock
<1>3. /\ StoreKey(p) => ppc[p] = "key" /\ ppc'[p] = "data"
      /\ StoreData(p) => ppc[p] = "data" /\ ppc'[p] = "next"
      /\ StoreNext(p) => ppc[p] = "next" /\ ppc'[p] = "newnext"
  BY DEF StoreKey, StoreData, StoreNext, Store
<1>4. /\ StoreNewNext(p) => ppc[p] = "newnext" /\ ppc'[p] = "newph"
      /\ StoreNewPlaceholder(p) => ppc[p] = "newph" /\ ppc'[p] = "publish"
      /\ Publish(p) => ppc[p] = "publish" /\ ppc'[p] = "tail"
  BY DEF StoreNewNext, StoreNewPlaceholder, Publish, Store
<1>5. /\ StoreTail(p) => ppc[p] = "tail" /\ ppc'[p] = "unlock"
      /\ Unlock(p) => ppc[p] = "unlock" /\ ppc'[p] = "activate"
  BY DEF StoreTail, Unlock
<1>6. Activate(p) => ppc[p] = "activate" /\ ppc'[p] = "idle"
  BY DEF Activate
<1> QED BY <1>1, <1>2, <1>3, <1>4, <1>5, <1>6

\* Only one producer is between Lock and Unlock.
LEMMA Alone ==
  ASSUME Locking, NEW p \in Producers, NEW q \in Producers,
         ppc[p] \in Inside, ppc[q] \in Inside
  PROVE  p = q
BY DEF Locking

\* The lock is held by one producer at a time.
LEMMA LockingStep ==
  ASSUME TypeOK, Locking, [Next]_vars
  PROVE  Locking'
<1>1. ASSUME NEW p \in Producers, Lock(p) PROVE Locking'
  <2>1. \A q \in Producers : q # p => ppc'[q] = ppc[q]
    BY <1>1, ProducerFrame DEF Trigger, ListProduce
  <2>2. ppc[p] = "lock" /\ ppc'[p] = "key" /\ list_wlock = None /\ list_wlock' = p
    BY <1>1, ProducerMoves DEF Lock
  <2>3. \A q \in Producers : ppc[q] \notin Inside
    BY <2>2, EventQueueAssumption DEF Locking
  <2>4. "key" \in Inside
    BY DEF Inside, BeforePublish
  <2> QED BY <2>1, <2>2, <2>3, <2>4 DEF Locking
<1>2. ASSUME NEW p \in Producers, Unlock(p) PROVE Locking'
  <2>1. \A q \in Producers : q # p => ppc'[q] = ppc[q]
    BY <1>2, ProducerFrame DEF Trigger, ListProduce
  <2>2. ppc[p] = "unlock" /\ ppc'[p] = "activate" /\ list_wlock' = None
    BY <1>2, ProducerMoves DEF Unlock
  <2>3. "unlock" \in Inside /\ "activate" \notin Inside
    BY DEF Inside, BeforePublish
  <2>4. \A q \in Producers : ppc'[q] \notin Inside
    BY <2>1, <2>2, <2>3 DEF Locking
  <2> QED BY <2>2, <2>4, EventQueueAssumption DEF Locking
<1>3. ASSUME NEW p \in Producers, Trigger(p), ~ Lock(p), ~ Unlock(p)
      PROVE  Locking'
  <2>1. \A q \in Producers : q # p => ppc'[q] = ppc[q]
    BY <1>3, ProducerFrame
  <2>2. ppc[p] \in Inside <=> ppc'[p] \in Inside
    BY <1>3, ProducerMoves DEF Trigger, ListProduce, Inside, BeforePublish
  <2>3. list_wlock' = list_wlock
    BY <1>3 DEF Trigger, EventTrigger, ListProduce, StoreKey, StoreData, StoreNext,
         StoreNewNext, StoreNewPlaceholder, Publish, Store, StoreTail, Activate
  <2> QED BY <2>1, <2>2, <2>3 DEF Locking
<1>4. CASE Consume \/ UNCHANGED vars
  BY <1>4, ConsumerFrame DEF producers, Locking
<1> QED BY <1>1, <1>2, <1>3, <1>4 DEF Next, Trigger, Consume

\* What a thread has in its hands stays its own.
LEMMA OwnedStep ==
  ASSUME TypeOK, Owned, Linked, Reading, [Next]_vars
  PROVE  Owned'
<1> USE DEF Owned
<1>1. ASSUME NEW p \in Producers, EventTrigger(p) PROVE Owned'
  <2>1. PICK n \in Nodes \ alloc :
          new' = [new EXCEPT ![p] = n] /\ alloc' = alloc \cup {n}
    BY <1>1 DEF EventTrigger
  <2>2. item'[p] \in Items
    BY <1>1 DEF EventTrigger, TypeOK
  <2>3. /\ UNCHANGED <<cpc, cnode>>
        /\ \A q \in Producers : q # p =>
             ppc'[q] = ppc[q] /\ item'[q] = item[q] /\ new'[q] = new[q]
    BY <1>1, ProducerFrame DEF Trigger, consumer
  <2>4. new'[p] = n
    BY <2>1 DEF TypeOK
  <2> QED BY <2>1, <2>2, <2>3, <2>4
<1>2. ASSUME NEW p \in Producers, Trigger(p), ~ EventTrigger(p)
      PROVE  Owned'
  <2>1. /\ UNCHANGED <<cpc, cnode>>
        /\ \A q \in Producers : q # p =>
             ppc'[q] = ppc[q] /\ item'[q] = item[q] /\ new'[q] = new[q]
    BY <1>2, ProducerFrame DEF consumer
  <2>2. UNCHANGED <<alloc, item>> /\ (new' = new \/ ppc'[p] = "activate")
    BY <1>2, ProducerMoves
       DEF Trigger, ListProduce, Lock, StoreKey, StoreData, StoreNext,
           StoreNewNext, StoreNewPlaceholder, Publish, Store, StoreTail, Unlock,
           Activate
  <2>3. ppc'[p] \in BeforePublish => ppc[p] \in BeforePublish /\ new' = new
    BY <1>2, <2>2, ProducerMoves DEF Trigger, ListProduce, BeforePublish
  <2> QED BY <2>1, <2>2, <2>3
<1>3. CASE MoveHead
  <2>1. PICK c \in [First..Last -> Nodes] : List(c)
    BY DEF Linked
  <2>2. First \in First..Last /\ head = c[First]
    BY <2>1 DEF List, TypeOK, Reading, First, Last
  <2>3. \A p \in Producers : ppc[p] \in BeforePublish => new[p] # head
    BY <2>1, <2>2 DEF List
  <2>4. UNCHANGED <<alloc, ppc, item, new>> /\ cnode' = head
    BY <1>3 DEF MoveHead, producers
  <2> QED BY <2>3, <2>4, HeadFacts
<1>4. CASE Free
  BY <1>4 DEF Free, producers
<1>5. CASE (Consume \/ UNCHANGED vars) /\ ~ MoveHead /\ ~ Free
  <2>1. UNCHANGED <<ppc, item, new>>
    BY <1>5, ConsumerFrame DEF producers
  <2>2. UNCHANGED <<alloc, cnode>> /\ (cpc' = "free" => cpc = "free")
    BY <1>5 DEF Consume, CustomEventCb, ListConsume, TestHead, LoadKey, LoadData,
         CallbackReturns, CbReturns, vars, consumer
  <2> QED BY <2>1, <2>2
<1> QED BY <1>1, <1>2, <1>3, <1>4, <1>5 DEF Next, Trigger, Consume

\* The placeholder a producer is about to make the tail.
LEMMA NewTailFacts ==
  ASSUME TypeOK, Linked, Reading, NEW p \in Producers, ppc[p] = "tail"
  PROVE  new[p] \in alloc
<1>1. PICK c \in [First..Last -> Nodes] : List(c)
  BY DEF Linked
<1>2. Last \in First..Last /\ new[p] = c[Last] /\ c \in [First..Last -> alloc]
  BY <1>1 DEF List, TypeOK, Reading, First, Last
<1> QED BY <1>2

\* A store of list_produce keeps all types.
LEMMA StoreStepType ==
  ASSUME TypeOK, NEW p \in Producers, NEW n \in Nodes, NEW v,
         NEW here, NEW there \in BeforePublish \cup {"tail"},
         \/ Store(p, here, there, n, "key", v) /\ v \in Keys
         \/ Store(p, here, there, n, "data", v) /\ v \in Data
         \/ Store(p, here, there, n, "next", v) /\ v \in Nodes \cup {None}
         \/ Store(p, here, there, n, "is_placeholder", v) /\ v \in BOOLEAN,
         put' \in Seq(Items)
  PROVE  TypeOK'
<1>1. /\ ppc' = [ppc EXCEPT ![p] = there]
      /\ UNCHANGED <<alloc, tail, list_wlock, item, new, consumer, active>>
      /\ \/ node' = [node EXCEPT ![n]["key"] = v] /\ v \in Keys
         \/ node' = [node EXCEPT ![n]["data"] = v] /\ v \in Data
         \/ node' = [node EXCEPT ![n]["next"] = v] /\ v \in Nodes \cup {None}
         \/ node' = [node EXCEPT ![n]["is_placeholder"] = v] /\ v \in BOOLEAN
  BY DEF Store
<1>2. node' \in [Nodes -> Records]
  BY <1>1, StoreType
<1>3. ppc' \in [Producers -> BeforePublish \cup
                     {"tail", "unlock", "activate", "idle"}]
  BY <1>1 DEF TypeOK
<1> QED BY <1>1, <1>2, <1>3 DEF TypeOK, Records, consumer

\* So does every step.
LEMMA TypeStep ==
  ASSUME TypeOK, Owned, Linked, Reading, [Next]_vars
  PROVE  TypeOK'
<1>1. ASSUME NEW p \in Producers, EventTrigger(p) PROVE TypeOK'
  <2>1. ppc' \in [Producers -> BeforePublish \cup
                       {"tail", "unlock", "activate", "idle"}]
    BY <1>1 DEF EventTrigger, TypeOK, BeforePublish
  <2>2. item' \in [Producers -> [key : Keys \cup {Garbage},
                                  data : Data \cup {Garbage}]]
    <3>1. PICK x \in Items : item' = [item EXCEPT ![p] = x]
      BY <1>1 DEF EventTrigger
    <3>2. x \in [key : Keys \cup {Garbage}, data : Data \cup {Garbage}]
      BY DEF Items
    <3> QED BY <3>1, <3>2 DEF TypeOK
  <2>3. new' \in [Producers -> Nodes \cup {None}] /\ alloc' \subseteq Nodes
    BY <1>1 DEF EventTrigger, TypeOK
  <2> QED BY <1>1, <2>1, <2>2, <2>3 DEF EventTrigger, TypeOK, consumer
<1>2. ASSUME NEW p \in Producers, Lock(p) \/ StoreTail(p) \/ Unlock(p) \/ Activate(p)
      PROVE  TypeOK'
  <2>1. ppc' \in [Producers -> BeforePublish \cup
                       {"tail", "unlock", "activate", "idle"}]
    BY <1>2 DEF Lock, StoreTail, Unlock, Activate, TypeOK, BeforePublish
  <2>2. new' \in [Producers -> Nodes \cup {None}] /\ tail' \in Nodes
    BY <1>2, NewTailFacts DEF Lock, StoreTail, Unlock, Activate, TypeOK
  <2>3. list_wlock' \in Producers \cup {None} /\ active' \in BOOLEAN
    BY <1>2 DEF Lock, StoreTail, Unlock, Activate, TypeOK
  <2>4. UNCHANGED <<node, alloc, item, put, consumer>>
    BY <1>2 DEF Lock, StoreTail, Unlock, Activate
  <2> QED BY <2>1, <2>2, <2>3, <2>4 DEF TypeOK, consumer
<1>3. ASSUME NEW p \in Producers,
             \/ StoreKey(p) \/ StoreData(p) \/ StoreNext(p)
             \/ StoreNewNext(p) \/ StoreNewPlaceholder(p) \/ Publish(p)
      PROVE  TypeOK'
  <2>1. ppc[p] \in BeforePublish
    BY <1>3, ProducerMoves DEF BeforePublish
  <2>2. /\ tail \in Nodes /\ new[p] \in Nodes /\ item[p] \in Items
        /\ item[p].key \in Keys /\ item[p].data \in Data
    BY <2>1 DEF Owned, TypeOK, Items
  <2>3. put' \in Seq(Items)
    <3>1. put' = put \/ put' = Append(put, item[p])
      BY <1>3 DEF StoreKey, StoreData, StoreNext, StoreNewNext,
           StoreNewPlaceholder, Publish
    <3>2. put \in Seq(Items)
      BY DEF TypeOK
    <3> QED BY <2>2, <3>1, <3>2
  <2>4. {"data", "next", "newnext", "newph", "publish"} \subseteq BeforePublish
    BY DEF BeforePublish
  <2>5. CASE StoreKey(p)
    BY <2>2, <2>3, <2>4, <2>5, StoreStepType DEF StoreKey
  <2>6. CASE StoreData(p)
    BY <2>2, <2>3, <2>4, <2>6, StoreStepType DEF StoreData
  <2>7. CASE StoreNext(p)
    BY <2>2, <2>3, <2>4, <2>7, StoreStepType DEF StoreNext
  <2>8. CASE StoreNewNext(p)
    BY <2>2, <2>3, <2>4, <2>8, StoreStepType DEF StoreNewNext
  <2>9. CASE StoreNewPlaceholder(p)
    BY <2>2, <2>3, <2>4, <2>9, StoreStepType DEF StoreNewPlaceholder
  <2>10. CASE Publish(p)
    BY <2>2, <2>3, <2>4, <2>10, StoreStepType DEF Publish
  <2> QED BY <1>3, <2>5, <2>6, <2>7, <2>8, <2>9, <2>10
<1>4. CASE CustomEventCb \/ TestHead \/ CbReturns \/ CallbackReturns
  <2>1. UNCHANGED <<node, alloc, producers, head, cnode, key, data, got>>
    BY <1>4 DEF CustomEventCb, TestHead, CbReturns, CallbackReturns
  <2>2. cpc' \in {"poll", "test", "key", "return"} /\ active' \in BOOLEAN
    BY <1>4 DEF CustomEventCb, TestHead, CbReturns, CallbackReturns, TypeOK
  <2> QED BY <2>1, <2>2 DEF TypeOK, producers
<1>5. CASE LoadKey \/ LoadData
  <2>1. UNCHANGED <<node, alloc, producers, head, cnode, got, active>>
    BY <1>5 DEF LoadKey, LoadData
  <2>2. /\ cpc' \in {"data", "move"} /\ key' \in Keys \cup {Garbage}
        /\ data' \in Data \cup {Garbage}
    BY <1>5 DEF LoadKey, LoadData, TypeOK
  <2> QED BY <2>1, <2>2 DEF TypeOK, producers
<1>6. CASE MoveHead
  <2>1. /\ UNCHANGED <<node, alloc, producers, key, data, active>>
        /\ cpc = "move" /\ cpc' = "free" /\ cnode' = head
        /\ head' = node[head].next
        /\ got' = Append(got, [key |-> key, data |-> data])
    BY <1>6 DEF MoveHead
  <2>2. /\ head' \in Nodes
        /\ [key |-> key, data |-> data] \in Items
    BY <2>1, HeadFacts DEF TypeOK, Reading, Items
  <2>3. got' \in Seq(Items)
    BY <2>1, <2>2 DEF TypeOK
  <2> QED BY <2>1, <2>2, <2>3 DEF TypeOK, producers
<1>7. CASE Free
  <2>1. /\ UNCHANGED <<producers, head, key, data, got, active>>
        /\ cpc' = "callback" /\ cnode' = None
        /\ alloc' \subseteq alloc
        /\ node' = [node EXCEPT ![cnode] = Blank]
    BY <1>7 DEF Free
  <2>2. Blank \in Records
    BY DEF Blank, Records
  <2>3. node' \in [Nodes -> Records]
    BY <2>1, <2>2 DEF TypeOK, Records
  <2> QED BY <2>1, <2>3 DEF TypeOK, Records, producers
<1>8. CASE UNCHANGED vars
  BY <1>8 DEF vars, TypeOK, producers, consumer
<1> QED
  BY <1>1, <1>2, <1>3, <1>4, <1>5, <1>6, <1>7, <1>8 DEF Next, ListProduce, ListConsume

\* The nodes a producer stores to are not the one the consumer will free.
LEMMA TailApart ==
  ASSUME TypeOK, Locking, Linked, Reading,
         NEW p \in Producers, ppc[p] \in BeforePublish \ {"lock"}
  PROVE  /\ tail \in alloc /\ new[p] # tail
         /\ cpc = "free" => cnode # tail
<1>1. PICK c \in [First..Last -> Nodes] : List(c)
  BY DEF Linked
<1>2. Last \in First..Last
  BY DEF TypeOK, Reading, First, Last
<1> QED BY <1>1, <1>2, TailFacts DEF List

\* What the holder of the lock has stored stays so until it publishes.
LEMMA StoredStep ==
  ASSUME TypeOK, Locking, Owned, Linked, Reading, [Next]_vars,
         \A p \in Producers : Stored(p)
  PROVE  \A p \in Producers : Stored(p)'
<1> SUFFICES ASSUME NEW q \in Producers,
                    ppc'[q] \in {"data", "next", "newnext", "newph", "publish"}
             PROVE  Stored(q)'
  BY DEF Stored
<1> DEFINE Same == /\ UNCHANGED tail /\ ppc'[q] = ppc[q] /\ item'[q] = item[q]
                   /\ new'[q] = new[q]
                   /\ node'[tail] = node[tail] /\ node'[new[q]] = node[new[q]]
<1>0. Same => Stored(q)'
  BY DEF Stored
<1>1. ASSUME NEW p \in Producers, Trigger(p), p # q PROVE Stored(q)'
  <2>1. ppc'[q] = ppc[q] /\ item'[q] = item[q] /\ new'[q] = new[q]
    BY <1>1, ProducerFrame
  <2>2. ppc[q] \in Inside
    BY <2>1 DEF Inside, BeforePublish
  <2>3. list_wlock = q /\ list_wlock # None /\ ppc[p] \notin Inside
    BY <1>1, <2>2, Alone, EventQueueAssumption DEF Locking
  <2>4. EventTrigger(p) \/ Activate(p)
    BY <1>1, <2>3, ProducerMoves
       DEF Trigger, ListProduce, Inside, BeforePublish, Lock
  <2>5. UNCHANGED <<node, tail>>
    BY <2>4 DEF EventTrigger, Activate
  <2> QED BY <1>0, <2>1, <2>5
<1>2. CASE Trigger(q)
  <2>1. StoreKey(q) \/ StoreData(q) \/ StoreNext(q) \/ StoreNewNext(q)
          \/ StoreNewPlaceholder(q)
    BY <1>2, ProducerMoves DEF Trigger, ListProduce
  <2>2. UNCHANGED <<tail, item, new>> /\ ppc[q] \in BeforePublish \ {"lock"}
    BY <2>1, ProducerMoves
       DEF StoreKey, StoreData, StoreNext, StoreNewNext, StoreNewPlaceholder,
           Store, BeforePublish
  <2>3. /\ tail \in Nodes /\ new[q] \in Nodes /\ new[q] # tail
        /\ node[tail] \in Records /\ node[new[q]] \in Records
    BY <2>2, TailApart DEF Owned, TypeOK, Records
  <2>4. CASE StoreKey(q)
    <3>1. ppc'[q] = "data"
      BY <2>4, ProducerMoves
    <3>2. node'[tail] = [node[tail] EXCEPT !.key = item[q].key]
      BY <2>3, <2>4, StoreField DEF StoreKey, Store
    <3>3. node'[tail].key = item[q].key
      BY <2>3, <3>2 DEF Records
    <3> QED BY <2>2, <3>1, <3>3 DEF Stored
  <2>5. CASE StoreData(q)
    <3>1. ppc[q] = "data" /\ ppc'[q] = "next"
      BY <2>5, ProducerMoves
    <3>2. node'[tail] = [node[tail] EXCEPT !.data = item[q].data]
      BY <2>3, <2>5, StoreField DEF StoreData, Store
    <3>3. node'[tail].key = node[tail].key /\ node'[tail].data = item[q].data
      BY <2>3, <3>2 DEF Records
    <3> QED BY <2>2, <3>1, <3>3 DEF Stored
  <2>6. CASE StoreNext(q)
    <3>1. ppc[q] = "next" /\ ppc'[q] = "newnext"
      BY <2>6, ProducerMoves
    <3>2. node'[tail] = [node[tail] EXCEPT !.next = new[q]]
      BY <2>3, <2>6, StoreField DEF StoreNext, Store
    <3>3. /\ node'[tail].key = node[tail].key
          /\ node'[tail].data = node[tail].data /\ node'[tail].next = new[q]
      BY <2>3, <3>2 DEF Records
    <3> QED BY <2>2, <3>1, <3>3 DEF Stored
  <2>7. CASE StoreNewNext(q)
    <3>1. ppc[q] = "newnext" /\ ppc'[q] = "newph"
      BY <2>7, ProducerMoves
    <3>2. node'[tail] = node[tail]
      BY <2>3, <2>7, StoreField DEF StoreNewNext, Store
    <3> QED BY <2>2, <3>1, <3>2 DEF Stored
  <2>8. CASE StoreNewPlaceholder(q)
    <3>1. ppc[q] = "newph" /\ ppc'[q] = "publish"
      BY <2>8, ProducerMoves
    <3>2. node'[tail] = node[tail]
      BY <2>3, <2>8, StoreField DEF StoreNewPlaceholder, Store
    <3>3. node'[new[q]] = [node[new[q]] EXCEPT !.is_placeholder = TRUE]
      BY <2>3, <2>8, StoreField DEF StoreNewPlaceholder, Store
    <3>4. node'[new[q]].is_placeholder = TRUE
      BY <2>3, <3>3 DEF Records
    <3> QED BY <2>2, <3>1, <3>2, <3>4 DEF Stored
  <2> QED BY <2>1, <2>4, <2>5, <2>6, <2>7, <2>8
<1>3. CASE Consume \/ UNCHANGED vars
  <2>1. UNCHANGED producers
    BY <1>3, ConsumerFrame
  <2>2. UNCHANGED <<tail, ppc, item, new>>
    BY <2>1 DEF producers
  <2>3. ppc[q] \in BeforePublish \ {"lock"}
    BY <2>2 DEF BeforePublish
  <2>4. CASE Free
    <3>1. cpc = "free" /\ node' = [node EXCEPT ![cnode] = Blank]
      BY <2>4 DEF Free
    <3>2. cnode # tail /\ cnode # new[q]
      BY <2>3, <3>1, TailApart DEF Owned
    <3>3. node'[tail] = node[tail] /\ node'[new[q]] = node[new[q]]
      BY <2>3, <3>1, <3>2 DEF TypeOK, Owned
    <3> QED BY <1>0, <2>2, <3>3
  <2>5. CASE ~ Free
    <3>1. node' = node
      BY <1>3, <2>5 DEF Consume, CustomEventCb, ListConsume, TestHead, LoadKey,
           LoadData, MoveHead, CallbackReturns, CbReturns, vars
    <3> QED BY <1>0, <2>2, <3>1
  <2> QED BY <2>4, <2>5
<1> QED BY <1>1, <1>2, <1>3 DEF Next, Trigger, Consume

\* What the consumer has read is the first event not consumed.
LEMMA ReadingStep ==
  ASSUME TypeOK, Linked, Reading, [Next]_vars
  PROVE  Reading'
<1>0. /\ Len(got) \in Nat /\ Len(put) \in Nat /\ put \in Seq(Items)
      /\ got \in Seq(Items) /\ First = Len(got) + 1
  BY DEF TypeOK, First
<1>1. ASSUME NEW p \in Producers, Publish(p) PROVE Reading'
  <2>1. put' = Append(put, item[p]) /\ UNCHANGED <<got, cpc, key, data>>
    BY <1>1 DEF Publish, Store, consumer
  <2>2. Len(put') = Len(put) + 1 /\ \A i \in 1..Len(put) : put'[i] = put[i]
    BY <1>0, <2>1
  <2>3. /\ Len(got) <= Len(put') /\ (Len(got) < Len(put) => Len(got) < Len(put'))
        /\ \A i \in 1..Len(got) : put'[i] = put[i]
        /\ Len(got) < Len(put) => put'[First] = put[First]
    BY <1>0, <2>2 DEF Reading
  <2>4. First' = First
    BY <2>1 DEF First
  <2> QED BY <2>1, <2>3, <2>4 DEF Reading
<1>2. ASSUME NEW p \in Producers, Trigger(p), ~ Publish(p) PROVE Reading'
  <2>1. UNCHANGED <<got, cpc, key, data>>
    BY <1>2, ProducerFrame DEF consumer
  <2>2. put' = put
    BY <1>2 DEF Trigger, EventTrigger, ListProduce, Lock, StoreKey, StoreData,
         StoreNext, StoreNewNext, StoreNewPlaceholder, StoreTail, Unlock, Activate
  <2> QED BY <2>1, <2>2 DEF Reading, First
<1>3. CASE TestHead
  <2>1. UNCHANGED <<put, got, key, data>>
    BY <1>3 DEF TestHead, producers
  <2>2. cpc' = IF node[head].is_placeholder = FALSE THEN "key" ELSE "return"
    BY <1>3 DEF TestHead
  <2>3. cpc' = "key" => Len(got) < Len(put)
    <3>1. Len(got) < Len(put) \/ Len(got) = Len(put)
      BY <1>0 DEF Reading
    <3>2. Len(got) = Len(put) => node[head].is_placeholder = TRUE
      BY HeadFacts
    <3> QED BY <2>2, <3>1, <3>2
  <2>4. cpc' \in {"key", "return"}
    BY <2>2
  <2> QED BY <2>1, <2>3, <2>4 DEF Reading, First
<1>4. CASE LoadKey \/ LoadData
  <2>1. UNCHANGED <<put, got>> /\ Len(got) < Len(put)
    BY <1>4 DEF LoadKey, LoadData, producers, Reading
  <2>2. First' = First
    BY <2>1 DEF First
  <2>3. node[head].key = put[First].key /\ node[head].data = put[First].data
    BY <2>1, HeadFacts
  <2>4. CASE LoadKey
    BY <2>1, <2>2, <2>3, <2>4 DEF LoadKey, Reading
  <2>5. CASE LoadData
    BY <2>1, <2>2, <2>3, <2>5 DEF LoadData, Reading
  <2> QED BY <1>4, <2>4, <2>5
<1>5. CASE MoveHead
  <2>1. /\ cpc = "move" /\ cpc' = "free" /\ put' = put
        /\ got' = Append(got, [key |-> key, data |-> data])
    BY <1>5 DEF MoveHead, producers
  <2>2. put[First] \in Items /\ [key |-> key, data |-> data] = put[First]
    BY <2>1, HeadFacts DEF Reading, Items
  <2>3. got' = Append(got, put[First])
    BY <2>1, <2>2
  <2>4. /\ Len(got') = Len(got) + 1 /\ got'[First] = put[First]
        /\ \A i \in 1..Len(got) : got'[i] = got[i]
    BY <1>0, <2>3
  <2>5. Len(got) < Len(put)
    BY <2>1 DEF Reading
  <2>6. Len(got') <= Len(put)
    BY <1>0, <2>4, <2>5
  <2>7. \A i \in 1..Len(got') : got'[i] = put[i]
    <3>1. \A i \in 1..Len(got') : i \in 1..Len(got) \/ i = First
      BY <1>0, <2>4
    <3> QED BY <2>4, <3>1 DEF Reading
  <2> QED BY <2>1, <2>6, <2>7 DEF Reading
<1>6. CASE \/ CustomEventCb \/ CbReturns \/ Free \/ CallbackReturns
           \/ UNCHANGED vars
  <2>1. UNCHANGED <<put, got, key, data>>
    BY <1>6 DEF CustomEventCb, CbReturns, Free, CallbackReturns, vars,
         producers, consumer
  <2>2. cpc' = cpc \/ cpc' \in {"test", "poll", "callback"}
    BY <1>6 DEF CustomEventCb, CbReturns, Free, CallbackReturns, vars, consumer
  <2> QED BY <2>1, <2>2 DEF Reading, First
<1> QED
  BY <1>1, <1>2, <1>3, <1>4, <1>5, <1>6 DEF Next, Trigger, ListConsume

-----------------------------------------------------------------------------
(* The list.                                                               *)

\* A step after which the list is where it was.
LEMMA LinkedFrame ==
  ASSUME NEW c \in [First..Last -> Nodes], List(c), UNCHANGED <<head, put, got>>,
         \A i \in First..Last : c[i] \in alloc',
         \A i \in First..Len(put) : node'[c[i]] = node[c[i]],
         node'[c[Last]].is_placeholder = TRUE,
         \A p \in Producers : ppc'[p] = "tail" => new'[p] = c[Last],
         tail' = c[Last] \/ \E p \in Producers : ppc'[p] = "tail",
         \A i \in First..Last :
           /\ \A p \in Producers : ppc'[p] \in BeforePublish => new'[p] # c[i]
           /\ cpc' = "free" => cnode' # c[i]
  PROVE  Linked'
<1>1. First' = First /\ Last' = Last
  BY DEF First, Last
<1>2. c \in [First..Last -> alloc']
  OBVIOUS
<1>3. List(c)'
  BY <1>1, <1>2 DEF List
<1> QED BY <1>1, <1>3 DEF Linked

\* What the frame asks of the steps of a producer that neither publishes nor
\* moves the tail, given what becomes of the nodes.
LEMMA ProducerLinked ==
  ASSUME TypeOK, Locking, Reading, NEW c \in [First..Last -> Nodes], List(c),
         NEW p \in Producers, Trigger(p), ~ Publish(p), ~ StoreTail(p),
         \A i \in First..Len(put) : node'[c[i]] = node[c[i]],
         node'[c[Last]].is_placeholder = TRUE,
         ppc'[p] \in BeforePublish => \A i \in First..Last : new'[p] # c[i]
  PROVE  Linked'
<1>1. /\ UNCHANGED <<head, got, cpc, cnode>>
      /\ \A q \in Producers : q # p => ppc'[q] = ppc[q] /\ new'[q] = new[q]
  BY ProducerFrame DEF consumer
<1>2. UNCHANGED <<put, tail>> /\ alloc \subseteq alloc'
  BY DEF Trigger, EventTrigger, ListProduce, Lock, StoreKey, StoreData, StoreNext,
     StoreNewNext, StoreNewPlaceholder, Store, Unlock, Activate
<1>3. ppc[p] # "tail" /\ ppc'[p] # "tail"
  BY ProducerMoves DEF Trigger, ListProduce
<1>4. \A i \in First..Last : c[i] \in alloc'
  BY <1>2 DEF List
<1>5. \A q \in Producers : ppc'[q] = "tail" => new'[q] = c[Last]
  BY <1>1, <1>3 DEF List
<1>6. tail' = c[Last] \/ \E q \in Producers : ppc'[q] = "tail"
  BY <1>1, <1>2, <1>3 DEF List
<1>7. ASSUME NEW i \in First..Last
      PROVE  /\ \A q \in Producers : ppc'[q] \in BeforePublish => new'[q] # c[i]
             /\ cpc' = "free" => cnode' # c[i]
  BY <1>1 DEF List
<1> QED BY <1>1, <1>2, <1>4, <1>5, <1>6, <1>7, LinkedFrame

\* Publishing adds the new node to the end of the list.
LEMMA PublishLinked ==
  ASSUME TypeOK, Locking, Owned, Reading, NEW c \in [First..Last -> Nodes], List(c),
         NEW p \in Producers, Stored(p), Publish(p)
  PROVE  Linked'
<1>0. PICK d : d = [i \in First..(Last + 1) |-> IF i = Last + 1 THEN new[p] ELSE c[i]]
  OBVIOUS
<1>1. /\ Len(put) \in Nat /\ Len(got) \in Nat /\ Len(got) <= Len(put)
      /\ First = Len(got) + 1 /\ Last = Len(put) + 1 /\ put \in Seq(Items)
  BY DEF TypeOK, Reading, First, Last
<1>2. /\ UNCHANGED <<alloc, tail, head, got, cpc, cnode, new>>
      /\ put' = Append(put, item[p]) /\ ppc[p] = "publish" /\ ppc'[p] = "tail"
      /\ node' = [node EXCEPT ![tail]["is_placeholder"] = FALSE]
      /\ \A q \in Producers : q # p => ppc'[q] = ppc[q]
  BY ProducerMoves, ProducerFrame DEF Publish, Store, consumer, Trigger, ListProduce
<1>3. ppc[p] \in BeforePublish \ {"lock"}
  BY <1>2 DEF BeforePublish
<1>4. /\ tail = c[Last] /\ tail \in alloc /\ new[p] \in alloc
      /\ item[p] \in Items /\ node[tail] \in Records
  BY <1>3, TailFacts DEF Owned, TypeOK, Records
<1>5. /\ node[tail].key = item[p].key /\ node[tail].data = item[p].data
      /\ node[tail].next = new[p] /\ node[new[p]].is_placeholder = TRUE
  BY <1>2 DEF Stored
<1>6. First' = First /\ Last' = Last + 1 /\ Len(put') = Last
  BY <1>1, <1>2 DEF First, Last
<1>7. /\ \A i \in 1..Len(put) : put'[i] = put[i]
      /\ put'[Last] = item[p]
  BY <1>1, <1>2, <1>4
<1>8. /\ \A m \in Nodes : m # tail => node'[m] = node[m]
      /\ node'[tail] = [node[tail] EXCEPT !.is_placeholder = FALSE]
  BY <1>2, <1>4, StoreField DEF TypeOK
<1>9. node'[tail] = Full(item[p], new[p])
  BY <1>4, <1>5, <1>8 DEF Full, Records
<1>10. /\ \A i \in First..Last : d[i] = c[i] /\ c[i] \in alloc
       /\ d[Last + 1] = new[p] /\ Last \in First..Last
       /\ \A i \in First..(Last + 1) : i \in First..Last \/ i = Last + 1
       /\ \A i \in First..Last : c[i] # new[p]
  BY <1>0, <1>1, <1>3 DEF List
<1>11. d \in [First..(Last + 1) -> alloc] /\ d \in [First..(Last + 1) -> Nodes]
  <2>1. \A i \in First..(Last + 1) : d[i] \in alloc
    BY <1>4, <1>10
  <2> QED BY <1>0, <2>1 DEF TypeOK
<1>12. \A i, j \in First..(Last + 1) : d[i] = d[j] => i = j
  BY <1>10 DEF List
<1>13. head = d[First]
  BY <1>1, <1>10 DEF List
<1>14. ASSUME NEW i \in First..Last
       PROVE  node'[d[i]] = Full(put'[i], d[i + 1])
  <2>1. CASE i = Last
    BY <1>4, <1>7, <1>9, <1>10, <2>1
  <2>2. CASE i # Last
    <3>1. i \in First..Len(put) /\ i + 1 \in First..Last /\ i \in 1..Len(put)
      BY <1>1, <2>2
    <3>2. c[i] # tail /\ c[i] \in Nodes
      BY <1>4, <1>10, <2>2 DEF List
    <3>3. node[c[i]] = Full(put[i], c[i + 1])
      BY <3>1 DEF List
    <3> QED BY <1>7, <1>8, <1>10, <3>1, <3>2, <3>3
  <2> QED BY <2>1, <2>2
<1>15. node'[d[Last + 1]].is_placeholder = TRUE
  BY <1>4, <1>5, <1>8, <1>10 DEF TypeOK
<1>16. \A q \in Producers : ppc'[q] = "tail" => q = p
  <2> SUFFICES ASSUME NEW q \in Producers, ppc'[q] = "tail", q # p PROVE FALSE
    OBVIOUS
  <2>1. ppc[q] \in Inside /\ ppc[p] \in Inside
    BY <1>2 DEF Inside, BeforePublish
  <2> QED BY <2>1, Alone
<1>17. ASSUME NEW i \in First..(Last + 1)
       PROVE  /\ \A q \in Producers : ppc'[q] \in BeforePublish => new'[q] # d[i]
              /\ cpc' = "free" => cnode' # d[i]
  <2>1. ppc'[p] \notin BeforePublish
    BY <1>2 DEF BeforePublish
  <2>2. CASE i = Last + 1
    BY <1>2, <1>3, <1>10, <2>1, <2>2 DEF Owned
  <2>3. CASE i \in First..Last
    BY <1>2, <1>10, <2>1, <2>3 DEF List
  <2> QED BY <1>10, <2>2, <2>3
<1>18. List(d)'
  <2>1. /\ d \in [First'..Last' -> alloc'] /\ head' = d[First']
        /\ \A i, j \in First'..Last' : d[i] = d[j] => i = j
    BY <1>2, <1>6, <1>11, <1>12, <1>13
  <2>2. \A i \in First'..Len(put') : node'[d[i]] = Full(put'[i], d[i + 1])
    BY <1>6, <1>14
  <2>3. /\ node'[d[Last']].is_placeholder = TRUE
        /\ \A q \in Producers : ppc'[q] = "tail" => new'[q] = d[Last']
        /\ \E q \in Producers : ppc'[q] = "tail"
    BY <1>2, <1>6, <1>10, <1>15, <1>16
  <2>4. \A i \in First'..Last' :
          /\ \A q \in Producers : ppc'[q] \in BeforePublish => new'[q] # d[i]
          /\ cpc' = "free" => cnode' # d[i]
    BY <1>6, <1>17
  <2> QED BY <2>1, <2>2, <2>3, <2>4 DEF List
<1>19. d \in [First'..Last' -> Nodes]
  BY <1>6, <1>11
<1> QED BY <1>18, <1>19 DEF Linked

\* Moving the head drops the first node.
LEMMA MoveHeadLinked ==
  ASSUME TypeOK, Reading, NEW c \in [First..Last -> Nodes], List(c), MoveHead
  PROVE  Linked'
<1>0. PICK d : d = [i \in (First + 1)..Last |-> c[i]]
  OBVIOUS
<1>1. /\ Len(put) \in Nat /\ Len(got) \in Nat /\ Len(got) < Len(put)
      /\ First = Len(got) + 1 /\ Last = Len(put) + 1 /\ got \in Seq(Items)
  BY DEF TypeOK, Reading, First, Last, MoveHead
<1>2. /\ UNCHANGED <<node, alloc, tail, ppc, new, put>>
      /\ cpc' = "free" /\ cnode' = head /\ head' = node[head].next
      /\ got' = Append(got, [key |-> key, data |-> data])
  BY DEF MoveHead, producers
<1>3. First' = First + 1 /\ Last' = Last
  BY <1>1, <1>2 DEF First, Last
<1>4. /\ First \in First..Last /\ First \in First..Len(put)
      /\ First + 1 \in (First + 1)..Last /\ Last \in (First + 1)..Last
      /\ \A i \in (First + 1)..Last :
           i \in First..Last /\ i # First /\ d[i] = c[i] /\ c[i] \in alloc
      /\ \A i \in (First + 1)..Len(put) :
           i \in First..Len(put) /\ i \in (First + 1)..Last
           /\ i + 1 \in (First + 1)..Last
  BY <1>0, <1>1 DEF List
<1>5. d \in [(First + 1)..Last -> alloc] /\ d \in [(First + 1)..Last -> Nodes]
  BY <1>0, <1>4 DEF TypeOK
<1>6. head' = d[First + 1] /\ head = c[First]
  <2>1. head = c[First] /\ node[c[First]] = Full(put[First], c[First + 1])
    BY <1>4 DEF List
  <2>2. node[head].next = c[First + 1]
    BY <2>1 DEF Full
  <2> QED BY <1>2, <1>4, <2>1, <2>2
<1>7. List(d)'
  <2>1. d \in [First'..Last' -> alloc'] /\ head' = d[First']
    BY <1>2, <1>3, <1>5, <1>6
  <2>5. \A i, j \in First'..Last' : d[i] = d[j] => i = j
    <3>1. \A i, j \in (First + 1)..Last : c[i] = c[j] => i = j
      BY <1>4 DEF List
    <3> QED BY <1>3, <1>4, <3>1
  <2>2. \A i \in First'..Len(put') : node'[d[i]] = Full(put'[i], d[i + 1])
    BY <1>2, <1>3, <1>4 DEF List
  <2>3. /\ node'[d[Last']].is_placeholder = TRUE
        /\ \A q \in Producers : ppc'[q] = "tail" => new'[q] = d[Last']
        /\ tail' = d[Last'] \/ \E q \in Producers : ppc'[q] = "tail"
    BY <1>2, <1>3, <1>4 DEF List
  <2>4. \A i \in First'..Last' :
          /\ \A q \in Producers : ppc'[q] \in BeforePublish => new'[q] # d[i]
          /\ cpc' = "free" => cnode' # d[i]
    BY <1>2, <1>3, <1>4, <1>6 DEF List
  <2> QED BY <2>1, <2>2, <2>3, <2>4, <2>5 DEF List
<1>8. d \in [First'..Last' -> Nodes]
  BY <1>3, <1>5
<1> QED BY <1>7, <1>8 DEF Linked

\* The list stays a list.
LEMMA LinkedStep ==
  ASSUME TypeOK, Locking, Owned, \A p \in Producers : Stored(p), Linked, Reading,
         [Next]_vars
  PROVE  Linked'
<1>0. PICK c \in [First..Last -> Nodes] : List(c)
  BY DEF Linked
<1>1. /\ Last \in First..Last /\ First..Len(put) \subseteq First..Last
      /\ \A i \in First..Len(put) : i # Last
  BY DEF TypeOK, Reading, First, Last
<1>2. /\ \A i \in First..Len(put) : c[i] # c[Last]
      /\ \A i \in First..Last : c[i] \in alloc /\ c[i] \in Nodes
      /\ node[c[Last]].is_placeholder = TRUE
  BY <1>0, <1>1 DEF List
<1>3. ASSUME NEW p \in Producers, EventTrigger(p) PROVE Linked'
  <2>1. PICK n \in Nodes \ alloc : new' = [new EXCEPT ![p] = n]
    BY <1>3 DEF EventTrigger
  <2>2. new'[p] \notin alloc /\ node' = node
    BY <1>3, <2>1 DEF EventTrigger, TypeOK
  <2>3. Trigger(p) /\ ~ Publish(p) /\ ~ StoreTail(p)
    BY <1>3, ProducerMoves DEF Trigger
  <2> QED BY <1>0, <1>2, <2>2, <2>3, ProducerLinked
<1>4. ASSUME NEW p \in Producers, Lock(p) \/ Unlock(p) \/ Activate(p) PROVE Linked'
  <2>1. node' = node /\ (ppc'[p] \in BeforePublish => ppc[p] \in BeforePublish
                                                      /\ new' = new)
    BY <1>4, ProducerMoves DEF Lock, Unlock, Activate, BeforePublish
  <2>2. Trigger(p) /\ ~ Publish(p) /\ ~ StoreTail(p)
    BY <1>4, ProducerMoves DEF Trigger, ListProduce
  <2>3. ppc'[p] \in BeforePublish => \A i \in First..Last : new'[p] # c[i]
    BY <1>0, <2>1 DEF List
  <2> QED BY <1>0, <1>2, <2>1, <2>2, <2>3, ProducerLinked
<1>5. ASSUME NEW p \in Producers,
             \/ StoreKey(p) \/ StoreData(p) \/ StoreNext(p)
             \/ StoreNewNext(p) \/ StoreNewPlaceholder(p)
      PROVE  Linked'
  <2>1. new' = new /\ ppc[p] \in BeforePublish \ {"lock"}
    BY <1>5, ProducerMoves
       DEF StoreKey, StoreData, StoreNext, StoreNewNext, StoreNewPlaceholder,
           Store, BeforePublish
  <2>2. tail = c[Last] /\ tail \in Nodes /\ new[p] \in Nodes
    BY <1>0, <2>1, TailFacts DEF Owned, TypeOK
  <2>3. \A i \in First..Last : new[p] # c[i]
    BY <1>0, <2>1 DEF List
  <2>4. Trigger(p) /\ ~ Publish(p) /\ ~ StoreTail(p)
    BY <1>5, ProducerMoves DEF Trigger, ListProduce
  <2>5. CASE StoreKey(p) \/ StoreData(p) \/ StoreNext(p)
    <3>1. \/ node' = [node EXCEPT ![tail]["key"] = item[p].key]
          \/ node' = [node EXCEPT ![tail]["data"] = item[p].data]
          \/ node' = [node EXCEPT ![tail]["next"] = new[p]]
      BY <2>5 DEF StoreKey, StoreData, StoreNext, Store
    <3>2. /\ \A m \in Nodes : m # tail => node'[m] = node[m]
          /\ \/ node'[tail] = [node[tail] EXCEPT !.key = item[p].key]
             \/ node'[tail] = [node[tail] EXCEPT !.data = item[p].data]
             \/ node'[tail] = [node[tail] EXCEPT !.next = new[p]]
      BY <2>2, <3>1, StoreField
    <3>3. node[tail] \in Records
      BY <2>2 DEF TypeOK, Records
    <3>4. node'[tail].is_placeholder = node[tail].is_placeholder
      BY <3>2, <3>3 DEF Records
    <3>5. \A i \in First..Len(put) : node'[c[i]] = node[c[i]]
      BY <1>1, <1>2, <2>2, <3>2
    <3>6. node'[c[Last]].is_placeholder = TRUE
      BY <1>2, <2>2, <3>4
    <3> QED BY <1>0, <2>1, <2>3, <2>4, <3>5, <3>6, ProducerLinked
  <2>6. CASE StoreNewNext(p) \/ StoreNewPlaceholder(p)
    <3>1. \/ node' = [node EXCEPT ![new[p]]["next"] = None]
          \/ node' = [node EXCEPT ![new[p]]["is_placeholder"] = TRUE]
      BY <2>6 DEF StoreNewNext, StoreNewPlaceholder, Store
    <3>2. \A m \in Nodes : m # new[p] => node'[m] = node[m]
      BY <2>2, <3>1, StoreField
    <3>3. \A i \in First..Last : node'[c[i]] = node[c[i]]
      BY <1>2, <2>3, <3>2
    <3>4. /\ \A i \in First..Len(put) : node'[c[i]] = node[c[i]]
          /\ node'[c[Last]].is_placeholder = TRUE
      BY <1>1, <1>2, <3>3
    <3> QED BY <1>0, <2>1, <2>3, <2>4, <3>4, ProducerLinked
  <2> QED BY <1>5, <2>5, <2>6
<1>6. ASSUME NEW p \in Producers, Publish(p) PROVE Linked'
  BY <1>0, <1>6, PublishLinked
<1>7. ASSUME NEW p \in Producers, StoreTail(p) PROVE Linked'
  <2>1. /\ UNCHANGED <<node, alloc, new, put, head, got, cpc, cnode>>
        /\ tail' = new[p] /\ ppc[p] = "tail" /\ ppc'[p] = "unlock"
        /\ \A q \in Producers : q # p => ppc'[q] = ppc[q]
    BY <1>7, ProducerMoves, ProducerFrame DEF StoreTail, consumer, Trigger, ListProduce
  <2>2. tail' = c[Last]
    BY <1>0, <2>1 DEF List
  <2>3. \A q \in Producers : ppc'[q] = "tail" => new'[q] = c[Last]
    BY <1>0, <2>1 DEF List
  <2>4. ASSUME NEW i \in First..Last
        PROVE  /\ \A q \in Producers : ppc'[q] \in BeforePublish => new'[q] # c[i]
               /\ cpc' = "free" => cnode' # c[i]
    BY <1>0, <2>1 DEF List, BeforePublish
  <2> QED BY <1>0, <1>2, <2>1, <2>2, <2>3, <2>4, LinkedFrame
<1>8. CASE MoveHead
  BY <1>0, <1>8, MoveHeadLinked
<1>9. CASE Free
  <2>1. /\ UNCHANGED <<tail, ppc, new, put, head, got>> /\ cpc = "free"
        /\ cpc' = "callback" /\ alloc' = alloc \ {cnode}
        /\ node' = [node EXCEPT ![cnode] = Blank]
    BY <1>9 DEF Free, producers
  <2>2. \A i \in First..Last : cnode # c[i]
    BY <1>0, <2>1 DEF List
  <2>3. \A i \in First..Last : node'[c[i]] = node[c[i]] /\ c[i] \in alloc'
    BY <1>2, <2>1, <2>2 DEF TypeOK
  <2>4. /\ \A i \in First..Len(put) : node'[c[i]] = node[c[i]]
        /\ node'[c[Last]].is_placeholder = TRUE
    BY <1>1, <1>2, <2>3
  <2>5. /\ \A q \in Producers : ppc'[q] = "tail" => new'[q] = c[Last]
        /\ tail' = c[Last] \/ \E q \in Producers : ppc'[q] = "tail"
    BY <1>0, <2>1 DEF List
  <2>6. ASSUME NEW i \in First..Last
        PROVE  /\ \A q \in Producers : ppc'[q] \in BeforePublish => new'[q] # c[i]
               /\ cpc' = "free" => cnode' # c[i]
    BY <1>0, <2>1 DEF List
  <2> QED BY <1>0, <2>1, <2>3, <2>4, <2>5, <2>6, LinkedFrame
<1>10. CASE (Consume \/ UNCHANGED vars) /\ ~ MoveHead /\ ~ Free
  <2>1. UNCHANGED <<tail, ppc, new, put>>
    BY <1>10, ConsumerFrame DEF producers
  <2>2. UNCHANGED <<node, alloc, head, got, cnode>> /\ (cpc' = "free" => cpc = "free")
    BY <1>10 DEF Consume, CustomEventCb, ListConsume, TestHead, LoadKey, LoadData,
         CallbackReturns, CbReturns, vars, consumer
  <2>3. /\ \A q \in Producers : ppc'[q] = "tail" => new'[q] = c[Last]
        /\ tail' = c[Last] \/ \E q \in Producers : ppc'[q] = "tail"
    BY <1>0, <2>1 DEF List
  <2>4. ASSUME NEW i \in First..Last
        PROVE  /\ \A q \in Producers : ppc'[q] \in BeforePublish => new'[q] # c[i]
               /\ cpc' = "free" => cnode' # c[i]
    BY <1>0, <2>1, <2>2 DEF List
  <2> QED BY <1>0, <1>2, <2>1, <2>2, <2>3, <2>4, LinkedFrame
<1> QED
  BY <1>3, <1>4, <1>5, <1>6, <1>7, <1>8, <1>9, <1>10
     DEF Next, ListProduce, Consume

-----------------------------------------------------------------------------
(* The nodes, counted.                                                     *)

\* Every node is accounted for.
LEMMA CountedStep ==
  ASSUME TypeOK, Owned, Reading, Counted, [Next]_vars
  PROVE  Counted'
<1>0. /\ Len(put) \in Nat /\ Len(got) \in Nat
      /\ IsFiniteSet(alloc) /\ IsFiniteSet(Owners)
      /\ Cardinality(alloc) \in Nat /\ Cardinality(Owners) \in Nat
  BY FS_CardinalityType DEF TypeOK, Counted
<1>1. ASSUME NEW p \in Producers, EventTrigger(p) PROVE Counted'
  <2>1. PICK n \in Nodes \ alloc : alloc' = alloc \cup {n}
    BY <1>1 DEF EventTrigger
  <2>2. UNCHANGED <<put, got, cpc>>
    BY <1>1 DEF EventTrigger, consumer
  <2>3. p \notin Owners /\ Owners' = Owners \cup {p}
    <3>1. /\ ppc[p] = "idle" /\ ppc'[p] = "lock"
          /\ \A q \in Producers : q # p => ppc'[q] = ppc[q]
      BY <1>1, ProducerMoves, ProducerFrame DEF Trigger
    <3> QED BY <3>1 DEF Owners, BeforePublish
  <2>4. IsFiniteSet(alloc') /\ Cardinality(alloc') = Cardinality(alloc) + 1
    BY <1>0, <2>1, FS_AddElement
  <2>5. IsFiniteSet(Owners') /\ Cardinality(Owners') = Cardinality(Owners) + 1
    BY <1>0, <2>3, FS_AddElement
  <2> QED BY <1>0, <2>2, <2>4, <2>5 DEF Counted
<1>2. ASSUME NEW p \in Producers, Publish(p) PROVE Counted'
  <2>1. UNCHANGED <<alloc, got, cpc>> /\ put' = Append(put, item[p])
    BY <1>2 DEF Publish, Store, consumer
  <2>2. p \in Owners /\ Owners' = Owners \ {p}
    <3>1. /\ ppc[p] = "publish" /\ ppc'[p] = "tail"
          /\ \A q \in Producers : q # p => ppc'[q] = ppc[q]
      BY <1>2, ProducerMoves, ProducerFrame DEF Trigger, ListProduce
    <3> QED BY <3>1 DEF Owners, BeforePublish
  <2>3. Len(put') = Len(put) + 1
    BY <2>1 DEF TypeOK
  <2>4. IsFiniteSet(Owners') /\ Cardinality(Owners') = Cardinality(Owners) - 1
    BY <1>0, <2>2, FS_RemoveElement
  <2> QED BY <1>0, <2>1, <2>3, <2>4 DEF Counted
<1>3. ASSUME NEW p \in Producers, Trigger(p), ~ EventTrigger(p), ~ Publish(p)
      PROVE  Counted'
  <2>1. UNCHANGED <<alloc, put, got, cpc>>
    BY <1>3 DEF Trigger, ListProduce, Lock, StoreKey, StoreData, StoreNext,
         StoreNewNext, StoreNewPlaceholder, Store, StoreTail, Unlock, Activate,
         consumer
  <2>2. Owners' = Owners
    <3>1. /\ ppc[p] \in BeforePublish <=> ppc'[p] \in BeforePublish
          /\ \A q \in Producers : q # p => ppc'[q] = ppc[q]
      BY <1>3, ProducerMoves, ProducerFrame DEF Trigger, ListProduce, BeforePublish
    <3> QED BY <3>1 DEF Owners
  <2> QED BY <2>1, <2>2 DEF Counted
<1>4. CASE MoveHead
  <2>1. /\ UNCHANGED <<alloc, put, ppc>> /\ cpc = "move" /\ cpc' = "free"
        /\ got' = Append(got, [key |-> key, data |-> data])
    BY <1>4 DEF MoveHead, producers
  <2>2. Len(got') = Len(got) + 1 /\ Owners' = Owners
    BY <2>1 DEF TypeOK, Owners
  <2> QED BY <1>0, <2>1, <2>2 DEF Counted
<1>5. CASE Free
  <2>1. /\ UNCHANGED <<put, got, ppc>> /\ cpc = "free" /\ cpc' = "callback"
        /\ alloc' = alloc \ {cnode} /\ cnode \in alloc
    BY <1>5 DEF Free, producers, Owned
  <2>2. Owners' = Owners
    BY <2>1 DEF Owners
  <2>3. IsFiniteSet(alloc') /\ Cardinality(alloc') = Cardinality(alloc) - 1
    BY <1>0, <2>1, FS_RemoveElement
  <2> QED BY <1>0, <2>1, <2>2, <2>3 DEF Counted
<1>6. CASE (Consume \/ UNCHANGED vars) /\ ~ MoveHead /\ ~ Free
  <2>1. UNCHANGED <<ppc, put>>
    BY <1>6, ConsumerFrame DEF producers
  <2>2. UNCHANGED <<alloc, got>> /\ (cpc' = "free" <=> cpc = "free")
    BY <1>6 DEF Consume, CustomEventCb, ListConsume, TestHead, LoadKey, LoadData,
         CallbackReturns, CbReturns, vars, consumer
  <2>3. Owners' = Owners
    BY <2>1 DEF Owners
  <2> QED BY <2>1, <2>2, <2>3 DEF Counted
<1> QED BY <1>1, <1>2, <1>3, <1>4, <1>5, <1>6 DEF Next, Trigger, Consume

-----------------------------------------------------------------------------
(* Wakeups.                                                                *)

\* An event not consumed stays on its way.
LEMMA NoticedStep ==
  ASSUME TypeOK, Linked, Reading, Noticed, [Next]_vars
  PROVE  Noticed'
<1>1. ASSUME NEW p \in Producers, Publish(p) \/ StoreTail(p) PROVE Noticed'
  <2>1. ppc'[p] \in {"tail", "unlock"}
    BY <1>1, ProducerMoves
  <2> QED BY <2>1 DEF Noticed
<1>2. ASSUME NEW p \in Producers, Unlock(p) PROVE Noticed'
  <2>1. ppc'[p] = "activate"
    BY <1>2, ProducerMoves
  <2> QED BY <2>1 DEF Noticed
<1>3. ASSUME NEW p \in Producers, Activate(p) PROVE Noticed'
  BY <1>3 DEF Activate, Noticed
<1>4. ASSUME NEW p \in Producers, Trigger(p), ~ Publish(p), ~ StoreTail(p),
             ~ Unlock(p), ~ Activate(p)
      PROVE  Noticed'
  <2>1. UNCHANGED <<put, got, cpc, active>>
    BY <1>4 DEF Trigger, EventTrigger, ListProduce, Lock, StoreKey, StoreData,
         StoreNext, StoreNewNext, StoreNewPlaceholder, Store, consumer
  <2>2. /\ ppc[p] \notin {"tail", "unlock", "activate"}
        /\ \A q \in Producers : q # p => ppc'[q] = ppc[q]
    BY <1>4, ProducerMoves, ProducerFrame DEF Trigger, ListProduce
  <2>3. (\E q \in Producers : ppc[q] \in {"tail", "unlock", "activate"})
          => \E q \in Producers : ppc'[q] \in {"tail", "unlock", "activate"}
    BY <2>2
  <2> QED BY <2>1, <2>3 DEF Noticed
<1>5. CASE TestHead
  <2>1. UNCHANGED <<put, got>>
    BY <1>5 DEF TestHead, producers
  <2>2. CASE cpc' = "return"
    <3>1. ~ (node[head].is_placeholder = FALSE)
      BY <1>5, <2>2 DEF TestHead
    <3>2. ~ (Len(got) < Len(put))
      BY <3>1, HeadFacts
    <3>3. Len(got) \in Nat /\ Len(put) \in Nat /\ Len(got) <= Len(put)
      BY DEF TypeOK, Reading
    <3>4. Len(put) = Len(got)
      BY <3>2, <3>3
    <3> QED BY <2>1, <3>4 DEF Noticed
  <2>3. CASE cpc' # "return"
    <3>1. cpc' = "key"
      BY <1>5, <2>3 DEF TestHead
    <3> QED BY <3>1 DEF Noticed
  <2> QED BY <2>2, <2>3
<1>6. CASE CustomEventCb \/ LoadKey \/ LoadData \/ MoveHead \/ Free \/ CallbackReturns
  <2>1. cpc' \notin {"poll", "return"}
    BY <1>6 DEF CustomEventCb, LoadKey, LoadData, MoveHead, Free, CallbackReturns
  <2> QED BY <2>1 DEF Noticed
<1>7. CASE CbReturns \/ UNCHANGED vars
  <2>1. /\ UNCHANGED <<put, got, ppc, active>>
        /\ cpc \notin {"poll", "return"} => cpc' \notin {"poll", "return"}
    BY <1>7 DEF CbReturns, vars, producers, consumer
  <2> QED BY <2>1 DEF Noticed
<1> QED
  BY <1>1, <1>2, <1>3, <1>4, <1>5, <1>6, <1>7
     DEF Next, Trigger, ListProduce, ListConsume

-----------------------------------------------------------------------------
(* The invariant holds.                                                    *)

\* The invariant holds at first.
LEMMA InitIInv == Init => IInv
<1> SUFFICES ASSUME Init PROVE IInv
  OBVIOUS
<1>0. PICK n \in Nodes :
        /\ node = [m \in Nodes |->
                     IF m = n THEN [Blank EXCEPT !.next = None,
                                                 !.is_placeholder = TRUE]
                     ELSE Blank]
        /\ alloc = {n} /\ head = n /\ tail = n
        /\ list_wlock = None
        /\ ppc = [p \in Producers |-> "idle"]
        /\ item = [p \in Producers |-> [key |-> Garbage, data |-> Garbage]]
        /\ new = [p \in Producers |-> None]
        /\ cpc = "poll" /\ cnode = None
        /\ key = Garbage /\ data = Garbage
        /\ active = FALSE
        /\ put = <<>> /\ got = <<>>
  BY DEF Init
<1>1. TypeOK
  <2>1. node \in [Nodes -> Records]
    <3>1. Blank \in Records
      BY DEF Blank, Records
    <3>2. [Blank EXCEPT !.next = None, !.is_placeholder = TRUE] \in Records
      BY <3>1 DEF Records
    <3> QED BY <1>0, <3>1, <3>2
  <2>2. put \in Seq(Items) /\ got \in Seq(Items)
    BY <1>0
  <2>3. /\ ppc \in [Producers -> BeforePublish \cup
                         {"tail", "unlock", "activate", "idle"}]
        /\ item \in [Producers -> [key : Keys \cup {Garbage},
                                    data : Data \cup {Garbage}]]
        /\ new \in [Producers -> Nodes \cup {None}]
    BY <1>0
  <2>4. active \in BOOLEAN
    BY <1>0
  <2> QED BY <1>0, <2>1, <2>2, <2>3, <2>4 DEF TypeOK, Records
<1>2. Locking
  BY <1>0, EventQueueAssumption DEF Locking, Inside, BeforePublish
<1>3. Owned /\ \A p \in Producers : Stored(p)
  BY <1>0 DEF Owned, Stored, BeforePublish
<1>4. Len(put) = 0 /\ Len(got) = 0
  BY <1>0
<1>5. Reading /\ Noticed
  BY <1>0, <1>4 DEF Reading, Noticed
<1>6. Linked
  <2>1. First = 1 /\ Last = 1
    BY <1>4 DEF First, Last
  <2>2. PICK c : c = [i \in 1..1 |-> n]
    OBVIOUS
  <2>3. node[n].is_placeholder = TRUE
    <3>1. node[n] = [Blank EXCEPT !.next = None, !.is_placeholder = TRUE]
      BY <1>0
    <3> QED BY <3>1 DEF Blank
  <2>4. List(c)
    BY <1>0, <1>4, <2>1, <2>2, <2>3 DEF List, BeforePublish
  <2> QED BY <2>1, <2>2, <2>4 DEF Linked
<1>7. Counted
  <2>1. IsFiniteSet({n}) /\ Cardinality({n}) = 1
    BY FS_Singleton
  <2>2. Owners = {}
    BY <1>0 DEF Owners, BeforePublish
  <2>3. IsFiniteSet(Owners) /\ Cardinality(Owners) = 0
    BY <2>2, FS_EmptySet
  <2> QED BY <1>0, <1>4, <2>1, <2>3 DEF Counted
<1> QED BY <1>1, <1>2, <1>3, <1>5, <1>6, <1>7 DEF IInv

\* Every step keeps the invariant.
LEMMA IInvStep == IInv /\ [Next]_vars => IInv'
BY TypeStep, LockingStep, OwnedStep, StoredStep, LinkedStep, ReadingStep,
   CountedStep, NoticedStep DEF IInv

\* The invariant holds always.
LEMMA IInvHolds == Spec => []IInv
<1>1. Init => IInv
  BY InitIInv
<1>2. IInv /\ [Next]_vars => IInv'
  BY IInvStep
<1> QED BY <1>1, <1>2, PTL DEF Spec

-----------------------------------------------------------------------------
(* The theorems.                                                           *)

\* The nodes, the list and the threads of event.cpp keep their types: what
\* list_consume moves ts_list.head to is always a node, never NULL nor the
\* garbage of a node just allocated, and only events that were triggered, key
\* and params, come out.
THEOREM TypeCorrect == Spec => []TypeOK
<1>1. IInv => TypeOK
  BY DEF IInv
<1> QED BY <1>1, IInvHolds, PTL

\* list_consume, which takes no lock, reads memory that is allocated and that
\* list_produce has stored to: the last node says is_placeholder until all
\* its other fields are written.
THEOREM ReadsSafe == Spec => []ReadsInitialised
<1>1. IInv => ReadsInitialised
  <2> SUFFICES ASSUME TypeOK, Linked, Reading PROVE ReadsInitialised
    BY DEF IInv
  <2>1. /\ Len(got) \in Nat /\ Len(put) \in Nat /\ Len(got) <= Len(put)
        /\ cpc \in {"key", "data", "move"} => Len(got) < Len(put)
    BY DEF TypeOK, Reading
  <2>2. head \in alloc /\ alloc \subseteq Nodes
    BY HeadFacts DEF TypeOK
  <2>3. TRUE # Garbage /\ FALSE # Garbage
    BY EventQueueAssumption, Zenon
  <2>4. node[head].is_placeholder # Garbage
    <3>1. Len(got) < Len(put) \/ Len(got) = Len(put)
      BY <2>1
    <3>2. node[head].is_placeholder = FALSE \/ node[head].is_placeholder = TRUE
      BY <3>1, HeadFacts, Zenon
    <3> QED BY <2>3, <3>2, Zenon
  <2>5. cpc \in {"key", "data", "move"} =>
          /\ node[head].key # Garbage /\ node[head].data # Garbage
          /\ node[head].next \in Nodes
    <3> SUFFICES ASSUME cpc \in {"key", "data", "move"}
                 PROVE  /\ node[head].key # Garbage /\ node[head].data # Garbage
                        /\ node[head].next \in Nodes
      OBVIOUS
    <3>1. /\ put[First].key \in Keys /\ put[First].data \in Data
          /\ node[head].key = put[First].key /\ node[head].data = put[First].data
          /\ node[head].next \in alloc
      BY <2>1, HeadFacts DEF Items
    <3> QED BY <2>2, <3>1, EventQueueAssumption
  <2> QED BY <2>2, <2>4, <2>5 DEF ReadsInitialised
<1> QED BY <1>1, IInvHolds, PTL

\* The free of list_consume and the malloc of event_trigger balance: at any
\* moment there is one node for each event not yet consumed, the placeholder,
\* and those in the hands of a thread, and no producer stores to a node that
\* was freed.
THEOREM NodesSafe == Spec => []NodesAccounted
<1>1. IInv => NodesAccounted
  <2> SUFFICES ASSUME TypeOK, Locking, Owned, Linked, Reading, Counted
               PROVE  NodesAccounted
    BY DEF IInv
  <2>1. Cardinality(alloc) =
          Len(put) - Len(got) + 1
          + Cardinality({p \in Producers : ppc[p] \in BeforePublish})
          + (IF cpc = "free" THEN 1 ELSE 0)
    BY DEF Counted, Owners
  <2>2. ASSUME NEW p \in Producers
        PROVE  /\ ppc[p] \in BeforePublish => new[p] \in alloc
               /\ ppc[p] \in BeforePublish \ {"lock"} => tail \in alloc
    BY TailApart DEF Owned
  <2> QED BY <2>1, <2>2 DEF NodesAccounted
<1> QED BY <1>1, IInvHolds, PTL

\* event_active comes after the event is published, so an event published
\* while custom_event_cb is on its way out activates custom_event again.
THEOREM TriggersReach == Spec => []NoLostTrigger
<1>1. IInv => NoLostTrigger
  <2> SUFFICES ASSUME TypeOK, Reading, Noticed,
                      cpc = "poll", ~active,
                      \A p \in Producers : ppc[p] \notin {"tail", "unlock", "activate"}
               PROVE  put = got
    BY DEF IInv, NoLostTrigger
  <2>1. Len(put) = Len(got)
    BY DEF Noticed
  <2>2. \A i \in 1..Len(put) : put[i] = got[i]
    BY <2>1 DEF Reading
  <2> QED BY <2>1, <2>2 DEF TypeOK
<1> QED BY <1>1, IInvHolds, PTL

-----------------------------------------------------------------------------
(* The list is a queue.                                                    *)

\* What is appended is appended to the rest as well.
LEMMA SubSeqAppend ==
  ASSUME NEW S, NEW s \in Seq(S), NEW x \in S, NEW m \in 1..(Len(s) + 1)
  PROVE  SubSeq(Append(s, x), m, Len(s) + 1) = Append(SubSeq(s, m, Len(s)), x)
<1> DEFINE t == Append(s, x)
           a == SubSeq(t, m, Len(s) + 1)
           b == SubSeq(s, m, Len(s))
<1>1. /\ t \in Seq(S) /\ Len(t) = Len(s) + 1 /\ t[Len(s) + 1] = x
      /\ \A i \in 1..Len(s) : t[i] = s[i]
  BY AppendProperties
<1> HIDE DEF t
<1>2. Len(s) \in Nat /\ m \in Int /\ Len(s) + 1 \in Int
  OBVIOUS
<1>3. /\ a \in Seq(S) /\ Len(a) = Len(s) + 2 - m
      /\ \A i \in 1..(Len(s) + 2 - m) : a[i] = t[m + i - 1]
  <2>1. \A i \in m..(Len(s) + 1) : t[i] \in S
    BY <1>1, <1>2
  <2>2. /\ a \in Seq(S)
        /\ Len(a) = IF m <= Len(s) + 1 THEN Len(s) + 1 - m + 1 ELSE 0
        /\ \A i \in 1..(Len(s) + 1 - m + 1) : a[i] = t[m + i - 1]
    BY <1>2, <2>1, SubSeqProperties
  <2> QED BY <1>2, <2>2
<1>4. /\ b \in Seq(S) /\ Len(b) = Len(s) + 1 - m
      /\ \A i \in 1..(Len(s) + 1 - m) : b[i] = s[m + i - 1]
  <2>1. \A i \in m..Len(s) : s[i] \in S
    BY <1>2
  <2>2. /\ b \in Seq(S)
        /\ Len(b) = IF m <= Len(s) THEN Len(s) - m + 1 ELSE 0
        /\ \A i \in 1..(Len(s) - m + 1) : b[i] = s[m + i - 1]
    BY <1>2, <2>1, SubSeqProperties
  <2> QED BY <1>2, <2>2
<1> HIDE DEF a, b
<1>5. /\ Append(b, x) \in Seq(S) /\ Len(Append(b, x)) = Len(s) + 2 - m
      /\ \A i \in 1..(Len(s) + 1 - m) : Append(b, x)[i] = b[i]
      /\ Append(b, x)[Len(s) + 2 - m] = x
  <2>1. /\ Append(b, x) \in Seq(S) /\ Len(Append(b, x)) = Len(b) + 1
        /\ \A i \in 1..Len(b) : Append(b, x)[i] = b[i]
        /\ Append(b, x)[Len(b) + 1] = x
    BY <1>4, AppendProperties
  <2>2. Len(b) + 1 = Len(s) + 2 - m
    BY <1>2, <1>4
  <2> QED BY <1>4, <2>1, <2>2
<1>6. ASSUME NEW i \in 1..(Len(s) + 2 - m) PROVE a[i] = Append(b, x)[i]
  <2>1. CASE i = Len(s) + 2 - m
    <3>1. m + i - 1 = Len(s) + 1
      BY <1>2, <2>1
    <3> QED BY <1>1, <1>3, <1>5, <2>1, <3>1
  <2>2. CASE i # Len(s) + 2 - m
    <3>1. i \in 1..(Len(s) + 1 - m) /\ m + i - 1 \in 1..Len(s)
      BY <1>2, <2>2
    <3>2. a[i] = s[m + i - 1]
      BY <1>1, <1>3, <3>1
    <3>3. Append(b, x)[i] = s[m + i - 1]
      BY <1>4, <1>5, <3>1
    <3> QED BY <3>2, <3>3
  <2> QED BY <2>1, <2>2
<1>7. a = Append(b, x)
  BY <1>3, <1>5, <1>6, SeqEqual
<1> QED BY <1>7 DEF a, b, t

\* The queue is empty at first.
LEMMA InitFifo == Init => Fifo!Init
<1> SUFFICES ASSUME Init PROVE Fifo!Init
  OBVIOUS
<1>1. put = <<>> /\ got = <<>>
  BY DEF Init
<1>2. Len(put) = 0 /\ Len(got) + 1 = 1
  BY <1>1
<1>3. SubSeq(put, Len(got) + 1, Len(put)) = <<>>
  BY <1>2, SubSeqEmpty
<1> QED BY <1>1, <1>3 DEF Fifo!Init

\* The store of is_placeholder that publishes an event is the Put.
LEMMA PublishPuts ==
  ASSUME TypeOK, Owned, Reading, NEW p \in Producers, Publish(p)
  PROVE  item[p] \in Items /\ Fifo!Put(item[p])
<1>1. item[p] \in Items
  BY ProducerMoves DEF Owned, BeforePublish
<1>2. put' = Append(put, item[p]) /\ got' = got
  BY DEF Publish, Store, consumer
<1>3. /\ put \in Seq(Items) /\ Len(got) + 1 \in 1..(Len(put) + 1)
      /\ Len(put') = Len(put) + 1
  BY <1>1, <1>2 DEF TypeOK, Reading
<1>4. SubSeq(put', Len(got') + 1, Len(put')) =
        Append(SubSeq(put, Len(got) + 1, Len(put)), item[p])
  BY <1>1, <1>2, <1>3, SubSeqAppend
<1> QED BY <1>1, <1>2, <1>4 DEF Fifo!Put

\* The store of ts_list.head is the Take.
LEMMA MoveHeadTakes ==
  ASSUME TypeOK, Reading, MoveHead
  PROVE  Fifo!Take
<1>1. /\ put' = put /\ got' = Append(got, [key |-> key, data |-> data])
      /\ cpc = "move"
  BY DEF MoveHead, producers
<1>2. /\ put \in Seq(Items) /\ Len(put) \in Nat /\ Len(got) \in Nat
      /\ Len(got) < Len(put) /\ Len(got') = Len(got) + 1
  BY <1>1 DEF TypeOK, Reading
<1>3. Len(got) + 1 \in 1..Len(put) /\ Len(put) \in (Len(got) + 1)..Len(put)
  BY <1>2
<1>4. /\ Head(SubSeq(put, Len(got) + 1, Len(put))) = put[Len(got) + 1]
      /\ Tail(SubSeq(put, Len(got) + 1, Len(put)))
           = SubSeq(put, Len(got) + 1 + 1, Len(put))
  BY <1>2, <1>3, HeadTailOfSubSeq
<1>5. [key |-> key, data |-> data] = put[Len(got) + 1]
  <2>1. put[First] \in Items /\ key = put[First].key /\ data = put[First].data
    BY <1>1, <1>2, <1>3 DEF Reading, First
  <2> QED BY <2>1 DEF Items, First
<1>6. SubSeq(put, Len(got) + 1, Len(put)) # <<>>
  <2>1. \A i \in (Len(got) + 1)..Len(put) : put[i] \in Items
    BY <1>2
  <2>2. Len(SubSeq(put, Len(got) + 1, Len(put))) # 0
    BY <1>2, <2>1, SubSeqProperties
  <2>3. Len(<<>>) = 0
    OBVIOUS
  <2> QED BY <2>2, <2>3, Zenon
<1> QED BY <1>1, <1>2, <1>4, <1>5, <1>6 DEF Fifo!Take

\* Every other step, of a producer or of the consumer, leaves it as it was.
LEMMA OthersStutter ==
  ASSUME [Next]_vars, ~ \E p \in Producers : Publish(p), ~ MoveHead
  PROVE  UNCHANGED <<put, got>>
<1>1. ASSUME NEW p \in Producers, EventTrigger(p) \/ ListProduce(p) \/ Activate(p)
      PROVE  UNCHANGED <<put, got>>
  BY <1>1 DEF EventTrigger, ListProduce, Lock, StoreKey, StoreData, StoreNext,
              StoreNewNext, StoreNewPlaceholder, Store, StoreTail, Unlock,
              Activate, consumer
<1>2. CASE CustomEventCb \/ ListConsume
  BY <1>2 DEF CustomEventCb, ListConsume, TestHead, CbReturns, LoadKey, LoadData,
              Free, CallbackReturns, producers
<1>3. CASE UNCHANGED vars
  BY <1>3 DEF vars, producers, consumer
<1> QED BY <1>1, <1>2, <1>3 DEF Next

\* Every step is one of the queue or a stutter.
LEMMA StepFifo == IInv /\ [Next]_vars => [Fifo!Next]_(Fifo!vars)
<1> SUFFICES ASSUME TypeOK, Owned, Reading, [Next]_vars
             PROVE  [Fifo!Next]_(Fifo!vars)
  BY DEF IInv
<1>1. ASSUME NEW p \in Producers, Publish(p) PROVE Fifo!Next
  BY <1>1, PublishPuts DEF Fifo!Next
<1>2. CASE MoveHead
  BY <1>2, MoveHeadTakes DEF Fifo!Next
<1>3. CASE (~ \E p \in Producers : Publish(p)) /\ ~ MoveHead
  <2>1. put' = put /\ got' = got
    BY <1>3, OthersStutter
  <2> QED BY <2>1 DEF Fifo!vars
<1> QED BY <1>1, <1>2, <1>3

\* The list of event.cpp is a FIFO queue: whatever the interleaving of
\* producers and consumer, and although list_consume takes no lock, the events
\* that reach a callback are those published, each once, whole and in order.
THEOREM EventsInOrder == Spec => FifoSpec
<1>1. Init => Fifo!Init
  BY InitFifo
<1>2. IInv /\ [Next]_vars => [Fifo!Next]_(Fifo!vars)
  BY StepFifo
<1> QED BY <1>1, <1>2, IInvHolds, PTL DEF Spec, FifoSpec, Fifo!Spec
=============================================================================
