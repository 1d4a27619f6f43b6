----------------------------- MODULE EventQueue -----------------------------
(***************************************************************************)
(* The custom events of ndsim (event.cpp).  event_trigger puts an event in *)
(* a linked list and activates custom_event; the event loop then runs      *)
(* custom_event_cb, which consumes the list until it meets a placeholder.  *)
(* Producers exclude one another with list_wlock.  The consumer takes no   *)
(* lock: all that protects it is the ORDER in which list_produce stores,   *)
(* the last node of the list being a placeholder until it is complete.     *)
(* One producer is the event loop itself: handlers trigger events, and so  *)
(* may the callback of an event, in the middle of custom_event_cb.         *)
(*                                                                         *)
(* Every load and store is a step, in program order, as on the x86 the     *)
(* program is built for (build.sh compiles without optimisation).  What    *)
(* malloc returns is uninitialised: its fields read as Garbage.            *)
(***************************************************************************)
EXTENDS Integers, Sequences, FiniteSets

CONSTANTS
  Producers,   \* the threads that call event_trigger
  EventLoop,   \* the one that runs the event loop
  Keys,        \* hashes of event names
  Data,        \* the params of events
  Nodes,       \* addresses malloc hands out, again once freed
  Garbage,     \* what memory holds that nobody has written
  None,        \* NULL, and the owner of a free lock
  MaxEvents    \* bound: the events ever triggered

ASSUME EventQueueAssumption ==
  /\ MaxEvents \in Nat
  /\ None \notin Nodes \cup Producers
  /\ Garbage \notin Nodes \cup Keys \cup Data \cup {None} \cup BOOLEAN
  /\ Nodes # {} /\ EventLoop \in Producers

Items == [key : Keys, data : Data]

VARIABLES
  node,        \* the memory of each node
  alloc,       \* the nodes that are allocated
  head, tail,  \* ts_list
  list_wlock,  \* the producer that holds it
  ppc,         \* where each producer is in event_trigger
  item,        \* the event it triggers
  new,         \* its new_tail
  cpc,         \* where the event loop is in custom_event_cb and list_consume;
               \* "callback" in the callback of an event, "poll" outside of both
  cnode,       \* node of list_consume, once it left the list
  key, data,   \* the out parameters of list_consume
  active,      \* custom_event is activated
  put, got     \* history: the events published, and the events consumed

producers == <<tail, list_wlock, ppc, item, new, put>>
consumer == <<head, cpc, cnode, key, data, got>>
vars == <<node, alloc, producers, consumer, active>>

-----------------------------------------------------------------------------
(* event_trigger and list_produce.                                         *)

Blank == [next |-> Garbage, key |-> Garbage, data |-> Garbage,
          is_placeholder |-> Garbage]

\* The stores to come before a node is published.
BeforePublish == {"lock", "key", "data", "next", "newnext", "newph", "publish"}

\* A producer makes one store to a node, on its way from here to there.
Store(p, here, there, n, field, value) ==
  /\ ppc[p] = here
  /\ node' = [node EXCEPT ![n][field] = value]
  /\ ppc' = [ppc EXCEPT ![p] = there]
  /\ UNCHANGED <<alloc, tail, list_wlock, item, new, consumer, active>>

\* event_trigger up to malloc; when malloc fails nothing happens at all.
\* The event loop is at it while it runs a callback, of an event or another.
EventTrigger(p) ==
  /\ ppc[p] = "idle"
  /\ p = EventLoop => cpc \in {"poll", "callback"}
  /\ Len(put) + Cardinality({q \in Producers : ppc[q] \in BeforePublish})
       < MaxEvents
  /\ \E x \in Items : item' = [item EXCEPT ![p] = x]
  /\ \E n \in Nodes \ alloc :
       /\ new' = [new EXCEPT ![p] = n]
       /\ alloc' = alloc \cup {n}
  /\ ppc' = [ppc EXCEPT ![p] = "lock"]
  /\ UNCHANGED <<node, tail, list_wlock, put, consumer, active>>

LockNone(p) ==
  /\ ppc[p] = "lock"
  /\ list_wlock' = p
  /\ ppc' = [ppc EXCEPT ![p] = "key"]
  /\ UNCHANGED <<node, alloc, tail, item, new, put, consumer, active>>
Lock(p) ==
  /\ ppc[p] = "lock" /\ list_wlock = None
  /\ list_wlock' = p
  /\ ppc' = [ppc EXCEPT ![p] = "key"]
  /\ UNCHANGED <<node, alloc, tail, item, new, put, consumer, active>>

\* cur_tail is the tail of the list: nobody else moves it under the lock.
StoreKey(p) ==
  Store(p, "key", "data", tail, "key", item[p].key) /\ UNCHANGED put
StoreData(p) ==
  Store(p, "data", "next", tail, "data", item[p].data) /\ UNCHANGED put
StoreNext(p) ==
  Store(p, "next", "newnext", tail, "next", new[p]) /\ UNCHANGED put
StoreNewNext(p) ==
  Store(p, "newnext", "newph", new[p], "next", None) /\ UNCHANGED put
StoreNewPlaceholderMissing(p) ==
  Store(p, "newph", "publish", new[p], "is_placeholder", Garbage) /\ UNCHANGED put
StoreNewPlaceholder(p) ==
  Store(p, "newph", "publish", new[p], "is_placeholder", TRUE) /\ UNCHANGED put
Publish(p) ==
  /\ Store(p, "publish", "tail", tail, "is_placeholder", FALSE)
  /\ put' = Append(put, item[p])

\* By now the consumer may have freed what tail still points to.
StoreTail(p) ==
  /\ ppc[p] = "tail"
  /\ tail' = new[p]
  /\ ppc' = [ppc EXCEPT ![p] = "unlock"]
  /\ UNCHANGED <<node, alloc, list_wlock, item, new, put, consumer, active>>

Unlock(p) ==
  /\ ppc[p] = "unlock"
  /\ list_wlock' = None
  /\ new' = [new EXCEPT ![p] = None]
  /\ ppc' = [ppc EXCEPT ![p] = "activate"]
  /\ UNCHANGED <<node, alloc, tail, item, put, consumer, active>>

\* event_active.
ActivateIfPolling(p) ==
  /\ ppc[p] = "activate"
  /\ active' = (active \/ cpc = "poll")
  /\ ppc' = [ppc EXCEPT ![p] = "idle"]
  /\ UNCHANGED <<node, alloc, tail, list_wlock, item, new, put, consumer>>
Activate(p) ==
  /\ ppc[p] = "activate"
  /\ active' = TRUE
  /\ ppc' = [ppc EXCEPT ![p] = "idle"]
  /\ UNCHANGED <<node, alloc, tail, list_wlock, item, new, put, consumer>>

ListProduce(p) ==
  \/ Lock(p) \/ StoreKey(p) \/ StoreData(p) \/ StoreNext(p)
  \/ StoreNewNext(p) \/ StoreNewPlaceholder(p) \/ Publish(p)
  \/ StoreTail(p) \/ Unlock(p)

-----------------------------------------------------------------------------
(* custom_event_cb and list_consume.                                       *)

\* The loop takes the event off its active queue before it calls back.
CustomEventCb ==
  /\ cpc = "poll" /\ active /\ ppc[EventLoop] = "idle"
  /\ active' = FALSE
  /\ cpc' = "test"
  /\ UNCHANGED <<node, alloc, producers, head, cnode, key, data, got>>

\* if (ts_list.head->is_placeholder) return -1.
TestHead ==
  /\ cpc = "test"
  /\ cpc' = IF node[head].is_placeholder = FALSE THEN "key" ELSE "return"
  /\ UNCHANGED <<node, alloc, producers, head, cnode, key, data, got, active>>

\* custom_event_cb returns to the loop.
CbReturns ==
  /\ cpc = "return"
  /\ cpc' = "poll"
  /\ UNCHANGED <<node, alloc, producers, head, cnode, key, data, got, active>>

LoadKey ==
  /\ cpc = "key"
  /\ key' = node[head].key
  /\ cpc' = "data"
  /\ UNCHANGED <<node, alloc, producers, head, cnode, data, got, active>>

LoadData ==
  /\ cpc = "data"
  /\ data' = node[head].data
  /\ cpc' = "move"
  /\ UNCHANGED <<node, alloc, producers, head, cnode, key, got, active>>

\* ts_list.head = node->next.
MoveHeadOfFreed ==
  /\ cpc = "move"
  /\ cnode' = head
  /\ head' = Blank.next
  /\ got' = Append(got, [key |-> key, data |-> data])
  /\ cpc' = "free"
  /\ UNCHANGED <<node, alloc, producers, key, data, active>>
MoveHead ==
  /\ cpc = "move"
  /\ cnode' = head
  /\ head' = node[head].next
  /\ got' = Append(got, [key |-> key, data |-> data])
  /\ cpc' = "free"
  /\ UNCHANGED <<node, alloc, producers, key, data, active>>

\* free(node) and the return of 0; then the callback.
FreeForgotten ==
  /\ cpc = "free"
  /\ cnode' = None
  /\ cpc' = "callback"
  /\ UNCHANGED <<node, alloc, producers, head, key, data, got, active>>
Free ==
  /\ cpc = "free"
  /\ alloc' = alloc \ {cnode}
  /\ node' = [node EXCEPT ![cnode] = Blank]
  /\ cnode' = None
  /\ cpc' = "callback"
  /\ UNCHANGED <<producers, head, key, data, got, active>>

\* The callback returns, out of any event_trigger of its own: around again.
CallbackReturns ==
  /\ cpc = "callback" /\ ppc[EventLoop] = "idle"
  /\ cpc' = "test"
  /\ UNCHANGED <<node, alloc, producers, head, cnode, key, data, got, active>>

ListConsume ==
  \/ TestHead \/ LoadKey \/ LoadData \/ MoveHead \/ Free
  \/ CallbackReturns \/ CbReturns

-----------------------------------------------------------------------------
(* The specification.                                                      *)

\* list_init: one placeholder.
Init ==
  \E n \in Nodes :
    /\ node = [m \in Nodes |->
                 IF m = n THEN [Blank EXCEPT !.next = None,
                                             !.is_placeholder = TRUE]
                 ELSE Blank]
    /\ alloc = {n} /\ head = n /\ tail = n
    /\ list_wlock = None
    /\ ppc = [p \in Producers |-> "idle"]
    /\ item = [p \in Producers |-> [key |-> Garbage, data |-> Garbage]]
    /\ new = [p \in Producers |-> None]
    /\ cpc = "poll" /\ cnode = None
    /\ key = Garbage /\ data = Garbage
    /\ active = FALSE
    /\ put = <<>> /\ got = <<>>

Next ==
  \/ \E p \in Producers : EventTrigger(p) \/ ListProduce(p) \/ Activate(p)
  \/ CustomEventCb
  \/ ListConsume

Spec == Init /\ [][Next]_vars

\* A thread inside event_trigger goes on, and the loop calls back for an
\* active event.  Nobody need trigger one.
FairSpec ==
  /\ Spec
  /\ \A p \in Producers : WF_vars(ListProduce(p) \/ Activate(p))
  /\ WF_vars(CustomEventCb \/ ListConsume)

-----------------------------------------------------------------------------
(* Properties.                                                             *)

TypeOK ==
  /\ node \in [Nodes -> [next : Nodes \cup {None, Garbage},
                         key : Keys \cup {Garbage},
                         data : Data \cup {Garbage},
                         is_placeholder : BOOLEAN \cup {Garbage}]]
  /\ alloc \subseteq Nodes
  /\ head \in Nodes /\ tail \in Nodes
  /\ list_wlock \in Producers \cup {None}
  /\ ppc \in [Producers -> BeforePublish \cup
                       {"tail", "unlock", "activate", "idle"}]
  /\ item \in [Producers -> [key : Keys \cup {Garbage},
                              data : Data \cup {Garbage}]]
  /\ new \in [Producers -> Nodes \cup {None}]
  /\ cpc \in {"poll", "test", "key", "data", "move", "free", "callback",
            "return"}
  /\ cnode \in Nodes \cup {None}
  /\ key \in Keys \cup {Garbage} /\ data \in Data \cup {Garbage}
  /\ active \in BOOLEAN
  /\ put \in Seq(Items) /\ got \in Seq(Items)

\* The consumer, which takes no lock, reads allocated memory only, and only
\* what a producer has stored there.
ReadsInitialised ==
  /\ cpc \in {"test", "key", "data", "move"} => head \in alloc
  /\ cpc = "test" => node[head].is_placeholder # Garbage
  /\ cpc = "key" => node[head].key # Garbage
  /\ cpc = "data" => node[head].data # Garbage
  /\ cpc = "move" => node[head].next \in Nodes

\* The nodes that are allocated are one per event published and not consumed,
\* the placeholder, the one each producer is about to link in, and the one the
\* consumer is about to free: none is lost and none is freed under a producer
\* that will still store to it.
NodesAccounted ==
  /\ Cardinality(alloc) =
       Len(put) - Len(got) + 1
       + Cardinality({p \in Producers : ppc[p] \in BeforePublish})
       + (IF cpc = "free" THEN 1 ELSE 0)
  /\ \A p \in Producers :
       /\ ppc[p] \in BeforePublish => new[p] \in alloc
       /\ ppc[p] \in BeforePublish \ {"lock"} => tail \in alloc

\* No trigger is lost: when the loop polls with the event inactive, and no
\* producer is about to activate it, everything published was consumed, even
\* what was published while custom_event_cb was on its way out.
NoLostTrigger ==
  /\ cpc = "poll" /\ ~active
  /\ \A p \in Producers : ppc[p] \notin {"tail", "unlock", "activate"}
  => put = got

\* "multiple producer single consumer FIFO list": published is the queue's
\* Put, moving the head is its Take.
Fifo == INSTANCE FifoQueue WITH
  queue <- SubSeq(put, Len(got) + 1, Len(put)),
  taken <- got

FifoSpec == Fifo!Spec

\* Every event published reaches its callback.
Delivered ==
  \A n \in 1..MaxEvents : Len(put) >= n ~> Len(got) >= n
=============================================================================
