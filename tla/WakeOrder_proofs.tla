-------------------------- MODULE WakeOrder_proofs --------------------------
(* No wake is missed for want of a fence, for any number of publishers and *)
(* whatever they publish.                                                  *)
EXTENDS WakeOrder, TLAPS

Entry == [at : Locations, value : Nat]

Steps == {"idle", "displace", "fence", "look_bit", "claim", "unpark", "work", "look_injector",
          "look_inbox", "look_slot", "look_deque", "park", "retract"}

Types ==
    /\ target \in {"x86", "arm"}
    /\ memory \in [Locations -> Nat]
    /\ buffer \in [Threads -> Seq(Entry)]
    /\ pc \in [Threads -> Steps]
    /\ script \in [Publishers -> Seq(Publications)]
    /\ popped \in [Queues -> Nat]
    /\ permit \in BOOLEAN

\* The steps between the announcement and the end of the sleep; those behind a SeqCst look.
Settled == {"look_inbox", "look_slot", "look_deque", "park"}

\* The store of the worker's bit waits at most until the first SeqCst look.
WorkerBuffer ==
    /\ target = "x86" => buffer[Worker] = <<>>
    /\ pc[Worker] = "look_injector" =>
        buffer[Worker] \in {<<>>, <<[at |-> "bit", value |-> 1]>>}
    /\ pc[Worker] \in Settled => buffer[Worker] = <<>>

\* A publisher has nothing of its work in the buffer when it has looked at the bit.
PublisherBuffers ==
    \A p \in Publishers :
        /\ target = "x86" /\ pc[p] # "fence" => buffer[p] = <<>>
        /\ target = "x86" => \A k \in DOMAIN buffer[p] : buffer[p][k].at = "deque"
        /\ \A k \in DOMAIN buffer[p] :
            buffer[p][k].at # "bit" => pc[p] \in {"displace", "fence", "look_bit"}

\* The bit is there for everybody to see.
BitUp == memory["bit"] = 1 /\ \A t \in Threads : Pending(t, "bit") = {}

\* The bit is on its way to the memory.
BitRising ==
    /\ buffer[Worker] = <<[at |-> "bit", value |-> 1]>>
    /\ \A p \in Publishers : Pending(p, "bit") = {}

Claimed == permit \/ \E p \in Publishers : pc[p] = "unpark"

\* The bit of a worker that goes to sleep is up, or somebody has it and brings a permit.
BitKept ==
    /\ pc[Worker] = "look_injector" => BitUp \/ BitRising \/ Claimed
    /\ pc[Worker] \in Settled => BitUp \/ Claimed

\* What the worker has looked at since it announced its sleep.
Looked(x) ==
    \/ x = "injector" /\ pc[Worker] \in Settled
    \/ x = "inbox" /\ pc[Worker] \in {"look_slot", "look_deque", "park"}
    \/ x = "slot" /\ pc[Worker] \in {"look_deque", "park"}
    \/ x = "deque" /\ pc[Worker] = "park"

Sources == Queues \cup {"slot"}

\* There is no job at x, and none on its way.
Quiet(x) == ~ HasJob(x) /\ \A p \in Publishers : Pending(p, x) = {}

\* What has been looked at stays without jobs until somebody publishes or brings a permit.
QuietBehind ==
    \A x \in Sources :
        Looked(x) /\ ~ permit /\ (\A p \in Publishers : pc[p] = "idle") => Quiet(x)

IInv == Types /\ WorkerBuffer /\ PublisherBuffers /\ BitKept /\ QuietBehind

-----------------------------------------------------------------------------
(* Lemmas about the memory *)

\* An empty buffer holds no store to any location.
LEMMA DrainedPending ==
    ASSUME NEW t, NEW x, buffer[t] = <<>>
    PROVE  Pending(t, x) = {} /\ Sees(t, x) = memory[x]
BY DEF Pending, Sees

\* A thread without a store to x under way sees the memory there.
LEMMA SeesMemory ==
    ASSUME NEW t, NEW x, Pending(t, x) = {}
    PROVE  Sees(t, x) = memory[x]
BY DEF Sees

\* The effect of a read-modify-write, on either target.
LEMMA ExchangeEffect ==
    ASSUME Types, NEW t \in Threads, NEW x \in Locations, NEW v \in Nat, Exchange(t, x, v)
    PROVE  /\ target' = target /\ target' \in {"x86", "arm"}
           /\ memory' \in [Locations -> Nat] /\ buffer' \in [Threads -> Seq(Entry)]
           /\ buffer[t] = <<>>
           /\ \A u \in Threads : Pending(u, x) = {}
           /\ target = "x86" => buffer' = buffer /\ memory' = [memory EXCEPT ![x] = v]
           /\ target = "arm" =>
                memory' = memory /\ buffer' = [buffer EXCEPT ![t] = <<[at |-> x, value |-> v]>>]
<1> DEFINE e == [at |-> x, value |-> v]
<1>1. e \in Entry
  BY DEF Entry
<1>2. buffer[t] = <<>> /\ \A u \in Threads : Pending(u, x) = {}
  BY DEF Exchange, Drained
<1>3. Append(buffer[t], e) = <<e>> /\ <<e>> \in Seq(Entry)
  BY <1>1, <1>2
<1>4. CASE target = "x86"
  BY <1>2, <1>4 DEF Exchange, Types
<1>5. CASE target = "arm"
  <2>1. memory' = memory /\ target' = target /\ buffer' = [buffer EXCEPT ![t] = <<e>>]
    BY <1>3, <1>5 DEF Exchange, Store, Types
  <2> QED
    BY <2>1, <1>2, <1>3, <1>5 DEF Types
<1> QED
  BY <1>4, <1>5 DEF Types

\* A store leaves the buffer from the front.
LEMMA TailEntries ==
    ASSUME NEW s \in Seq(Entry), s # <<>>
    PROVE  /\ Tail(s) \in Seq(Entry) /\ Head(s) \in Entry /\ Head(s) = s[1] /\ 1 \in DOMAIN s
           /\ \A k \in DOMAIN Tail(s) : k + 1 \in DOMAIN s /\ Tail(s)[k] = s[k + 1]
OBVIOUS

\* A store joins the buffer at the end.
LEMMA AppendEntries ==
    ASSUME NEW s \in Seq(Entry), NEW e \in Entry
    PROVE  /\ Append(s, e) \in Seq(Entry)
           /\ \A k \in DOMAIN Append(s, e) : Append(s, e)[k] = e \/ (k \in DOMAIN s /\ Append(s, e)[k] = s[k])
OBVIOUS

-----------------------------------------------------------------------------
(* The publishers' steps *)

\* No thread is both; the locations.
LEMMA Basics ==
    /\ Worker \in Threads /\ Publishers \subseteq Threads
    /\ \A p \in Publishers : p # Worker
    /\ {"bit", "slot", "injector", "inbox", "deque"} = Locations
    /\ Sources = Locations \ {"bit"}
BY PublishersAssumption DEF Threads, Locations, Queues, Sources

\* What a publisher's read-modify-write does to the buffers.
LEMMA PublisherExchange ==
    ASSUME IInv, NEW p \in Publishers, NEW x \in Locations, NEW v \in Nat, NEW step \in Steps,
           Exchange(p, x, v), pc' = [pc EXCEPT ![p] = step],
           x # "bit" => step \in {"displace", "fence", "look_bit"}
    PROVE  WorkerBuffer' /\ PublisherBuffers'
<1>1. /\ target' = target /\ target' \in {"x86", "arm"} /\ buffer[p] = <<>>
      /\ target = "x86" => buffer' = buffer
      /\ target = "arm" => buffer' = [buffer EXCEPT ![p] = <<[at |-> x, value |-> v]>>]
  BY ExchangeEffect, Basics DEF IInv
<1>2. pc'[Worker] = pc[Worker] /\ buffer'[Worker] = buffer[Worker]
  BY <1>1, Basics DEF IInv, Types
<1>3. WorkerBuffer'
  BY <1>1, <1>2 DEF IInv, WorkerBuffer
<1>4. PublisherBuffers'
  <2> SUFFICES ASSUME NEW q \in Publishers
               PROVE  /\ target' = "x86" /\ pc'[q] # "fence" => buffer'[q] = <<>>
                      /\ target' = "x86" => \A k \in DOMAIN buffer'[q] : buffer'[q][k].at = "deque"
                      /\ \A k \in DOMAIN buffer'[q] :
                          buffer'[q][k].at # "bit" => pc'[q] \in {"displace", "fence", "look_bit"}
    BY DEF PublisherBuffers
  <2>1. CASE q # p
    BY <2>1, <1>1, Basics DEF IInv, Types, PublisherBuffers
  <2>2. CASE q = p /\ target = "x86"
    BY <2>2, <1>1 DEF IInv, Types
  <2>3. CASE q = p /\ target = "arm"
    <3>1. pc'[q] = step /\ buffer'[q] = <<[at |-> x, value |-> v]>>
      BY <2>3, <1>1, Basics DEF IInv, Types
    <3> QED
      BY <3>1, <2>3, <1>1
  <2> QED
    BY <2>1, <2>2, <2>3, <1>1
<1> QED
  BY <1>3, <1>4

(* A publisher that has just published leaves the bit alone, and the       *)
(* worker's looks prove nothing until it has looked at the bit.            *)
LEMMA PublishedKeeps ==
    ASSUME IInv, NEW p \in Publishers, NEW x \in Sources, NEW v \in Nat, NEW step \in Steps,
           Exchange(p, x, v), pc' = [pc EXCEPT ![p] = step],
           step \in {"displace", "fence", "look_bit"}, pc[p] # "unpark",
           script' \in [Publishers -> Seq(Publications)], popped' = popped, permit' = permit
    PROVE  IInv'
<1>0. x \in Locations /\ x # "bit"
  BY Basics
<1>1. /\ target' = target /\ target' \in {"x86", "arm"} /\ buffer[p] = <<>>
      /\ memory' \in [Locations -> Nat] /\ buffer' \in [Threads -> Seq(Entry)]
      /\ target = "x86" => buffer' = buffer /\ memory' = [memory EXCEPT ![x] = v]
      /\ target = "arm" =>
            memory' = memory /\ buffer' = [buffer EXCEPT ![p] = <<[at |-> x, value |-> v]>>]
  BY <1>0, ExchangeEffect, Basics DEF IInv
<1>2. Types'
  BY <1>1, Basics DEF IInv, Types
<1>3. WorkerBuffer' /\ PublisherBuffers'
  BY <1>0, PublisherExchange
<1>4. /\ memory'["bit"] = memory["bit"] /\ pc'[Worker] = pc[Worker]
      /\ buffer'[Worker] = buffer[Worker] /\ pc'[p] = step
  BY <1>0, <1>1, Basics DEF IInv, Types
<1>5. ASSUME NEW t \in Threads, Pending(t, "bit") = {}
      PROVE  (Pending(t, "bit"))' = {}
  <2>1. CASE buffer'[t] = buffer[t]
    BY <1>5, <2>1 DEF Pending
  <2>2. CASE buffer'[t] = <<[at |-> x, value |-> v]>>
    BY <1>0, <2>2 DEF Pending
  <2> QED
    BY <2>1, <2>2, <1>1 DEF IInv, Types
<1>6. Claimed => Claimed'
  BY Basics DEF Claimed, IInv, Types
<1>7. (BitUp => BitUp') /\ (BitRising => BitRising')
  BY <1>4, <1>5, Basics DEF BitUp, BitRising
<1>8. BitKept'
  BY <1>4, <1>6, <1>7 DEF IInv, BitKept
<1>9. QuietBehind'
  BY <1>4 DEF QuietBehind
<1> QED
  BY <1>2, <1>3, <1>8, <1>9 DEF IInv

\* Inject, Replace and Displace keep the invariant.
LEMMA PublishKeeps ==
    ASSUME IInv, NEW p \in Publishers, Inject(p) \/ Replace(p) \/ Displace(p)
    PROVE  IInv'
<1>1. /\ p \in Threads /\ buffer[p] = <<>>
      /\ \A x \in Locations : Sees(p, x) \in Nat
  <2>1. buffer[p] = <<>>
    BY DEF Inject, Replace, Displace, Exchange, Drained
  <2> QED
    BY <2>1, DrainedPending, Basics DEF IInv, Types
<1>2. script \in [Publishers -> Seq(Publications)]
  BY DEF IInv, Types
<1>3. CASE Inject(p)
  <2>1. /\ Exchange(p, "injector", Sees(p, "injector") + 1) /\ Sees(p, "injector") + 1 \in Nat
        /\ pc' = [pc EXCEPT ![p] = "look_bit"] /\ pc[p] = "idle"
        /\ script' = [script EXCEPT ![p] = Tail(script[p])] /\ script[p] # <<>>
        /\ popped' = popped /\ permit' = permit
    BY <1>1, <1>3, Basics DEF Inject, Publish, Goto
  <2>2. script' \in [Publishers -> Seq(Publications)]
    BY <2>1, <1>2
  <2>3. "injector" \in Sources /\ "look_bit" \in Steps
        /\ "look_bit" \in {"displace", "fence", "look_bit"} /\ pc[p] # "unpark"
    BY <2>1, Basics DEF Steps
  <2> QED
    BY <2>1, <2>2, <2>3, PublishedKeeps
<1>4. CASE Replace(p)
  <2>1. /\ Exchange(p, "slot", 1) /\ 1 \in Nat
        /\ pc' = [pc EXCEPT ![p] = IF Sees(p, "slot") = 0 THEN "fence" ELSE "displace"]
        /\ pc[p] = "idle"
        /\ script' = [script EXCEPT ![p] = Tail(script[p])] /\ script[p] # <<>>
        /\ popped' = popped /\ permit' = permit
    BY <1>4 DEF Replace, Publish, Goto
  <2>2. script' \in [Publishers -> Seq(Publications)]
    BY <2>1, <1>2
  <2>3. PICK step \in {"displace", "fence"} : pc' = [pc EXCEPT ![p] = step]
    BY <2>1
  <2>4. "slot" \in Sources /\ step \in Steps
        /\ step \in {"displace", "fence", "look_bit"} /\ pc[p] # "unpark"
    BY <2>1, Basics DEF Steps
  <2> QED
    BY <2>1, <2>2, <2>3, <2>4, PublishedKeeps
<1>5. CASE Displace(p)
  <2>1. /\ Exchange(p, "inbox", Sees(p, "inbox") + 1) /\ Sees(p, "inbox") + 1 \in Nat
        /\ pc' = [pc EXCEPT ![p] = "fence"] /\ pc[p] = "displace"
        /\ script' = script /\ popped' = popped /\ permit' = permit
    BY <1>1, <1>5, Basics DEF Displace, Goto
  <2>2. "inbox" \in Sources /\ "fence" \in Steps
        /\ "fence" \in {"displace", "fence", "look_bit"} /\ pc[p] # "unpark"
    BY <2>1, Basics DEF Steps
  <2> QED
    BY <2>1, <2>2, <1>2, PublishedKeeps
<1> QED
  BY <1>3, <1>4, <1>5

\* Share keeps the invariant: its store waits in the buffer, on either target.
LEMMA ShareKeeps ==
    ASSUME IInv, NEW p \in Publishers, Share(p)
    PROVE  IInv'
<1> DEFINE e == [at |-> "deque", value |-> Sees(p, "deque") + 1]
<1>1. /\ pc[p] = "idle" /\ pc' = [pc EXCEPT ![p] = "fence"]
      /\ script' = [script EXCEPT ![p] = Tail(script[p])] /\ script[p] # <<>>
      /\ buffer' = [buffer EXCEPT ![p] = Append(buffer[p], e)]
      /\ UNCHANGED <<target, memory, popped, permit>>
  BY DEF Share, Publish, Goto, Store
<1>2. Pending(p, "deque") = {}
  BY <1>1 DEF IInv, PublisherBuffers, Pending
<1>3. e \in Entry /\ e.at = "deque"
  <2>1. Sees(p, "deque") + 1 \in Nat
    BY <1>2, SeesMemory, Basics DEF IInv, Types
  <2> QED
    BY <2>1, Basics DEF Entry
<1> HIDE DEF e
<1>4. /\ buffer[p] \in Seq(Entry) /\ buffer'[p] = Append(buffer[p], e)
      /\ \A q \in Threads : q # p => buffer'[q] = buffer[q] /\ pc'[q] = pc[q]
      /\ pc'[p] = "fence"
  BY <1>1, Basics DEF IInv, Types
<1>5. /\ buffer'[p] \in Seq(Entry)
      /\ \A k \in DOMAIN buffer'[p] :
            buffer'[p][k] = e \/ (k \in DOMAIN buffer[p] /\ buffer'[p][k] = buffer[p][k])
  BY <1>3, <1>4, AppendEntries
<1>6. Types'
  <2>1. "fence" \in Steps /\ script' \in [Publishers -> Seq(Publications)]
    BY <1>1 DEF IInv, Types, Steps
  <2> QED
    BY <1>1, <1>4, <1>5, <2>1, Basics DEF IInv, Types
<1>7. WorkerBuffer'
  BY <1>1, <1>4, Basics DEF IInv, WorkerBuffer
<1>8. PublisherBuffers'
  BY <1>1, <1>3, <1>4, <1>5, Basics DEF IInv, PublisherBuffers
<1>9. ASSUME NEW t \in Threads, Pending(t, "bit") = {}
      PROVE  (Pending(t, "bit"))' = {}
  BY <1>3, <1>4, <1>5, <1>9 DEF Pending
<1>10. (BitUp => BitUp') /\ (BitRising => BitRising') /\ (Claimed => Claimed')
  BY <1>1, <1>4, <1>9, Basics DEF BitUp, BitRising, Claimed
<1>11. BitKept'
  BY <1>4, <1>10, Basics DEF IInv, BitKept
<1>12. QuietBehind'
  BY <1>4 DEF QuietBehind
<1> QED
  BY <1>6, <1>7, <1>8, <1>11, <1>12 DEF IInv

(* A publisher that finds the bit down leaves a worker that goes to sleep  *)
(* to whoever took the bit.                                                *)
LEMMA FoundDown ==
    ASSUME IInv, NEW p \in Publishers, pc[p] # "unpark",
           \/ pc[Worker] \in Settled /\ memory["bit"] # 1
           \/ pc[Worker] \notin Settled
    PROVE  \A x \in Sources : Looked(x) => permit \/ \E q \in Publishers : q # p /\ pc[q] = "unpark"
<1>1. pc[Worker] \notin Settled => \A x \in Sources : ~ Looked(x)
  BY DEF Looked, Settled
<1>2. pc[Worker] \in Settled => Claimed
  BY DEF IInv, BitKept, BitUp
<1> QED
  BY <1>1, <1>2 DEF Claimed

\* Fence, LookAtBit and Unpark keep the invariant.
LEMMA LookKeeps ==
    ASSUME IInv, NEW p \in Publishers, Fence(p) \/ LookAtBit(p) \/ Unpark(p)
    PROVE  IInv'
<1>1. /\ UNCHANGED <<target, memory, buffer, script, popped>>
      /\ permit' \in BOOLEAN /\ (permit => permit')
      /\ pc[p] \in {"fence", "look_bit", "unpark"} /\ (pc[p] = "unpark" => permit')
      /\ \E step \in {"look_bit", "idle", "claim"} : pc' = [pc EXCEPT ![p] = step]
      /\ pc[p] = "unpark" \/ permit' = permit
  BY DEF Fence, LookAtBit, Unpark, Goto, IInv, Types
<1>2. /\ Types' /\ pc'[Worker] = pc[Worker]
      /\ \A q \in Publishers : q # p => pc'[q] = pc[q]
      /\ pc'[p] \in {"look_bit", "idle", "claim"}
  BY <1>1, Basics DEF IInv, Types, Steps
<1>3. WorkerBuffer'
  BY <1>1, <1>2 DEF IInv, WorkerBuffer
<1>4. pc[p] # "unpark" => buffer[p] = <<>>
  BY DEF IInv, Types, PublisherBuffers, Fence, LookAtBit, Unpark, Drained, Ordered
<1>5. PublisherBuffers'
  <2>1. \A k \in DOMAIN buffer[p] : buffer[p][k].at = "bit"
    BY <1>1, <1>4 DEF IInv, PublisherBuffers
  <2>2. target = "x86" => buffer[p] = <<>>
    BY <1>1, <1>4 DEF IInv, PublisherBuffers
  <2> QED
    BY <1>1, <1>2, <2>1, <2>2 DEF IInv, PublisherBuffers
<1>6. Claimed => Claimed'
  BY <1>1, <1>2 DEF Claimed
<1>7. (BitUp => BitUp') /\ (BitRising => BitRising')
  BY <1>1 DEF BitUp, BitRising, Pending
<1>8. BitKept'
  BY <1>2, <1>6, <1>7 DEF IInv, BitKept
<1>9. QuietBehind'
  <2> SUFFICES ASSUME NEW x \in Sources, Looked(x)', ~ permit',
                      \A q \in Publishers : pc'[q] = "idle"
               PROVE  FALSE
    BY DEF QuietBehind
  <2>1. LookAtBit(p) /\ Sees(p, "bit") = 0 /\ permit' = permit /\ pc[p] = "look_bit"
    BY <1>1, <1>2 DEF Fence, LookAtBit, Unpark, Goto, IInv, Types
  <2>2. memory["bit"] = 0
    BY <2>1, <1>4, DrainedPending
  <2>3. Looked(x)
    BY <1>2 DEF Looked
  <2>4. \E q \in Publishers : q # p /\ pc[q] = "unpark"
    BY <2>1, <2>2, <2>3, FoundDown
  <2> QED
    BY <2>4, <1>2
<1> QED
  BY <1>2, <1>3, <1>5, <1>8, <1>9 DEF IInv

\* Claim keeps the invariant: who takes the bit unparks, who comes too late has been relieved.
LEMMA ClaimKeeps ==
    ASSUME IInv, NEW p \in Publishers, Claim(p)
    PROVE  IInv'
<1>0. Exchange(p, "bit", 0) /\ "bit" \in Locations /\ 0 \in Nat /\ p \in Threads
  BY Basics DEF Claim
<1>1. /\ target' = target /\ target' \in {"x86", "arm"}
      /\ memory' \in [Locations -> Nat] /\ buffer' \in [Threads -> Seq(Entry)]
      /\ buffer[p] = <<>> /\ \A t \in Threads : Pending(t, "bit") = {}
  BY <1>0, ExchangeEffect DEF IInv
<1>2. /\ pc[p] = "claim" /\ UNCHANGED <<script, popped, permit>>
      /\ \/ memory["bit"] = 1 /\ pc' = [pc EXCEPT ![p] = "unpark"]
         \/ memory["bit"] = 0 /\ \E step \in {"idle", "look_bit"} : pc' = [pc EXCEPT ![p] = step]
  BY <1>1, DrainedPending DEF Claim, Goto
<1>3. PICK step \in {"unpark", "idle", "look_bit"} :
        pc' = [pc EXCEPT ![p] = step] /\ (step # "unpark" => memory["bit"] = 0)
  BY <1>2
<1>4. /\ pc'[Worker] = pc[Worker] /\ pc'[p] = step
      /\ \A q \in Publishers : q # p => pc'[q] = pc[q]
  BY <1>3, Basics DEF IInv, Types
<1>5. Types'
  BY <1>1, <1>2, <1>3 DEF IInv, Types, Steps
<1>6. WorkerBuffer' /\ PublisherBuffers'
  BY <1>0, <1>3, PublisherExchange DEF Steps
<1>7. BitKept'
  <2>1. CASE step = "unpark"
    BY <2>1, <1>4 DEF BitKept, Claimed
  <2>2. CASE step # "unpark"
    <3>1. ~ BitUp
      BY <2>2, <1>3 DEF BitUp
    <3>2. ~ BitRising
      <4>1. Pending(Worker, "bit") = {}
        BY <1>1, Basics
      <4>2. ASSUME buffer[Worker] = <<[at |-> "bit", value |-> 1]>> PROVE 1 \in Pending(Worker, "bit")
        BY <4>2 DEF Pending
      <4> QED
        BY <4>1, <4>2 DEF BitRising
    <3>3. Claimed => Claimed'
      BY <1>2, <1>4 DEF Claimed
    <3> QED
      BY <3>1, <3>2, <3>3, <1>4 DEF IInv, BitKept
  <2> QED
    BY <2>1, <2>2
<1>8. QuietBehind'
  <2> SUFFICES ASSUME NEW x \in Sources, Looked(x)', ~ permit',
                      \A q \in Publishers : pc'[q] = "idle"
               PROVE  FALSE
    BY DEF QuietBehind
  <2>1. memory["bit"] = 0 /\ Looked(x) /\ ~ permit
    BY <1>2, <1>3, <1>4 DEF Looked
  <2>2. \E q \in Publishers : q # p /\ pc[q] = "unpark"
    BY <2>1, <1>2, FoundDown
  <2> QED
    BY <2>2, <1>4
<1> QED
  BY <1>5, <1>6, <1>7, <1>8 DEF IInv

-----------------------------------------------------------------------------
(* The worker's steps *)

\* The worker's read-modify-writes: the slot, the bit at the announcement, the bit taken back.
LEMMA WorkerExchange ==
    ASSUME IInv, NEW x \in Locations, NEW v \in Nat, NEW step,
           Exchange(Worker, x, v), pc' = [pc EXCEPT ![Worker] = step],
           step = "work" \/ (step = "look_injector" /\ x = "bit" /\ v = 1),
           UNCHANGED <<script, popped, permit>>
    PROVE  IInv'
<1>1. /\ target' = target /\ target' \in {"x86", "arm"} /\ buffer[Worker] = <<>>
      /\ memory' \in [Locations -> Nat] /\ buffer' \in [Threads -> Seq(Entry)]
      /\ \A u \in Threads : Pending(u, x) = {}
      /\ target = "x86" => buffer' = buffer /\ memory' = [memory EXCEPT ![x] = v]
      /\ target = "arm" =>
            memory' = memory /\ buffer' = [buffer EXCEPT ![Worker] = <<[at |-> x, value |-> v]>>]
  BY ExchangeEffect, Basics DEF IInv
<1>2. /\ pc'[Worker] = step
      /\ \A p \in Publishers : pc'[p] = pc[p] /\ buffer'[p] = buffer[p]
  BY <1>1, Basics DEF IInv, Types
<1>3. Types'
  BY <1>1 DEF IInv, Types, Steps
<1>4. WorkerBuffer'
  <2>1. CASE target = "x86"
    BY <2>1, <1>1, <1>2 DEF WorkerBuffer, Settled
  <2>2. CASE target = "arm"
    <3>1. buffer'[Worker] = <<[at |-> x, value |-> v]>>
      BY <2>2, <1>1, Basics DEF IInv, Types
    <3> QED
      BY <3>1, <2>2, <1>1, <1>2 DEF WorkerBuffer, Settled
  <2> QED
    BY <2>1, <2>2, <1>1
<1>5. PublisherBuffers'
  BY <1>1, <1>2 DEF IInv, PublisherBuffers
<1>6. BitKept'
  <2>1. CASE step = "work"
    BY <2>1, <1>2 DEF BitKept, Settled
  <2>2. CASE step = "look_injector" /\ target = "x86"
    <3>1. memory'["bit"] = 1 /\ buffer' = buffer
      BY <2>2, <1>1 DEF IInv, Types
    <3>2. BitUp'
      BY <3>1, <2>2, <1>1 DEF BitUp, Pending
    <3> QED
      BY <3>2, <2>2, <1>2 DEF BitKept, Settled
  <2>3. CASE step = "look_injector" /\ target = "arm"
    <3>1. buffer'[Worker] = <<[at |-> "bit", value |-> 1]>>
      BY <2>3, <1>1, Basics DEF IInv, Types
    <3>2. \A p \in Publishers : (Pending(p, "bit"))' = {}
      BY <2>3, <1>1, <1>2, Basics DEF Pending
    <3> QED
      BY <3>1, <3>2, <2>3, <1>2 DEF BitKept, BitRising, Settled
  <2> QED
    BY <2>1, <2>2, <2>3, <1>1
<1>7. QuietBehind'
  BY <1>2 DEF QuietBehind, Looked, Settled
<1> QED
  BY <1>3, <1>4, <1>5, <1>6, <1>7 DEF IInv

\* Take, Announce, Retract and Wake keep the invariant.
LEMMA WorkerKeeps ==
    ASSUME IInv, (\E x \in Sources : Take(x)) \/ Announce \/ Retract \/ Wake
    PROVE  IInv'
<1>0. Worker \in Threads /\ {"bit", "slot"} \subseteq Locations /\ {0, 1} \subseteq Nat
  BY Basics
<1>1. CASE Announce
  BY <1>0, <1>1, WorkerExchange DEF Announce, Goto
<1>2. CASE Retract
  BY <1>0, <1>2, WorkerExchange DEF Retract, Goto
<1>3. ASSUME NEW x \in Sources, Take(x) PROVE IInv'
  <2>0. pc[Worker] = "work" /\ pc' = pc /\ UNCHANGED <<script, permit>>
    BY <1>3 DEF Take
  <2>1. CASE x = "slot" /\ Exchange(Worker, x, 0) /\ UNCHANGED popped
    <3>1. pc' = [pc EXCEPT ![Worker] = "work"]
      BY <2>0 DEF IInv, Types
    <3> QED
      BY <3>1, <2>0, <2>1, <1>0, WorkerExchange
  <2>2. CASE /\ x \in Queues /\ popped' = [popped EXCEPT ![x] = @ + 1]
             /\ UNCHANGED <<target, memory, buffer>>
    <3>1. Types'
      BY <2>0, <2>2 DEF IInv, Types
    <3>2. WorkerBuffer' /\ PublisherBuffers'
      BY <2>0, <2>2 DEF IInv, WorkerBuffer, PublisherBuffers
    <3>3. BitKept' /\ QuietBehind'
      BY <2>0 DEF BitKept, QuietBehind, Looked, Settled
    <3> QED
      BY <3>1, <3>2, <3>3 DEF IInv
  <2> QED
    BY <1>3, <2>1, <2>2 DEF Take
<1>4. CASE Wake
  <2>1. /\ pc[Worker] = "park" /\ pc' = [pc EXCEPT ![Worker] = "retract"] /\ permit' = FALSE
        /\ UNCHANGED <<target, memory, buffer, script, popped>>
    BY <1>4 DEF Wake, Goto
  <2>2. Types' /\ pc'[Worker] = "retract" /\ \A p \in Publishers : pc'[p] = pc[p]
    BY <2>1, Basics DEF IInv, Types, Steps
  <2>3. WorkerBuffer' /\ PublisherBuffers'
    BY <2>1, <2>2 DEF IInv, WorkerBuffer, PublisherBuffers, Settled
  <2>4. BitKept' /\ QuietBehind'
    BY <2>2 DEF BitKept, QuietBehind, Looked, Settled
  <2> QED
    BY <2>2, <2>3, <2>4 DEF IInv
<1> QED
  BY <1>1, <1>2, <1>3, <1>4

\* The four looks.
LEMMA LookCases ==
    ASSUME Look
    PROVE  /\ UNCHANGED <<target, memory, buffer, script, popped, permit>>
           /\ \/ /\ pc[Worker] = "look_injector" /\ Ordered(Worker)
                 /\ Goto(Worker, IF HasJob("injector") THEN "retract" ELSE "look_inbox")
              \/ /\ pc[Worker] = "look_inbox"
                 /\ Goto(Worker, IF HasJob("inbox") THEN "retract" ELSE "look_slot")
              \/ /\ pc[Worker] = "look_slot"
                 /\ Goto(Worker, IF HasJob("slot") THEN "retract" ELSE "look_deque")
              \/ /\ pc[Worker] = "look_deque"
                 /\ Goto(Worker, IF HasJob("deque") THEN "retract" ELSE "park")
<1>1. PICK k \in DOMAIN Looks :
        /\ pc[Worker] = Looks[k].from
        /\ Looks[k].seqcst => Ordered(Worker)
        /\ Goto(Worker, IF HasJob(Looks[k].at) THEN "retract" ELSE Looks[k].to)
        /\ UNCHANGED <<target, memory, buffer, script, popped, permit>>
  BY DEF Look
<1>2. k \in 1 .. 4
  BY <1>1 DEF Looks
<1>3. CASE k = 1
  BY <1>1, <1>3 DEF Looks
<1>4. CASE k = 2
  BY <1>1, <1>4 DEF Looks
<1>5. CASE k = 3
  BY <1>1, <1>5 DEF Looks
<1>6. CASE k = 4
  BY <1>1, <1>6 DEF Looks
<1> QED
  BY <1>2, <1>3, <1>4, <1>5, <1>6

(* A look at x that finds nothing, behind the announcement, keeps the      *)
(* invariant: what is published later, the publisher looks at the bit.     *)
LEMMA LooksKeep ==
    ASSUME IInv, Look
    PROVE  IInv'
<1>1. UNCHANGED <<target, memory, buffer, script, popped, permit>>
  BY LookCases
<1>2. PICK step \in Settled \cup {"retract"} : pc' = [pc EXCEPT ![Worker] = step]
  BY LookCases DEF Goto, Settled
<1>3. pc'[Worker] = step /\ \A p \in Publishers : pc'[p] = pc[p]
  BY <1>2, Basics DEF IInv, Types
<1>4. buffer[Worker] = <<>> /\ pc[Worker] \in Settled \cup {"look_injector"}
  BY LookCases DEF IInv, Types, WorkerBuffer, Ordered, Drained, Settled
<1>5. Types'
  BY <1>1, <1>2 DEF IInv, Types, Steps, Settled
<1>6. WorkerBuffer' /\ PublisherBuffers'
  BY <1>1, <1>3, <1>4 DEF IInv, WorkerBuffer, PublisherBuffers, Settled
<1>7. BitKept'
  <2>1. ~ BitRising
    BY <1>4 DEF BitRising
  <2>2. BitUp \/ Claimed
    BY <2>1, <1>4 DEF IInv, BitKept
  <2>3. (BitUp => BitUp') /\ (Claimed => Claimed')
    BY <1>1, <1>3 DEF BitUp, Claimed, Pending
  <2> QED
    BY <2>2, <2>3 DEF BitKept
<1>8. QuietBehind'
  <2> SUFFICES ASSUME NEW x \in Sources, Looked(x)', ~ permit',
                      \A q \in Publishers : pc'[q] = "idle"
               PROVE  Quiet(x)'
    BY DEF QuietBehind
  <2>1. ~ permit /\ \A q \in Publishers : pc[q] = "idle"
    BY <1>1, <1>3
  <2>2. Looked(x) \/ ~ HasJob(x)
    BY LookCases, <1>3, Basics DEF Looked, Settled, Goto, IInv, Types
  <2>3. \A q \in Publishers : Pending(q, x) = {}
    BY <2>1, Basics DEF IInv, PublisherBuffers, Pending
  <2>4. Quiet(x)
    BY <2>1, <2>2, <2>3 DEF Quiet, IInv, QuietBehind
  <2> QED
    BY <2>4, <1>1 DEF Quiet, HasJob, Sees, Pending
<1> QED
  BY <1>5, <1>6, <1>7, <1>8 DEF IInv

-----------------------------------------------------------------------------

\* A store that reaches the memory keeps the invariant.
LEMMA FlushKeeps ==
    ASSUME IInv, NEW t \in Threads, Flush(t)
    PROVE  IInv'
<1> DEFINE e == Head(buffer[t])
<1>1. /\ buffer[t] # <<>> /\ buffer[t] \in Seq(Entry)
      /\ memory' = [memory EXCEPT ![e.at] = e.value]
      /\ buffer' = [buffer EXCEPT ![t] = Tail(buffer[t])]
      /\ UNCHANGED <<target, pc, script, popped, permit>>
  BY DEF Flush, Drained, IInv, Types
<1>2. /\ Tail(buffer[t]) \in Seq(Entry) /\ e \in Entry /\ e = buffer[t][1] /\ 1 \in DOMAIN buffer[t]
      /\ \A k \in DOMAIN Tail(buffer[t]) :
            k + 1 \in DOMAIN buffer[t] /\ Tail(buffer[t])[k] = buffer[t][k + 1]
  BY <1>1, TailEntries
<1>3. e.at \in Locations /\ e.value \in Nat
  BY <1>2 DEF Entry
<1> HIDE DEF e
<1>4. buffer'[t] = Tail(buffer[t]) /\ \A u \in Threads : u # t => buffer'[u] = buffer[u]
  BY <1>1 DEF IInv, Types
<1>5. \A u \in Threads, y \in Locations : Pending(u, y) = {} => (Pending(u, y))' = {}
  <2> SUFFICES ASSUME NEW u \in Threads, NEW y \in Locations, Pending(u, y) = {},
                      NEW k \in DOMAIN buffer'[u], buffer'[u][k].at = y
               PROVE  FALSE
    BY DEF Pending
  <2>1. CASE u # t
    BY <2>1, <1>4 DEF Pending
  <2>2. CASE u = t
    BY <2>2, <1>2, <1>4 DEF Pending
  <2> QED
    BY <2>1, <2>2
<1>6. Types'
  BY <1>1, <1>2, <1>3, <1>4 DEF IInv, Types
<1>7. buffer[Worker] = <<>> => buffer'[Worker] = <<>>
  BY <1>1, <1>4, Basics
<1>8. buffer[Worker] = <<[at |-> "bit", value |-> 1]>> /\ t = Worker
        => buffer'[Worker] = <<>> /\ memory'["bit"] = 1
  BY <1>1, <1>2, <1>4, Basics DEF IInv, Types
<1>9. WorkerBuffer'
  BY <1>1, <1>4, <1>7, <1>8, Basics DEF IInv, WorkerBuffer
<1>10. PublisherBuffers'
  <2> SUFFICES ASSUME NEW q \in Publishers
               PROVE  /\ target' = "x86" /\ pc'[q] # "fence" => buffer'[q] = <<>>
                      /\ target' = "x86" => \A k \in DOMAIN buffer'[q] : buffer'[q][k].at = "deque"
                      /\ \A k \in DOMAIN buffer'[q] :
                          buffer'[q][k].at # "bit" => pc'[q] \in {"displace", "fence", "look_bit"}
    BY DEF PublisherBuffers
  <2>1. CASE q # t
    BY <2>1, <1>1, <1>4, Basics DEF IInv, PublisherBuffers
  <2>2. CASE q = t
    BY <2>2, <1>1, <1>2, <1>4, Basics DEF IInv, PublisherBuffers
  <2> QED
    BY <2>1, <2>2
<1>11. Pending(t, e.at) # {}
  BY <1>2 DEF Pending
<1>12. BitUp => BitUp'
  BY <1>1, <1>3, <1>5, <1>11, Basics DEF BitUp, IInv, Types
<1>13. BitRising => BitRising' \/ BitUp'
  <2> SUFFICES ASSUME BitRising PROVE BitRising' \/ BitUp'
    OBVIOUS
  <2>1. \A p \in Publishers : (Pending(p, "bit"))' = {}
    BY <1>5, Basics DEF BitRising
  <2>2. CASE t # Worker
    BY <2>1, <2>2, <1>4, Basics DEF BitRising
  <2>3. CASE t = Worker
    <3>1. buffer'[Worker] = <<>> /\ memory'["bit"] = 1
      BY <2>3, <1>8 DEF BitRising
    <3>2. (Pending(Worker, "bit"))' = {}
      BY <3>1 DEF Pending
    <3> QED
      BY <2>1, <3>1, <3>2 DEF BitUp, Threads
  <2> QED
    BY <2>2, <2>3
<1>14. BitKept'
  <2>1. Claimed => Claimed'
    BY <1>1 DEF Claimed
  <2> QED
    BY <2>1, <1>1, <1>12, <1>13, <1>9 DEF IInv, BitKept, WorkerBuffer, BitRising
<1>15. QuietBehind'
  <2> SUFFICES ASSUME NEW x \in Sources, Looked(x)', ~ permit',
                      \A q \in Publishers : pc'[q] = "idle"
               PROVE  Quiet(x)'
    BY DEF QuietBehind
  <2>1. ~ permit /\ Looked(x) /\ \A q \in Publishers : pc[q] = "idle"
    BY <1>1 DEF Looked
  <2>2. Quiet(x) /\ x \in Locations /\ x # "bit"
    BY <2>1, Basics DEF IInv, QuietBehind
  <2>3. buffer[Worker] = <<>> /\ buffer'[Worker] = <<>>
    BY <2>1, <1>7 DEF Looked, IInv, WorkerBuffer, Settled
  <2>4. t \in Publishers
    BY <2>3, <1>1 DEF Threads
  <2>5. memory'[x] = memory[x]
    BY <2>2, <2>4, <1>1, <1>3, <1>11 DEF Quiet, IInv, Types
  <2>6. ~ HasJob(x)'
    BY <2>2, <2>3, <2>5, <1>1 DEF Quiet, HasJob, Sees, Pending
  <2> QED
    BY <2>2, <2>6, <1>5, Basics DEF Quiet
<1> QED
  BY <1>6, <1>9, <1>10, <1>14, <1>15 DEF IInv

\* Nobody has published, and the worker is not on its way to sleep.
LEMMA InitiallyQuiet == Init => IInv
<1> SUFFICES ASSUME Init PROVE IInv
  OBVIOUS
<1>1. Types
  <2>1. buffer \in [Threads -> Seq(Entry)] /\ memory \in [Locations -> Nat] /\ popped \in [Queues -> Nat]
    BY DEF Init
  <2>2. pc \in [Threads -> Steps]
    BY DEF Init, Steps
  <2>3. script \in [Publishers -> Seq(Publications)]
    BY PublishersAssumption DEF Init
  <2> QED
    BY <2>1, <2>2, <2>3 DEF Init, Types
<1>2. WorkerBuffer /\ PublisherBuffers
  BY Basics DEF Init, WorkerBuffer, PublisherBuffers, Settled
<1>3. BitKept /\ QuietBehind
  BY Basics DEF Init, BitKept, QuietBehind, Looked, Settled
<1> QED
  BY <1>1, <1>2, <1>3 DEF IInv

\* Every step keeps the invariant.
LEMMA NextKeeps == IInv /\ [Next]_vars => IInv'
<1> SUFFICES ASSUME IInv, [Next]_vars PROVE IInv'
  OBVIOUS
<1>1. CASE WorkerStep
  BY <1>1, WorkerKeeps, LooksKeep DEF WorkerStep, Sources
<1>2. ASSUME NEW p \in Publishers, PublisherStep(p) PROVE IInv'
  BY <1>2, PublishKeeps, ShareKeeps, LookKeeps, ClaimKeeps DEF PublisherStep
<1>3. ASSUME NEW t \in Threads, Flush(t) PROVE IInv'
  BY <1>3, FlushKeeps
<1>4. CASE UNCHANGED vars
  <2>1. UNCHANGED <<target, memory, buffer, pc, script, popped, permit>>
    BY <1>4 DEF vars
  <2>2. Types' /\ WorkerBuffer' /\ PublisherBuffers'
    BY <2>1 DEF IInv, Types, WorkerBuffer, PublisherBuffers
  <2>3. BitKept'
    BY <2>1 DEF IInv, BitKept, BitUp, BitRising, Claimed, Pending
  <2>4. \A x \in Sources : (Quiet(x) => Quiet(x)') /\ (Looked(x)' => Looked(x))
    BY <2>1 DEF Quiet, Looked, HasJob, Sees, Pending
  <2>5. QuietBehind'
    BY <2>1, <2>4 DEF IInv, QuietBehind
  <2> QED
    BY <2>2, <2>3, <2>5 DEF IInv
<1> QED
  BY <1>1, <1>2, <1>3, <1>4 DEF Next

(* "A publisher either observes our bit or its work appears in this check" *)
(* (prepare_to_park), for any number of publishers, any workload and both  *)
(* targets: the SeqCst looks at the queues, which come before the acquire  *)
(* loads of slot and deque, and the publishers' fences are what it takes.  *)
THEOREM NoWakeIsMissed == Spec => []NoMissedWake
<1>1. IInv => NoMissedWake
  <2> SUFFICES ASSUME IInv, pc[Worker] = "park", ~ permit, \A p \in Publishers : pc[p] = "idle",
                      NEW x \in Sources, NEW p \in Publishers
               PROVE  ~ HasJob(x) /\ Pending(p, x) = {}
    BY DEF NoMissedWake, Sources
  <2>1. Looked(x)
    BY Basics DEF Looked, Settled
  <2> QED
    BY <2>1 DEF IInv, QuietBehind, Quiet
<1> QED
  BY <1>1, InitiallyQuiet, NextKeeps, PTL DEF Spec
=============================================================================
