-------------------------- MODULE TransportProofs ---------------------------
(***************************************************************************)
(* The DoT, DoQ and DoH resolvers, for any number of calls, connections    *)
(* and message IDs: each implements the abstract transport and loses track *)
(* of no connection, a call alone on a stale DoT or DoQ connection         *)
(* recovers, and what a DoQ call is using is closed under it only for      *)
(* cause.  Each protocol has its inductive invariant (IInv, QInv, HInv);   *)
(* AllInv is the one of the machine that chooses among them.               *)
(***************************************************************************)
EXTENDS Transports, TLAPS, WellFoundedInduction

\* exchMu is held by the call that is at work on the connection.
Owner == \A c \in Calls : pc[c] \in {"connect", "send", "read"} <=> exch = c

Holding == \A c \in Calls : using[c] \in Conns <=> pc[c] \in {"send", "read"}

\* What is under way on an open connection: nothing, or the one query of the
\* call that reads, or the reply to it.
Traffic ==
  \A k \in Conns : status[k] # "shut" =>
    \/ wire[k] = <<>> /\ inbox[k] = <<>>
    \/ \E c \in Calls :
         /\ pc[c] = "read" /\ using[c] = k
         /\ \/ wire[k] = <<c>> /\ inbox[k] = <<>>
            \/ wire[k] = <<>> /\ inbox[k] = <<Junk>>
            \/ wire[k] = <<>> /\ inbox[k] = <<c>> /\ c \in heard

\* A query is sent once per try.
Counted ==
  \A c \in Calls :
    /\ asked[c] <= tries[c]
    /\ pc[c] = "idle" => tries[c] = 0
    /\ pc[c] \in {"wait", "connect", "send"} => asked[c] < tries[c]
    /\ pc[c] = "read" => asked[c] > 0

IInv == TypeOK /\ Owner /\ Holding /\ NoStrayConnection /\ Traffic /\ Counted

-----------------------------------------------------------------------------
\* A set of numbers that is not empty has a least one.
LEMMA LeastExists ==
  ASSUME NEW S, S \subseteq Nat, S # {}
  PROVE  (CHOOSE k \in S : \A j \in S : k <= j) \in S
<1> DEFINE R == OpToRel(<, Nat)
<1>2. IsWellFoundedOn(R, Nat)
  BY NatLessThanWellFounded, Zenon
<1>3. \A x, y \in Nat : x < y => <<x, y>> \in R
  BY Zenon DEF OpToRel
<1> HIDE DEF R
<1>4. PICK k \in S : \A j \in S : ~(<<j, k>> \in R)
  BY <1>2, WFMin, Zenon
<1>5. \A j \in S : k <= j
  <2> TAKE j \in S
  <2>1. j \in Nat /\ k \in Nat
    BY Zenon
  <2>2. ~(j < k)
    BY <1>3, <1>4, <2>1, Zenon
  <2> QED BY <2>1, <2>2, SMT, SMTT(30)
<1> QED BY <1>5, Zenon

\* A dial numbers the connection with one of the free numbers.
LEMMA FreshIsFree ==
  ASSUME Free # {}
  PROVE  Fresh \in Free
<1>1. Free \subseteq Nat
  BY ConnAssumption, SMT, SMTT(30) DEF Free, Conns
<1> QED BY <1>1, LeastExists, Zenon DEF Fresh

\* The types of what is counted and of what is under way.
LEMMA Typed ==
  ASSUME IInv
  PROVE  /\ \A d \in Calls : asked[d] \in 0..2 /\ tries[d] \in 0..2 /\ asked[d] \in Nat /\ tries[d] \in Nat
         /\ wire \in [Conns -> Seq(Calls)] /\ inbox \in [Conns -> Seq(Calls \union {Junk})]
         /\ status \in [Conns -> {"shut", "up", "gone"}] /\ None \notin Conns
<1>1. /\ asked \in [Calls -> 0..2] /\ tries \in [Calls -> 0..2]
      /\ wire \in [Conns -> Seq(Calls)] /\ inbox \in [Conns -> Seq(Calls \union {Junk})]
      /\ status \in [Conns -> {"shut", "up", "gone"}]
  BY Zenon DEF IInv, TypeOK
<1>2. \A d \in Calls : asked[d] \in 0..2 /\ tries[d] \in 0..2
  BY <1>1, Zenon
<1>3. \A d \in Calls : asked[d] \in Nat /\ tries[d] \in Nat
  <2>1. \A i \in 0..2 : i \in Nat
    BY SMT, SMTT(30)
  <2> QED BY <1>2, <2>1, Zenon
<1>4. None \notin Conns
  BY ConnAssumption, SMT, SMTT(30) DEF Conns, None
<1> QED BY <1>1, <1>2, <1>3, <1>4, Zenon

\* The resolver starts without a connection and without calls.
LEMMA InitIInv == Init => IInv
BY ConnAssumption, CallAssumption, SMT, SMTT(30)
   DEF Init, IInv, TypeOK, Owner, Holding, NoStrayConnection, Traffic, Counted, Conns, None

\* After closeConnection no connection is open.
LEMMA DiscardCloses ==
  ASSUME IInv, Discard
  PROVE  /\ conn' = None /\ status' \in [Conns -> {"shut"}]
         /\ status' \in [Conns -> {"shut", "up", "gone"}]
BY Zenon DEF IInv, TypeOK, Discard, NoStrayConnection

\* What a try that ends in an error leaves: it holds neither exchMu nor a
\* connection, and there is a second try only after the first.
LEMMA FailedKeeps ==
  ASSUME IInv, NEW c \in Calls, pc[c] \in {"connect", "send", "read"},
         NEW why \in {"dial", "pack", "own", "pooled"}, Failed(c, why), asked' = asked
  PROVE  /\ pc' \in [Calls -> {"idle", "wait", "connect", "send", "read", "answered", "failed"}]
         /\ tries' \in [Calls -> 0..2] /\ exch' = None
         /\ using' \in [Calls -> Conns \union {None}]
         /\ cause' \in [Calls -> {"none", "dial", "pack", "own", "pooled"}]
         /\ Owner' /\ Holding' /\ Counted'
         /\ \A d \in Calls : pc'[d] # "read"
<1>1. /\ exch' = None /\ using' = [using EXCEPT ![c] = None] /\ cause' = [cause EXCEPT ![c] = why]
      /\ \/ /\ tries[c] = 1 /\ pc' = [pc EXCEPT ![c] = "wait"] /\ tries' = [tries EXCEPT ![c] = 2]
         \/ pc' = [pc EXCEPT ![c] = "failed"] /\ tries' = tries
  BY Zenon DEF Failed, Retries
<1>2. \A d \in Calls \ {c} : pc[d] \notin {"connect", "send", "read"} /\ pc'[d] = pc[d]
  BY <1>1, Zenon DEF IInv, Owner, TypeOK
<1>3. None \notin Conns /\ None \notin Calls /\ exch = c
  BY CallAssumption, ConnAssumption, SMT, SMTT(30) DEF Conns, None, IInv, Owner
<1>4. pc'[c] \in {"wait", "failed"}
  BY <1>1, Zenon DEF IInv, TypeOK
<1>5. Owner'
  BY <1>1, <1>2, <1>3, <1>4, ZenonT(40) DEF Owner
<1>6. Holding'
  BY <1>1, <1>2, <1>3, <1>4, SMT, SMTT(30) DEF Holding, IInv, TypeOK
<1>7. /\ pc' \in [Calls -> {"idle", "wait", "connect", "send", "read", "answered", "failed"}]
      /\ tries' \in [Calls -> 0..2] /\ using' \in [Calls -> Conns \union {None}]
      /\ cause' \in [Calls -> {"none", "dial", "pack", "own", "pooled"}]
  <2>1. pc' \in [Calls -> {"idle", "wait", "connect", "send", "read", "answered", "failed"}]
    <3>1. pc \in [Calls -> {"idle", "wait", "connect", "send", "read", "answered", "failed"}]
      BY Zenon DEF IInv, TypeOK
    <3>2. pc' = [pc EXCEPT ![c] = "wait"] \/ pc' = [pc EXCEPT ![c] = "failed"]
      BY <1>1, ZenonT(60)
    <3> QED BY <3>1, <3>2, Zenon
  <2>2. tries' \in [Calls -> 0..2]
    <3>1. tries \in [Calls -> 0..2] /\ 2 \in 0..2
      BY SMT, SMTT(30) DEF IInv, TypeOK
    <3>2. tries' = [tries EXCEPT ![c] = 2] \/ tries' = tries
      BY <1>1, Zenon
    <3> QED BY <3>1, <3>2, Zenon
  <2>3. using' \in [Calls -> Conns \union {None}]
    BY <1>1, Zenon DEF IInv, TypeOK
  <2>4. cause' \in [Calls -> {"none", "dial", "pack", "own", "pooled"}]
    BY <1>1, Zenon DEF IInv, TypeOK
  <2> QED BY <2>1, <2>2, <2>3, <2>4, Zenon
<1>8. Counted'
  <2> SUFFICES ASSUME NEW d \in Calls
               PROVE  /\ asked[d] <= tries'[d] /\ (pc'[d] = "idle" => tries'[d] = 0)
                      /\ (pc'[d] \in {"wait", "connect", "send"} => asked[d] < tries'[d])
                      /\ (pc'[d] = "read" => asked[d] > 0)
    BY Zenon DEF Counted
  <2>1. asked[d] \in Nat /\ tries[d] \in 0..2 /\ asked[d] <= tries[d]
    BY SMT, SMTT(30) DEF IInv, TypeOK, Counted
  <2>2. CASE d = c
    BY <1>1, <1>4, <2>1, <2>2, SMT, SMTT(30) DEF IInv, TypeOK
  <2>3. CASE d # c
    <3>1. tries'[d] = tries[d] /\ pc'[d] = pc[d]
      BY <1>1, <1>2, <2>3, Zenon DEF IInv, TypeOK
    <3> QED BY <3>1, Zenon DEF IInv, Counted
  <2> QED BY <2>2, <2>3, Zenon
<1>9. \A d \in Calls : pc'[d] # "read"
  BY <1>2, <1>4, Zenon
<1> QED BY <1>1, <1>5, <1>6, <1>7, <1>8, <1>9, ZenonT(40)

\* The steps of a call that end a try with an error: afterwards every open
\* connection, if there is one, is idle.
LEMMA FailureIInv ==
  ASSUME IInv, NEW c \in Calls,
         DialFails(c) \/ PackFails(c) \/ SendFails(c) \/ ReadJunk(c) \/ ReadFails(c)
  PROVE  IInv'
<1>1. PICK why \in {"dial", "pack", "own", "pooled"} : Failed(c, why)
  BY Zenon DEF DialFails, PackFails, SendFails, ReadJunk, ReadFails, Blame
<1>2. /\ pc[c] \in {"connect", "send", "read"} /\ asked' = asked /\ heard' = heard /\ wire' = wire
      /\ mixed' = mixed /\ closed' = closed /\ reply' = reply /\ pooled' = pooled /\ own' = own
  BY Zenon DEF DialFails, PackFails, SendFails, ReadJunk, ReadFails, link
<1>3. /\ pc' \in [Calls -> {"idle", "wait", "connect", "send", "read", "answered", "failed"}]
      /\ tries' \in [Calls -> 0..2] /\ exch' = None
      /\ using' \in [Calls -> Conns \union {None}]
      /\ cause' \in [Calls -> {"none", "dial", "pack", "own", "pooled"}]
      /\ Owner' /\ Holding' /\ Counted'
      /\ \A d \in Calls : pc'[d] # "read"
  BY <1>1, <1>2, FailedKeeps, Zenon
<1>4. CASE SendFails(c) \/ ReadJunk(c) \/ ReadFails(c)
  <2>1. conn' = None /\ status' \in [Conns -> {"shut"}] /\ status' \in [Conns -> {"shut", "up", "gone"}]
    BY <1>4, DiscardCloses, Zenon DEF SendFails, ReadJunk, ReadFails
  <2>2. inbox' \in [Conns -> Seq(Calls \union {Junk})]
    <3>1. CASE ReadJunk(c)
      <4> DEFINE k == using[c]
      <4>1. inbox' = [inbox EXCEPT ![k] = Tail(@)] /\ inbox[k] # <<>> /\ k \in Conns
        BY <3>1, Zenon DEF ReadJunk, Arrived, IInv, Holding
      <4>2. inbox[k] \in Seq(Calls \union {Junk})
        BY <4>1, Zenon DEF IInv, TypeOK
      <4> HIDE DEF k
      <4>3. Tail(inbox[k]) \in Seq(Calls \union {Junk})
        BY <4>1, <4>2, SMT, SMTT(30)
      <4> QED BY <4>1, <4>3, Zenon DEF IInv, TypeOK
    <3>2. CASE SendFails(c) \/ ReadFails(c)
      BY <3>2, Zenon DEF SendFails, ReadFails, link, IInv, TypeOK
    <3> QED BY <1>4, <3>1, <3>2, Zenon
  <2>3. TypeOK'
    BY <1>2, <1>3, <2>1, <2>2, ZenonT(40) DEF IInv, TypeOK
  <2>4. NoStrayConnection' /\ Traffic'
    BY <2>1, ZenonT(40) DEF NoStrayConnection, Traffic
  <2> QED BY <1>3, <2>3, <2>4, Zenon DEF IInv
<1>5. CASE DialFails(c) \/ PackFails(c)
  <2>1. conn' = conn /\ status' = status /\ inbox' = inbox
    BY <1>5, Zenon DEF DialFails, PackFails, pool, link
  <2>2. pc[c] # "read" /\ \A d \in Calls : pc[d] # "read"
    BY <1>5, <1>2, ZenonT(40) DEF DialFails, PackFails, IInv, Owner
  <2>3. TypeOK'
    BY <1>2, <1>3, <2>1, Zenon DEF IInv, TypeOK
  <2>4. NoStrayConnection'
    BY <2>1, ZenonT(40) DEF IInv, NoStrayConnection
  <2>5. Traffic'
    BY <1>2, <2>1, <2>2, SMT, SMTT(30) DEF IInv, Traffic
  <2> QED BY <1>3, <2>3, <2>4, <2>5, ZenonT(40) DEF IInv
<1> QED BY <1>4, <1>5, Zenon

\* Resolve, which reads the pool, and the taking of exchMu.
LEMMA BeginIInv ==
  ASSUME IInv, NEW c \in Calls, Resolve(c) \/ Lock(c)
  PROVE  IInv'
<1>1. /\ conn' = conn /\ status' = status /\ wire' = wire /\ inbox' = inbox /\ using' = using
      /\ own' = own /\ reply' = reply /\ cause' = cause /\ closed' = closed /\ asked' = asked /\ heard' = heard
  BY Zenon DEF Resolve, Lock, pool, link
<1>2. /\ pooled' \subseteq Calls /\ mixed' \subseteq Calls
      /\ \/ pc[c] = "idle" /\ pc' = [pc EXCEPT ![c] = "wait"] /\ tries' = [tries EXCEPT ![c] = 1] /\ exch' = exch
         \/ pc[c] = "wait" /\ pc' = [pc EXCEPT ![c] = "connect"] /\ tries' = tries /\ exch = None /\ exch' = c
  BY Zenon DEF Resolve, Lock, Running, IInv, TypeOK
<1>3. TypeOK'
  <2>1. pc' \in [Calls -> {"idle", "wait", "connect", "send", "read", "answered", "failed"}]
    <3>1. pc \in [Calls -> {"idle", "wait", "connect", "send", "read", "answered", "failed"}]
      BY Zenon DEF IInv, TypeOK
    <3>2. pc' = [pc EXCEPT ![c] = "wait"] \/ pc' = [pc EXCEPT ![c] = "connect"]
      BY <1>2, ZenonT(60)
    <3> QED BY <3>1, <3>2, Zenon
  <2>2. tries' \in [Calls -> 0..2]
    <3>1. tries \in [Calls -> 0..2] /\ 1 \in 0..2
      BY SMT, SMTT(30) DEF IInv, TypeOK
    <3> QED BY <1>2, <3>1, Zenon
  <2>3. exch' \in Calls \union {None}
    BY <1>2, Zenon DEF IInv, TypeOK
  <2> QED BY <1>1, <1>2, <2>1, <2>2, <2>3, Zenon DEF IInv, TypeOK
<1>4. Owner'
  BY <1>2, CallAssumption, SMT, SMTT(30) DEF IInv, TypeOK, Owner
<1>5. Holding'
  BY <1>1, <1>2, ZenonT(60) DEF IInv, TypeOK, Holding
<1>6. NoStrayConnection'
  BY <1>1, ZenonT(40) DEF IInv, NoStrayConnection
<1>7. \A d \in Calls : pc[d] = "read" => pc'[d] = "read"
  BY <1>2, Zenon DEF IInv, TypeOK
<1>8. Traffic'
  BY <1>1, <1>7, SMT, SMTT(30) DEF IInv, Traffic
<1>9. Counted'
  <2> SUFFICES ASSUME NEW d \in Calls
               PROVE  /\ asked[d] <= tries'[d] /\ (pc'[d] = "idle" => tries'[d] = 0)
                      /\ (pc'[d] \in {"wait", "connect", "send"} => asked[d] < tries'[d])
                      /\ (pc'[d] = "read" => asked[d] > 0)
    BY <1>1, Zenon DEF Counted
  <2>1. asked[d] \in Nat /\ tries[d] \in Nat
    BY Typed, Zenon
  <2>2. CASE d = c
    <3>1. /\ asked[c] <= tries[c] /\ (pc[c] = "idle" => tries[c] = 0)
          /\ (pc[c] = "wait" => asked[c] < tries[c])
      BY Zenon DEF IInv, Counted
    <3>2. \/ pc[c] = "idle" /\ pc'[c] = "wait" /\ tries'[c] = 1
          \/ pc[c] = "wait" /\ pc'[c] = "connect" /\ tries'[c] = tries[c]
      BY <1>2, Zenon DEF IInv, TypeOK
    <3> QED BY <2>1, <2>2, <3>1, <3>2, SMT, SMTT(30)
  <2>3. CASE d # c
    <3>1. tries'[d] = tries[d] /\ pc'[d] = pc[d]
      BY <1>2, <2>3, ZenonT(40) DEF IInv, TypeOK
    <3> QED BY <3>1, Zenon DEF IInv, Counted
  <2> QED BY <2>2, <2>3, Zenon
<1> QED BY <1>3, <1>4, <1>5, <1>6, <1>8, <1>9, Zenon DEF IInv

\* getConnection: the call takes the pooled connection, on which nothing is
\* under way because nobody else is at work, or dials one that is as idle.
LEMMA ConnectIInv ==
  ASSUME IInv, NEW c \in Calls, Reuse(c) \/ Dial(c)
  PROVE  IInv'
<1>0. /\ pc[c] = "connect" /\ pc' = [pc EXCEPT ![c] = "send"] /\ own' \subseteq Calls
      /\ tries' = tries /\ pooled' = pooled /\ exch' = exch /\ reply' = reply /\ cause' = cause
      /\ closed' = closed /\ asked' = asked /\ heard' = heard /\ mixed' = mixed
  BY Zenon DEF Reuse, Dial, IInv, TypeOK
<1>1. PICK k \in Conns :
        /\ using' = [using EXCEPT ![c] = k] /\ conn' = k
        /\ \/ conn = k /\ status' = status /\ wire' = wire /\ inbox' = inbox
           \/ /\ conn = None /\ status' = [status EXCEPT ![k] = "up"]
              /\ wire' = [wire EXCEPT ![k] = <<>>] /\ inbox' = [inbox EXCEPT ![k] = <<>>]
  <2>1. CASE Reuse(c)
    BY <2>1, Zenon DEF Reuse, pool, link, IInv, TypeOK
  <2>2. CASE Dial(c)
    <3>1. Fresh \in Conns
      BY <2>2, FreshIsFree, Zenon DEF Dial, Free
    <3> HIDE DEF Fresh
    <3> QED BY <2>2, <3>1, Zenon DEF Dial
  <2> QED BY <2>1, <2>2, Zenon
<1>2. \A d \in Calls : pc[d] # "read" /\ pc'[d] # "read"
  BY <1>0, ZenonT(40) DEF IInv, TypeOK, Owner
<1>3. TypeOK'
  <2>1. pc' \in [Calls -> {"idle", "wait", "connect", "send", "read", "answered", "failed"}]
    BY <1>0, Zenon DEF IInv, TypeOK
  <2>2. using' \in [Calls -> Conns \union {None}] /\ conn' \in Conns \union {None}
    BY <1>1, Zenon DEF IInv, TypeOK
  <2>3. status' \in [Conns -> {"shut", "up", "gone"}]
    BY <1>1, Zenon DEF IInv, TypeOK
  <2>4. wire' \in [Conns -> Seq(Calls)] /\ inbox' \in [Conns -> Seq(Calls \union {Junk})]
    <3>1. <<>> \in Seq(Calls) /\ <<>> \in Seq(Calls \union {Junk})
      BY SMT, SMTT(30)
    <3>2. wire' = wire \/ wire' = [wire EXCEPT ![k] = <<>>]
      BY <1>1, Zenon
    <3>3. inbox' = inbox \/ inbox' = [inbox EXCEPT ![k] = <<>>]
      BY <1>1, Zenon
    <3>4. wire' \in [Conns -> Seq(Calls)]
      BY <3>1, <3>2, Typed, ZenonT(40)
    <3>5. inbox' \in [Conns -> Seq(Calls \union {Junk})]
      BY <3>1, <3>3, Typed, ZenonT(40)
    <3> QED BY <3>4, <3>5, Zenon
  <2> QED BY <1>0, <2>1, <2>2, <2>3, <2>4, Zenon DEF IInv, TypeOK
<1>4. Owner'
  BY <1>0, Zenon DEF IInv, TypeOK, Owner
<1>5. Holding'
  BY <1>0, <1>1, ZenonT(40) DEF IInv, TypeOK, Holding
<1>6. NoStrayConnection'
  BY <1>1, ConnAssumption, SMT, SMTT(30) DEF IInv, TypeOK, NoStrayConnection, Conns, None
<1>7. Traffic'
  <2> SUFFICES ASSUME NEW j \in Conns, status'[j] # "shut"
               PROVE  wire'[j] = <<>> /\ inbox'[j] = <<>>
    BY Zenon DEF Traffic
  <2>1. CASE j = k /\ conn = None
    <3>1. wire' = [wire EXCEPT ![k] = <<>>] /\ inbox' = [inbox EXCEPT ![k] = <<>>]
      BY <1>1, <2>1, Typed, ZenonT(40)
    <3> QED BY <2>1, <3>1, Typed, ZenonT(40)
  <2>2. CASE ~(j = k /\ conn = None)
    <3>1. status[j] # "shut" /\ wire'[j] = wire[j] /\ inbox'[j] = inbox[j]
      BY <1>1, <2>2, Zenon DEF IInv, TypeOK
    <3> QED BY <1>2, <3>1, SMT, SMTT(30) DEF IInv, Traffic
  <2> QED BY <2>1, <2>2, Zenon
<1>8. Counted'
  BY <1>0, Zenon DEF IInv, TypeOK, Counted
<1> QED BY <1>3, <1>4, <1>5, <1>6, <1>7, <1>8, ZenonT(40) DEF IInv

\* The write of the query: it is the only one on its connection.
LEMMA SendIInv ==
  ASSUME IInv, NEW c \in Calls, Send(c)
  PROVE  IInv'
<1> DEFINE k == using[c]
<1>1. /\ pc[c] = "send" /\ pc' = [pc EXCEPT ![c] = "read"] /\ asked' = [asked EXCEPT ![c] = @ + 1]
      /\ wire' = (IF status[k] = "up" THEN [wire EXCEPT ![k] = Append(@, c)] ELSE wire)
      /\ tries' = tries /\ pooled' = pooled /\ exch' = exch /\ conn' = conn /\ status' = status
      /\ using' = using /\ own' = own /\ inbox' = inbox /\ reply' = reply /\ cause' = cause
      /\ closed' = closed /\ heard' = heard /\ mixed' = mixed
  BY Zenon DEF Send, pool
<1>2. k \in Conns
  BY <1>1, Zenon DEF IInv, Holding
<1>3. \A d \in Calls : pc[d] # "read"
  BY <1>1, Zenon DEF IInv, Owner
<1>4. \A j \in Conns : status[j] # "shut" => wire[j] = <<>> /\ inbox[j] = <<>>
  BY <1>3, Zenon DEF IInv, Traffic
<1>5. wire' = wire \/ (wire[k] = <<>> /\ wire' = [wire EXCEPT ![k] = <<c>>])
  <2>1. CASE status[k] = "up"
    <3>1. wire[k] = <<>>
      BY <1>2, <1>4, <2>1, ZenonT(40)
    <3>2. wire' = [wire EXCEPT ![k] = Append(wire[k], c)]
      BY <1>1, <2>1, Zenon
    <3>3. Append(wire[k], c) = <<c>>
      BY <3>1, SMT, SMTT(30)
    <3> QED BY <3>1, <3>2, <3>3, ZenonT(40)
  <2> QED BY <1>1, <2>1, ZenonT(40)
<1>6. asked[c] < tries[c] /\ asked[c] \in 0..2 /\ tries[c] \in 0..2
  BY <1>1, Typed, Zenon DEF IInv, Counted
<1> HIDE DEF k
<1>7. TypeOK'
  <2>1. pc' \in [Calls -> {"idle", "wait", "connect", "send", "read", "answered", "failed"}]
    BY <1>1, Zenon DEF IInv, TypeOK
  <2>2. asked' \in [Calls -> 0..2]
    <3>1. asked[c] + 1 \in 0..2
      BY <1>6, SMT, SMTT(30)
    <3> QED BY <1>1, <3>1, ZenonT(40) DEF IInv, TypeOK
  <2>3. wire' \in [Conns -> Seq(Calls)]
    <3>1. <<c>> \in Seq(Calls)
      BY SMT, SMTT(30)
    <3> QED BY <1>5, <3>1, ZenonT(40) DEF IInv, TypeOK
  <2> QED BY <1>1, <2>1, <2>2, <2>3, ZenonT(40) DEF IInv, TypeOK
<1>8. Owner' /\ Holding' /\ NoStrayConnection'
  BY <1>1, SMT, SMTT(30) DEF IInv, TypeOK, Owner, Holding, NoStrayConnection
<1>9. Traffic'
  <2> SUFFICES ASSUME NEW j \in Conns, status'[j] # "shut"
               PROVE  \/ wire'[j] = <<>> /\ inbox'[j] = <<>>
                      \/ pc'[c] = "read" /\ using'[c] = j /\ wire'[j] = <<c>> /\ inbox'[j] = <<>>
    BY Zenon DEF Traffic
  <2>1. wire[j] = <<>> /\ inbox'[j] = <<>> /\ pc'[c] = "read" /\ using'[c] = k
    BY <1>1, <1>4, ZenonT(40) DEF k, IInv, TypeOK
  <2>2. wire'[j] = wire[j] \/ (j = k /\ wire'[j] = <<c>>)
    BY <1>2, <1>5, Zenon DEF IInv, TypeOK
  <2> QED BY <2>1, <2>2, Zenon
<1>10. Counted'
  <2> SUFFICES ASSUME NEW d \in Calls
               PROVE  /\ asked'[d] <= tries[d] /\ (pc'[d] = "idle" => tries[d] = 0)
                      /\ (pc'[d] \in {"wait", "connect", "send"} => asked'[d] < tries[d])
                      /\ (pc'[d] = "read" => asked'[d] > 0)
    BY <1>1, ZenonT(40) DEF Counted
  <2>1. CASE d = c
    <3>1. asked'[c] = asked[c] + 1 /\ pc'[c] = "read"
      BY <1>1, ZenonT(40) DEF IInv, TypeOK
    <3> QED BY <1>6, <2>1, <3>1, SMT, SMTT(30)
  <2>2. CASE d # c
    <3>1. asked'[d] = asked[d] /\ pc'[d] = pc[d]
      BY <1>1, <2>2, ZenonT(40) DEF IInv, TypeOK
    <3> QED BY <3>1, Zenon DEF IInv, Counted
  <2> QED BY <2>1, <2>2, Zenon
<1> QED BY <1>7, <1>8, <1>9, <1>10, ZenonT(40) DEF IInv

\* What the reading call finds in its connection is the reply to its query.
LEMMA ReplyIsOwn ==
  ASSUME IInv, NEW c \in Calls, pc[c] = "read", Arrived(c)
  PROVE  /\ using[c] \in Conns /\ wire[using[c]] = <<>>
         /\ \/ inbox[using[c]] = <<Junk>>
            \/ inbox[using[c]] = <<c>> /\ c \in heard
<1>1. using[c] \in Conns /\ status[using[c]] # "shut" /\ inbox[using[c]] # <<>>
  BY Zenon DEF IInv, Holding, Arrived
<1>2. \A d \in Calls : pc[d] = "read" => d = c
  BY Zenon DEF IInv, Owner
<1> QED BY <1>1, <1>2, SMT, SMTT(30) DEF IInv, Traffic

\* A reply with the right ID: the call returns and leaves the connection idle.
LEMMA ReadReplyIInv ==
  ASSUME IInv, NEW c \in Calls, ReadReply(c)
  PROVE  IInv' /\ c \in heard /\ reply' = [reply EXCEPT ![c] = c]
<1> DEFINE k == using[c]
<1>1. /\ pc[c] = "read" /\ pc' = [pc EXCEPT ![c] = "answered"] /\ exch' = None
      /\ using' = [using EXCEPT ![c] = None] /\ inbox' = [inbox EXCEPT ![k] = Tail(inbox[k])]
      /\ reply' = [reply EXCEPT ![c] = Head(inbox[k])] /\ Head(inbox[k]) # Junk /\ Arrived(c)
      /\ tries' = tries /\ pooled' = pooled /\ conn' = conn /\ status' = status /\ own' = own
      /\ wire' = wire /\ cause' = cause /\ closed' = closed /\ asked' = asked /\ heard' = heard /\ mixed' = mixed
  BY Zenon DEF ReadReply, pool, Usable
<1>2. /\ k \in Conns /\ wire[k] = <<>>
      /\ inbox[k] = <<Junk>> \/ (inbox[k] = <<c>> /\ c \in heard)
  BY <1>1, ReplyIsOwn, Zenon
<1>3. Head(<<Junk>>) = Junk /\ Head(<<c>>) = c /\ Tail(<<c>>) = <<>>
  BY SMT, SMTT(30)
<1>4. inbox[k] = <<c>> /\ c \in heard
  BY <1>1, <1>2, <1>3, Zenon
<1>5. inbox' = [inbox EXCEPT ![k] = <<>>] /\ reply' = [reply EXCEPT ![c] = c]
  BY <1>1, <1>3, <1>4, Zenon
<1>6. exch = c /\ \A d \in Calls \ {c} : pc[d] \notin {"connect", "send", "read"}
  BY <1>1, Zenon DEF IInv, Owner
<1> HIDE DEF k
<1>7. TypeOK'
  <2>1. pc' \in [Calls -> {"idle", "wait", "connect", "send", "read", "answered", "failed"}]
    BY <1>1, Zenon DEF IInv, TypeOK
  <2>2. using' \in [Calls -> Conns \union {None}] /\ reply' \in [Calls -> Calls \union {None}]
    BY <1>1, <1>5, SMT, SMTT(30) DEF IInv, TypeOK
  <2>3. inbox' \in [Conns -> Seq(Calls \union {Junk})]
    <3>1. <<>> \in Seq(Calls \union {Junk})
      BY SMT, SMTT(30)
    <3> QED BY <1>5, <3>1, Typed, Zenon
  <2> QED BY <1>1, <2>1, <2>2, <2>3, ZenonT(40) DEF IInv, TypeOK
<1>8. Owner'
  BY <1>1, <1>6, CallAssumption, Zenon DEF IInv, TypeOK, Owner
<1>9. Holding'
  BY <1>1, Typed, ZenonT(40) DEF IInv, TypeOK, Holding
<1>10. NoStrayConnection'
  BY <1>1, Zenon DEF IInv, NoStrayConnection
<1>11. Traffic'
  <2> SUFFICES ASSUME NEW j \in Conns, status'[j] # "shut"
               PROVE  wire'[j] = <<>> /\ inbox'[j] = <<>>
    BY Zenon DEF Traffic
  <2>1. CASE j = k
    BY <1>1, <1>2, <1>5, <2>1, Typed, ZenonT(40)
  <2>2. CASE j # k
    <3>1. status[j] # "shut" /\ wire'[j] = wire[j] /\ inbox'[j] = inbox[j]
      BY <1>1, <1>5, <2>2, Typed, Zenon
    <3>2. \A d \in Calls : ~(pc[d] = "read" /\ using[d] = j)
      BY <1>6, <2>2, Zenon DEF k
    <3> QED BY <3>1, <3>2, ZenonT(40) DEF IInv, Traffic
  <2> QED BY <2>1, <2>2, Zenon
<1>12. Counted'
  BY <1>1, Zenon DEF IInv, TypeOK, Counted
<1> QED BY <1>4, <1>5, <1>7, <1>8, <1>9, <1>10, <1>11, <1>12, ZenonT(40) DEF IInv

\* Close closes what is open, whoever is using it.
LEMMA CloseIInv ==
  ASSUME IInv, Close
  PROVE  IInv'
<1>1. conn' = None /\ status' \in [Conns -> {"shut"}] /\ status' \in [Conns -> {"shut", "up", "gone"}]
  BY DiscardCloses, Zenon DEF Close
<1>2. /\ pc' = pc /\ tries' = tries /\ pooled' = pooled /\ exch' = exch /\ using' = using /\ own' = own
      /\ wire' = wire /\ inbox' = inbox /\ reply' = reply /\ cause' = cause /\ asked' = asked /\ heard' = heard
      /\ closed' = "yes" /\ mixed' \subseteq Calls
  BY Zenon DEF Close, link, Running, IInv, TypeOK
<1>3. TypeOK'
  BY <1>1, <1>2, Zenon DEF IInv, TypeOK
<1>4. NoStrayConnection' /\ Traffic'
  BY <1>1, Zenon DEF NoStrayConnection, Traffic
<1>5. Owner' /\ Holding' /\ Counted'
  BY <1>2, Zenon DEF IInv, Owner, Holding, Counted
<1> QED BY <1>3, <1>4, <1>5, Zenon DEF IInv

\* The server answers, garbles or hangs up: what it had of the call that reads
\* turns into the reply to it.
LEMMA ServerIInv ==
  ASSUME IInv, NEW k \in Conns, Server(k)
  PROVE  /\ IInv'
         /\ heard' = heard \/ \E c \in Calls : asked[c] > 0 /\ heard' = heard \union {c}
<1>1. /\ pc' = pc /\ tries' = tries /\ pooled' = pooled /\ exch' = exch /\ conn' = conn /\ using' = using
      /\ own' = own /\ reply' = reply /\ cause' = cause /\ closed' = closed /\ asked' = asked /\ mixed' = mixed
      /\ status[k] = "up"
  BY Zenon DEF Server, ServerAnswers, ServerGarbles, ServerHangsUp, pool
<1>2. Owner' /\ Holding' /\ Counted'
  BY <1>1, Zenon DEF IInv, Owner, Holding, Counted
<1>3. CASE ServerHangsUp(k)
  <2>1. status' = [status EXCEPT ![k] = "gone"] /\ wire' = wire /\ inbox' = inbox /\ heard' = heard
    BY <1>3, Zenon DEF ServerHangsUp, link
  <2>2. \A j \in Conns : status'[j] # "shut" => status[j] # "shut"
    BY <1>1, <2>1, Typed, ZenonT(40)
  <2>3. TypeOK'
    BY <1>1, <2>1, Zenon DEF IInv, TypeOK
  <2>4. NoStrayConnection'
    BY <1>1, <2>2, ZenonT(40) DEF IInv, NoStrayConnection
  <2>5. Traffic'
    BY <1>1, <2>1, <2>2, SMT, SMTT(30) DEF IInv, Traffic
  <2> QED BY <1>2, <2>1, <2>3, <2>4, <2>5, ZenonT(40) DEF IInv
<1>4. CASE ServerAnswers(k) \/ ServerGarbles(k)
  <2>1. status' = status /\ wire[k] # <<>>
    BY <1>4, Zenon DEF ServerAnswers, ServerGarbles, pool
  <2>2. PICK c \in Calls : pc[c] = "read" /\ using[c] = k /\ wire[k] = <<c>> /\ inbox[k] = <<>>
    BY <1>1, <2>1, Zenon DEF IInv, Traffic
  <2>3. Head(<<c>>) = c /\ Tail(<<c>>) = <<>> /\ Append(<<>>, c) = <<c>> /\ Append(<<>>, Junk) = <<Junk>>
    BY SMT, SMTT(30)
  <2>4. /\ wire' = [wire EXCEPT ![k] = <<>>]
        /\ \/ inbox' = [inbox EXCEPT ![k] = <<c>>] /\ heard' = heard \union {c}
           \/ inbox' = [inbox EXCEPT ![k] = <<Junk>>] /\ heard' = heard
    BY <1>4, <2>2, <2>3, ZenonT(40) DEF ServerAnswers, ServerGarbles
  <2>5. TypeOK'
    <3>1. <<>> \in Seq(Calls) /\ <<c>> \in Seq(Calls \union {Junk}) /\ <<Junk>> \in Seq(Calls \union {Junk})
      BY SMT, SMTT(30)
    <3>2. wire' \in [Conns -> Seq(Calls)]
      BY <2>4, <3>1, Typed, Zenon
    <3>3. inbox' \in [Conns -> Seq(Calls \union {Junk})]
      BY <2>4, <3>1, Typed, Zenon
    <3>4. heard' \subseteq Calls
      BY <2>4, Zenon DEF IInv, TypeOK
    <3> QED BY <1>1, <2>1, <3>2, <3>3, <3>4, ZenonT(40) DEF IInv, TypeOK
  <2>6. NoStrayConnection'
    BY <1>1, <2>1, Zenon DEF IInv, NoStrayConnection
  <2>7. Traffic'
    <3> SUFFICES ASSUME NEW j \in Conns, status'[j] # "shut"
                 PROVE  \/ wire'[j] = <<>> /\ inbox'[j] = <<>>
                        \/ \E d \in Calls :
                             /\ pc'[d] = "read" /\ using'[d] = j
                             /\ \/ wire'[j] = <<d>> /\ inbox'[j] = <<>>
                                \/ wire'[j] = <<>> /\ inbox'[j] = <<Junk>>
                                \/ wire'[j] = <<>> /\ inbox'[j] = <<d>> /\ d \in heard'
      BY Zenon DEF Traffic
    <3>1. CASE j = k
      BY <1>1, <2>2, <2>4, <3>1, Typed, ZenonT(40)
    <3>2. CASE j # k
      <4>1. wire'[j] = wire[j] /\ inbox'[j] = inbox[j] /\ heard \subseteq heard'
        BY <2>4, <3>2, Typed, Zenon
      <4> QED BY <1>1, <2>1, <4>1, SMT, SMTT(30) DEF IInv, Traffic
    <3> QED BY <3>1, <3>2, Zenon
  <2>8. asked[c] > 0
    BY <2>2, Zenon DEF IInv, Counted
  <2> QED BY <1>2, <2>4, <2>5, <2>6, <2>7, <2>8, ZenonT(40) DEF IInv
<1> QED BY <1>3, <1>4, ZenonT(40) DEF Server, ServerAnswers

\* Every step of the resolver and of the server keeps the invariant.
LEMMA NextIInv ==
  ASSUME IInv, [Next]_vars
  PROVE  IInv'
<1>1. CASE Next
  <2>1. CASE \E c \in Calls : Resolve(c) \/ Step(c)
    BY <2>1, BeginIInv, ConnectIInv, SendIInv, FailureIInv, ReadReplyIInv, ZenonT(40) DEF Step
  <2>2. CASE Close
    BY <2>2, CloseIInv, Zenon
  <2>3. CASE \E k \in Conns : Server(k)
    BY <2>3, ServerIInv, ZenonT(40)
  <2> QED BY <1>1, <2>1, <2>2, <2>3, ZenonT(40) DEF Next, Steps
<1>2. CASE UNCHANGED vars
  BY <1>2, SMT, SMTT(30) DEF vars, IInv, TypeOK, Owner, Holding, NoStrayConnection, Traffic, Counted
<1> QED BY <1>1, <1>2, Zenon

\* The invariant of the DoT resolver.
THEOREM DoTInvariance == Spec => []IInv
<1>1. Init => IInv
  BY InitIInv, Zenon
<1>2. IInv /\ [Next]_vars => IInv'
  BY NextIInv, Zenon
<1> QED BY <1>1, <1>2, PTL DEF Spec

\* No connection that getConnection dialled is lost track of: one that is open
\* is the pooled one, in whatever order calls, failures and Close run.
THEOREM DoTNoneStray == Spec => []NoStrayConnection
<1>1. IInv => NoStrayConnection
  BY Zenon DEF IInv
<1> QED BY <1>1, DoTInvariance, PTL

-----------------------------------------------------------------------------
Outcomes == [c \in Calls |-> OutcomeOf(c)]

\* A step that takes one call to another stage changes the outcome of that
\* call alone.
LEMMA OutcomeMoves ==
  ASSUME IInv, NEW c \in Calls, NEW stage, pc' = [pc EXCEPT ![c] = stage],
         \A d \in Calls \ {c} : reply'[d] = reply[d]
  PROVE  Outcomes' = [Outcomes EXCEPT ![c] = OutcomeOf(c)']
<1>1. \A d \in Calls \ {c} : OutcomeOf(d)' = OutcomeOf(d)
  <2> TAKE d \in Calls \ {c}
  <2>1. pc'[d] = pc[d] /\ reply'[d] = reply[d]
    BY Zenon DEF IInv, TypeOK
  <2> QED BY <2>1, Zenon DEF OutcomeOf
<1>2. Outcomes' = [d \in Calls |-> OutcomeOf(d)']
  BY Zenon DEF Outcomes
<1> HIDE DEF OutcomeOf
<1> QED BY <1>1, <1>2, Zenon DEF Outcomes

\* Each step is a step of the abstract transport, or none.
LEMMA StepImplements ==
  ASSUME IInv, [Next]_vars
  PROVE  Abstract!Next \/ UNCHANGED <<Outcomes, asked, heard>>
<1>1. ASSUME NEW c \in Calls, Resolve(c) PROVE Abstract!Begin(c)
  <2>1. /\ pc[c] = "idle" /\ pc' = [pc EXCEPT ![c] = "wait"] /\ reply' = reply
        /\ asked' = asked /\ heard' = heard
    BY <1>1, Zenon DEF Resolve
  <2>2. OutcomeOf(c) = "idle" /\ OutcomeOf(c)' = "pending"
    BY <2>1, Zenon DEF OutcomeOf, IInv, TypeOK
  <2>3. Outcomes' = [Outcomes EXCEPT ![c] = "pending"]
    BY <2>1, <2>2, OutcomeMoves, ZenonT(40)
  <2> HIDE DEF OutcomeOf
  <2> QED BY <2>1, <2>2, <2>3, Zenon DEF Abstract!Begin, Outcomes
<1>2. ASSUME NEW c \in Calls, Send(c) PROVE Abstract!Ask(c)
  <2>1. /\ pc[c] = "send" /\ pc' = [pc EXCEPT ![c] = "read"] /\ reply' = reply
        /\ asked' = [asked EXCEPT ![c] = @ + 1] /\ heard' = heard
    BY <1>2, Zenon DEF Send
  <2>2. OutcomeOf(c) = "pending" /\ OutcomeOf(c)' = "pending"
    BY <2>1, Zenon DEF OutcomeOf, IInv, TypeOK
  <2>3. Outcomes' = Outcomes
    BY <2>1, <2>2, OutcomeMoves, Zenon DEF Outcomes
  <2>4. asked[c] < 2
    <3>1. asked[c] < tries[c]
      BY <2>1, Zenon DEF IInv, Counted
    <3>2. asked[c] \in Nat /\ tries[c] \in 0..2
      BY Typed, Zenon
    <3> QED BY <3>1, <3>2, SMT, SMTT(30)
  <2> HIDE DEF OutcomeOf
  <2> QED BY <2>1, <2>2, <2>3, <2>4, ZenonT(40) DEF Abstract!Ask, Abstract!MaxTries, Outcomes
<1>3. ASSUME NEW c \in Calls, ReadReply(c) PROVE Abstract!Answer(c)
  <2>1. /\ pc[c] = "read" /\ pc' = [pc EXCEPT ![c] = "answered"] /\ asked' = asked /\ heard' = heard
    BY <1>3, Zenon DEF ReadReply
  <2>2. c \in heard /\ reply' = [reply EXCEPT ![c] = c]
    BY <1>3, ReadReplyIInv, Zenon
  <2>3. OutcomeOf(c) = "pending" /\ OutcomeOf(c)' = "answered"
    BY <2>1, <2>2, Zenon DEF OutcomeOf, IInv, TypeOK
  <2>4. \A d \in Calls \ {c} : reply'[d] = reply[d]
    BY <2>2, Zenon DEF IInv, TypeOK
  <2>5. Outcomes' = [Outcomes EXCEPT ![c] = "answered"]
    BY <2>1, <2>3, <2>4, OutcomeMoves, Zenon
  <2> HIDE DEF OutcomeOf
  <2> QED BY <2>1, <2>2, <2>3, <2>5, Zenon DEF Abstract!Answer, Outcomes
<1>4. ASSUME NEW c \in Calls,
             DialFails(c) \/ PackFails(c) \/ SendFails(c) \/ ReadJunk(c) \/ ReadFails(c)
      PROVE  Abstract!Fail(c) \/ UNCHANGED <<Outcomes, asked, heard>>
  <2>1. /\ pc[c] \in {"connect", "send", "read"} /\ reply' = reply /\ asked' = asked /\ heard' = heard
        /\ pc' = [pc EXCEPT ![c] = "wait"] \/ pc' = [pc EXCEPT ![c] = "failed"]
    BY <1>4, Zenon DEF DialFails, PackFails, SendFails, ReadJunk, ReadFails, Failed
  <2>2. OutcomeOf(c) = "pending"
    BY <2>1, Zenon DEF OutcomeOf
  <2>3. CASE pc' = [pc EXCEPT ![c] = "wait"]
    <3>1. OutcomeOf(c)' = "pending"
      BY <2>3, Zenon DEF OutcomeOf, IInv, TypeOK
    <3>2. Outcomes' = Outcomes
      BY <2>1, <2>2, <2>3, <3>1, OutcomeMoves, Zenon DEF Outcomes
    <3> QED BY <2>1, <3>2, Zenon
  <2>4. CASE pc' = [pc EXCEPT ![c] = "failed"]
    <3>1. OutcomeOf(c)' = "failed"
      BY <2>4, Zenon DEF OutcomeOf, IInv, TypeOK
    <3>2. Outcomes' = [Outcomes EXCEPT ![c] = "failed"]
      BY <2>1, <2>4, <3>1, OutcomeMoves, Zenon
    <3> HIDE DEF OutcomeOf
    <3> QED BY <2>1, <2>2, <3>2, Zenon DEF Abstract!Fail, Outcomes
  <2> QED BY <2>1, <2>3, <2>4, ZenonT(40)
<1>5. ASSUME NEW c \in Calls, Lock(c) \/ Reuse(c) \/ Dial(c) PROVE UNCHANGED <<Outcomes, asked, heard>>
  <2>1. /\ reply' = reply /\ asked' = asked /\ heard' = heard /\ pc[c] \in {"wait", "connect"}
        /\ pc' = [pc EXCEPT ![c] = "connect"] \/ pc' = [pc EXCEPT ![c] = "send"]
    BY <1>5, Zenon DEF Lock, Reuse, Dial
  <2>2. OutcomeOf(c) = "pending" /\ OutcomeOf(c)' = "pending"
    BY <2>1, Zenon DEF OutcomeOf, IInv, TypeOK
  <2>3. Outcomes' = Outcomes
    BY <2>1, <2>2, OutcomeMoves, ZenonT(40) DEF Outcomes
  <2> QED BY <2>1, <2>3, Zenon
<1>6. ASSUME NEW k \in Conns, Server(k)
      PROVE  (\E c \in Calls : Abstract!Hear(c)) \/ UNCHANGED <<Outcomes, asked, heard>>
  <2>1. pc' = pc /\ reply' = reply /\ asked' = asked
    BY <1>6, Zenon DEF Server, ServerAnswers, ServerGarbles, ServerHangsUp
  <2>2. Outcomes' = Outcomes
    BY <2>1, Zenon DEF Outcomes, OutcomeOf
  <2>3. heard' = heard \/ \E c \in Calls : asked[c] > 0 /\ heard' = heard \union {c}
    BY <1>6, ServerIInv, ZenonT(40)
  <2> QED BY <2>1, <2>2, <2>3, ZenonT(40) DEF Abstract!Hear, Outcomes
<1>7. CASE Close \/ UNCHANGED vars
  <2>1. pc' = pc /\ reply' = reply /\ asked' = asked /\ heard' = heard
    BY <1>7, ZenonT(40) DEF Close, vars
  <2> QED BY <2>1, Zenon DEF Outcomes, OutcomeOf
<1>8. CASE \E c \in Calls : Resolve(c) \/ Step(c)
  BY <1>1, <1>2, <1>3, <1>4, <1>5, <1>8, SMT, SMTT(30) DEF Step, Abstract!Next
<1>9. CASE \E k \in Conns : Server(k)
  BY <1>6, <1>9, Zenon DEF Abstract!Next
<1> QED BY <1>7, <1>8, <1>9, ZenonT(40) DEF Next, Steps

\* The DoT resolver implements the abstract transport the fallback chain
\* calls, for any number of calls and connections and whatever IDs the queries
\* carry: each is sent at most twice and answered only with the reply to it.
THEOREM DoTImplements == Spec => ImplementsTransport
<1>1. Init => Abstract!Init
  BY SMT, SMTT(30) DEF Init, Abstract!Init, OutcomeOf
<1>2. IInv /\ [Next]_vars => [Abstract!Next]_<<Outcomes, asked, heard>>
  BY StepImplements, Zenon
<1> QED BY <1>1, <1>2, DoTInvariance, PTL DEF Spec, ImplementsTransport, Abstract!Spec, Outcomes

-----------------------------------------------------------------------------
\* Of two calls that run, both overlap another.
Alone == \A c, d \in Calls : c # d /\ c \in Running /\ d \in Running => c \in mixed

\* A call that runs alone either found a connection, and so has a second try
\* left, or dials; on its second try nothing is pooled unless it never sent.
LoneFits(c) ==
  /\ pc[c] \in {"wait", "connect"} =>
       IF tries[c] = 1 THEN c \in pooled \/ conn = None ELSE c \in bulky \/ conn = None
  /\ pc[c] \in {"send", "read"} =>
       IF tries[c] = 1 THEN c \in pooled \/ c \in own ELSE c \in bulky \/ c \in own
  /\ pc[c] = "read" => c \notin bulky
  /\ pc[c] = "failed" => cause[c] # "pooled"

Lone == \A c \in Calls : c \notin mixed => LoneFits(c)

\* A call at work is the only one that may run alone.
LEMMA OthersFit ==
  ASSUME Alone, Lone, NEW c \in Calls, c \in Running, mixed' = mixed,
         NEW d \in Calls, d # c, d \notin mixed, pc'[d] = pc[d], cause'[d] = cause[d]
  PROVE  LoneFits(d)'
<1>1. pc[d] \in {"idle", "answered", "failed"}
  BY Zenon DEF Alone, Running
<1> QED BY <1>1, Zenon DEF Lone, LoneFits

\* No step but Resolve starts a call, so no step but it creates an overlap.
LEMMA AloneKept ==
  ASSUME Alone, Running' \subseteq Running, mixed \subseteq mixed'
  PROVE  Alone'
BY Zenon DEF Alone

\* A try that ends in an error and has found no connection of its own is
\* followed by another.
LEMMA FailureLone ==
  ASSUME IInv, Alone, Lone, NEW c \in Calls, bulky' = bulky,
         DialFails(c) \/ PackFails(c) \/ SendFails(c) \/ ReadJunk(c) \/ ReadFails(c)
  PROVE  Alone' /\ Lone'
<1>1. PICK why \in {"dial", "pack", "own", "pooled"} :
        /\ Failed(c, why)
        /\ why = "pooled" => c \in mixed \/ (c \notin own /\ c \notin bulky /\ pc[c] \in {"send", "read"})
        /\ why = "pack" <=> PackFails(c)
        /\ why # "pack" => conn' = None
  <2>1. CASE DialFails(c)
    BY <2>1, Zenon DEF DialFails, PackFails, pool
  <2>2. CASE PackFails(c)
    BY <2>2, Zenon DEF PackFails
  <2>3. CASE SendFails(c) \/ ReadJunk(c) \/ ReadFails(c)
    BY <2>3, ZenonT(40) DEF SendFails, ReadJunk, ReadFails, PackFails, Discard, Blame, Lone, LoneFits
  <2> QED BY <2>1, <2>2, <2>3, ZenonT(40)
<1>2. /\ pc[c] \in {"connect", "send", "read"} /\ mixed' = mixed /\ pooled' = pooled /\ own' = own
      /\ cause' = [cause EXCEPT ![c] = why]
      /\ \/ /\ tries[c] = 1 /\ c \in pooled
            /\ pc' = [pc EXCEPT ![c] = "wait"] /\ tries' = [tries EXCEPT ![c] = 2]
         \/ ~(tries[c] = 1 /\ c \in pooled) /\ pc' = [pc EXCEPT ![c] = "failed"]
  BY <1>1, ZenonT(40) DEF DialFails, PackFails, SendFails, ReadJunk, ReadFails, Failed, Retries
<1>3. c \in Running /\ Running' \subseteq Running
  BY <1>2, Zenon DEF Running, IInv, TypeOK
<1>4. ASSUME c \notin mixed PROVE LoneFits(c)'
  <2>1. CASE pc' = [pc EXCEPT ![c] = "wait"] /\ tries' = [tries EXCEPT ![c] = 2]
    <3>1. pc'[c] = "wait" /\ tries'[c] = 2
      BY <2>1, Zenon DEF IInv, TypeOK
    <3>2. c \in bulky \/ conn' = None
      BY <1>1, Zenon DEF PackFails
    <3> QED BY <3>1, <3>2, SMT, SMTT(30) DEF LoneFits
  <2>2. CASE ~(tries[c] = 1 /\ c \in pooled) /\ pc' = [pc EXCEPT ![c] = "failed"]
    <3>1. pc'[c] = "failed" /\ cause'[c] = why
      BY <1>2, <2>2, Zenon DEF IInv, TypeOK
    <3>2. why # "pooled"
      BY <1>1, <1>4, <2>2, Zenon DEF Lone, LoneFits
    <3> QED BY <3>1, <3>2, Zenon DEF LoneFits
  <2> QED BY <1>2, <2>1, <2>2, ZenonT(40)
<1>5. ASSUME NEW d \in Calls, d # c, d \notin mixed PROVE LoneFits(d)'
  <2>1. pc'[d] = pc[d] /\ cause'[d] = cause[d]
    BY <1>2, <1>5, Zenon DEF IInv, TypeOK
  <2> QED BY <1>2, <1>3, <1>5, <2>1, OthersFit, Zenon
<1>6. Alone'
  BY <1>2, <1>3, AloneKept, Zenon
<1> QED BY <1>2, <1>4, <1>5, <1>6, ZenonT(40) DEF Lone

\* The steps of a call on its way to the reply.
LEMMA ProgressLone ==
  ASSUME IInv, Alone, Lone, NEW c \in Calls, bulky' = bulky,
         Lock(c) \/ Reuse(c) \/ Dial(c) \/ Send(c) \/ ReadReply(c)
  PROVE  Alone' /\ Lone'
<1>1. /\ mixed' = mixed /\ pooled' = pooled /\ tries' = tries /\ cause' = cause
      /\ \/ pc[c] = "wait" /\ pc' = [pc EXCEPT ![c] = "connect"] /\ conn' = conn /\ own' = own
         \/ pc[c] = "connect" /\ conn # None /\ pc' = [pc EXCEPT ![c] = "send"] /\ own' = own \ {c}
         \/ pc[c] = "connect" /\ pc' = [pc EXCEPT ![c] = "send"] /\ own' = own \union {c}
         \/ pc[c] = "send" /\ c \notin bulky /\ pc' = [pc EXCEPT ![c] = "read"] /\ own' = own
         \/ pc[c] = "read" /\ pc' = [pc EXCEPT ![c] = "answered"]
  BY Zenon DEF Lock, Reuse, Dial, Send, ReadReply, pool
<1>2. c \in Running /\ Running' \subseteq Running
  BY <1>1, Zenon DEF Running, IInv, TypeOK
<1>3. ASSUME c \notin mixed PROVE LoneFits(c)'
  <2>1. pc'[c] \in {"connect", "send", "read", "answered"} /\ LoneFits(c)
    BY <1>1, <1>3, ZenonT(40) DEF Lone, IInv, TypeOK
  <2>2. CASE pc[c] = "wait" /\ pc' = [pc EXCEPT ![c] = "connect"] /\ conn' = conn /\ own' = own
    BY <1>1, <2>1, <2>2, ZenonT(40) DEF LoneFits, IInv, TypeOK
  <2>3. CASE pc[c] = "connect" /\ conn # None /\ pc' = [pc EXCEPT ![c] = "send"] /\ own' = own \ {c}
    BY <1>1, <2>1, <2>3, ZenonT(40) DEF LoneFits, IInv, TypeOK
  <2>4. CASE pc[c] = "connect" /\ pc' = [pc EXCEPT ![c] = "send"] /\ own' = own \union {c}
    BY <1>1, <2>1, <2>4, ZenonT(40) DEF LoneFits, IInv, TypeOK
  <2>5. CASE pc[c] = "send" /\ c \notin bulky /\ pc' = [pc EXCEPT ![c] = "read"] /\ own' = own
    BY <1>1, <2>1, <2>5, ZenonT(40) DEF LoneFits, IInv, TypeOK
  <2>6. CASE pc[c] = "read" /\ pc' = [pc EXCEPT ![c] = "answered"]
    BY <2>6, Zenon DEF LoneFits, IInv, TypeOK
  <2> QED BY <1>1, <2>2, <2>3, <2>4, <2>5, <2>6, ZenonT(40)
<1>4. ASSUME NEW d \in Calls, d # c, d \notin mixed PROVE LoneFits(d)'
  <2>1. pc'[d] = pc[d] /\ cause'[d] = cause[d]
    BY <1>1, <1>4, ZenonT(40) DEF IInv, TypeOK
  <2> QED BY <1>1, <1>2, <1>4, <2>1, OthersFit, ZenonT(40)
<1>5. Alone'
  BY <1>1, <1>2, AloneKept, ZenonT(40)
<1> QED BY <1>1, <1>3, <1>4, <1>5, ZenonT(40) DEF Lone

\* Resolve notes whether a connection is pooled, and whom it overlaps.
LEMMA ResolveLone ==
  ASSUME IInv, Alone, Lone, NEW c \in Calls, Resolve(c), bulky' = bulky
  PROVE  Alone' /\ Lone'
<1>1. /\ pc[c] = "idle" /\ pc' = [pc EXCEPT ![c] = "wait"] /\ tries' = [tries EXCEPT ![c] = 1]
      /\ conn # None => c \in pooled'
      /\ conn' = conn /\ own' = own /\ cause' = cause
      /\ mixed' = IF Running # {} THEN mixed \union Running \union {c} ELSE mixed
  BY Zenon DEF Resolve, pool
<1>2. pc'[c] = "wait" /\ tries'[c] = 1 /\ \A d \in Calls \ {c} : pc'[d] = pc[d]
  BY <1>1, Zenon DEF IInv, TypeOK
<1>3. Running' = Running \union {c}
  BY <1>2, Zenon DEF Running
<1>4. Alone'
  BY <1>1, <1>3, Zenon DEF Alone
<1>5. LoneFits(c)'
  BY <1>1, <1>2, ZenonT(40) DEF LoneFits
<1>6. ASSUME NEW d \in Calls, d # c, d \notin mixed' PROVE LoneFits(d)'
  <2>1. d \notin mixed /\ d \notin Running
    BY <1>1, <1>6, Zenon
  <2>2. pc'[d] = pc[d] /\ pc[d] \in {"idle", "answered", "failed"}
    BY <1>2, <1>6, <2>1, ZenonT(40) DEF Running
  <2> QED BY <1>1, <2>1, <2>2, ZenonT(40) DEF Lone, LoneFits
<1> QED BY <1>4, <1>5, <1>6, ZenonT(40) DEF Lone

\* What the server and Close do to calls that run alone: nothing.
LEMMA OutsideLone ==
  ASSUME Alone, Lone, bulky' = bulky,
         Close \/ (\E k \in Conns : Server(k)) \/ UNCHANGED vars
  PROVE  Alone' /\ Lone'
<1>1. CASE Close
  <2>1. pc' = pc /\ cause' = cause /\ mixed' = mixed \union Running
    BY <1>1, Zenon DEF Close
  <2>2. Running' = Running
    BY <2>1, Zenon DEF Running
  <2>3. \A c \in Calls : c \notin mixed' => pc[c] \in {"idle", "answered", "failed"}
    BY <2>1, Zenon DEF Running
  <2> QED BY <2>1, <2>2, <2>3, Zenon DEF Alone, Lone, LoneFits
<1>2. CASE (\E k \in Conns : Server(k)) \/ UNCHANGED vars
  <2>1. /\ pc' = pc /\ cause' = cause /\ mixed' = mixed /\ tries' = tries /\ pooled' = pooled
        /\ own' = own /\ conn' = conn
    BY <1>2, Zenon DEF Server, ServerAnswers, ServerGarbles, ServerHangsUp, pool, vars
  <2> QED BY <2>1, Zenon DEF Alone, Lone, LoneFits, Running
<1> QED BY <1>1, <1>2, Zenon

\* Every step keeps what is said of calls that run alone.
LEMMA NextLone == ASSUME IInv, Alone, Lone, [Next]_vars PROVE Alone' /\ Lone'
<1>1. bulky' = bulky
  BY Zenon DEF Next, vars
<1>2. CASE \E c \in Calls : Resolve(c) \/ Step(c)
  BY <1>1, <1>2, ResolveLone, ProgressLone, FailureLone, ZenonT(40) DEF Step
<1>3. CASE Close \/ (\E k \in Conns : Server(k)) \/ UNCHANGED vars
  BY <1>1, <1>3, OutsideLone, ZenonT(40)
<1> QED BY <1>2, <1>3, Zenon DEF Next, Steps

\* The resolver starts without calls.
LEMMA InitLone == Init => Alone /\ Lone
BY ZenonT(40) DEF Init, Alone, Lone, LoneFits, Running

\* A call of Resolve that ran alone does not fail on a connection it found in
\* the pool: its second try dials.
THEOREM DoTStaleAbsorbed == Spec => []StalePoolAbsorbed
<1>1. Lone => StalePoolAbsorbed
  BY Zenon DEF Lone, LoneFits, StalePoolAbsorbed
<1>2. IInv /\ Alone /\ Lone /\ [Next]_vars => (Alone /\ Lone)'
  BY NextLone, Zenon
<1> QED BY <1>1, <1>2, InitLone, DoTInvariance, PTL DEF Spec

-----------------------------------------------------------------------------
(* DoQ                                                                     *)

\* A call counts its tries and the connections of each, sends once per try, and
\* gives up only on the second of either; what is on its stream it has heard.
QFits(c) ==
  /\ pc[c] = "idle" => tries[c] = 0 /\ opens[c] = 0 /\ asked[c] = 0
  /\ pc[c] \in {"get", "open", "read", "drop"} => tries[c] \in {1, 2} /\ asked[c] <= tries[c]
  /\ pc[c] \in {"get", "open"} => asked[c] < tries[c]
  /\ pc[c] = "get" => opens[c] < 2
  /\ pc[c] \in {"open", "read", "drop"} => opens[c] \in {1, 2} /\ using[c] \in Q!Conns
  /\ pc[c] = "read" => asked[c] > 0
  /\ pc[c] = "drop" =>
       \/ after[c] = "reopen" /\ opens[c] = 1 /\ asked[c] < tries[c]
       \/ after[c] = "retry" /\ tries[c] = 1
       \/ after[c] = "failed" /\ (opens[c] = 2 \/ tries[c] = 2)
  /\ stream[c] = "answer" => c \in heard

\* A connection that is being recycled is out of the pool.
QUnpooled == \A c \in Calls : pc[c] = "drop" => using[c] # conn

QInv == Q!TypeOK /\ Q!NoStrayConnection /\ QUnpooled /\ \A c \in Calls : QFits(c)

\* What the invariant reads of a call.
QSame(d) ==
  /\ pc'[d] = pc[d] /\ tries'[d] = tries[d] /\ opens'[d] = opens[d] /\ asked'[d] = asked[d]
  /\ using'[d] = using[d] /\ after'[d] = after[d] /\ stream'[d] = stream[d]

\* A call whose own state stays, stays in order.
LEMMA QOthersFit ==
  ASSUME NEW d \in Calls, QFits(d), QSame(d), heard \subseteq heard'
  PROVE  QFits(d)'
BY ZenonT(40) DEF QFits, QSame

\* The types of what is counted.
LEMMA QTyped ==
  ASSUME QInv
  PROVE  /\ pc \in [Calls -> {"idle", "get", "open", "read", "drop", "answered", "failed"}]
         /\ tries \in [Calls -> 0..2] /\ opens \in [Calls -> 0..2] /\ asked \in [Calls -> 0..2]
         /\ using \in [Calls -> Q!Conns \union {Q!None}]
         /\ stream \in [Calls -> {"none", "sent", "answer"}]
         /\ after \in [Calls -> {"none", "reopen", "retry", "failed"}]
         /\ cause \in [Calls -> {"none", "dial", "pack", "own", "pooled"}]
         /\ Q!None \notin Q!Conns
<1>1. Q!None \notin Q!Conns
  BY ConnAssumption, SMT, SMTT(30) DEF Q!Conns, Q!None
<1> QED BY <1>1, Zenon DEF QInv, Q!TypeOK

\* Small numbers.
LEMMA Small == /\ 0 \in 0..2 /\ 1 \in 0..2 /\ 2 \in 0..2
               /\ \A n \in 0..2 : n < 2 => n + 1 \in {1, 2} /\ n + 1 \in 0..2
               /\ \A n \in 0..2, m \in {1, 2} : n < m => n + 1 <= m /\ n + 1 > 0 /\ n < 2 /\ n <= m
BY SMT, SMTT(30)

\* A step that leaves the pool and what is being recycled alone.
LEMMA QPoolKept ==
  ASSUME QInv, live' = live, conn' = conn,
         \A d \in Calls : pc[d] = "drop" <=> pc'[d] = "drop",
         \A d \in Calls : pc[d] = "drop" => using'[d] = using[d]
  PROVE  Q!NoStrayConnection' /\ QUnpooled'
<1>1. QUnpooled'
  BY Zenon DEF QInv, QUnpooled
<1>2. ASSUME NEW k \in live PROVE conn = k \/ \E d \in Calls : pc'[d] = "drop" /\ using'[d] = k
  BY Zenon DEF QInv, Q!NoStrayConnection
<1> QED BY <1>1, <1>2, Zenon DEF QInv, Q!NoStrayConnection

\* A connection that is being recycled has a number.
LEMMA QRecycledHas ==
  ASSUME QInv, NEW d \in Calls, pc[d] = "drop"
  PROVE  using[d] \in Q!Conns /\ using[d] # Q!None
<1>1. using[d] \in Q!Conns
  BY Zenon DEF QInv, QFits
<1> QED BY <1>1, QTyped, Zenon

\* The resolver starts without a connection and without calls.
LEMMA QInitInv == Q!Init => QInv
<1> SUFFICES ASSUME Q!Init PROVE QInv
  BY Zenon
<1>1. Q!TypeOK
  BY Small, Zenon DEF Q!Init, Q!TypeOK
<1>2. Q!NoStrayConnection /\ QUnpooled
  BY Zenon DEF Q!Init, Q!NoStrayConnection, QUnpooled
<1>3. ASSUME NEW c \in Calls PROVE QFits(c)
  BY Zenon DEF Q!Init, QFits
<1> QED BY <1>1, <1>2, <1>3, ZenonT(40) DEF QInv

\* Resolve.
LEMMA QResolveInv == ASSUME QInv, NEW c \in Calls, Q!Resolve(c) PROVE QInv'
<1>1. /\ pc[c] = "idle" /\ pc' = [pc EXCEPT ![c] = "get"] /\ tries' = [tries EXCEPT ![c] = 1]
      /\ mixed' \subseteq Calls
      /\ opens' = opens /\ conn' = conn /\ idle' = idle /\ live' = live /\ using' = using /\ own' = own
      /\ stream' = stream /\ after' = after /\ cause' = cause /\ closed' = closed
      /\ asked' = asked /\ heard' = heard
  BY Zenon DEF Q!Resolve, Q!Running, Q!pool, QInv, Q!TypeOK
<1>2. Q!TypeOK'
  <2>1. tries' \in [Calls -> 0..2] /\ pc' \in [Calls -> {"idle", "get", "open", "read", "drop", "answered", "failed"}]
    BY <1>1, QTyped, Small, Zenon
  <2> QED BY <1>1, <2>1, ZenonT(40) DEF QInv, Q!TypeOK
<1>3. pc'[c] = "get" /\ tries'[c] = 1 /\ \A d \in Calls \ {c} : QSame(d)
  BY <1>1, QTyped, Zenon DEF QSame
<1>4. Q!NoStrayConnection' /\ QUnpooled'
  <2>1. \A d \in Calls : pc'[d] = "drop" <=> pc[d] = "drop"
    BY <1>1, <1>3, ZenonT(40) DEF QSame
  <2> QED BY <1>1, <2>1, ZenonT(40) DEF QInv, Q!NoStrayConnection, QUnpooled
<1>5. QFits(c)'
  <2>1. opens[c] = 0 /\ asked[c] = 0 /\ (stream[c] = "answer" => c \in heard)
    BY <1>1, Zenon DEF QInv, QFits
  <2> QED BY <1>1, <1>3, <2>1, SMT, SMTT(30) DEF QFits
<1>6. \A d \in Calls \ {c} : QFits(d)'
  BY <1>1, <1>3, QOthersFit, Zenon DEF QInv
<1> QED BY <1>2, <1>4, <1>5, <1>6, ZenonT(40) DEF QInv

\* What taking a connection from getConnection leaves.
LEMMA QTakesFit ==
  ASSUME QInv, NEW c \in Calls, pc[c] = "get", NEW k \in Q!Conns, Q!Takes(c, k),
         tries' = tries, stream' = stream, after' = after, asked' = asked, heard' = heard
  PROVE  /\ pc' \in [Calls -> {"idle", "get", "open", "read", "drop", "answered", "failed"}]
         /\ opens' \in [Calls -> 0..2] /\ using' \in [Calls -> Q!Conns \union {Q!None}]
         /\ pc'[c] = "open" /\ using'[c] = k
         /\ \A d \in Calls \ {c} : QSame(d)
         /\ \A d \in Calls : QFits(d)'
<1>1. /\ using' = [using EXCEPT ![c] = k] /\ opens' = [opens EXCEPT ![c] = opens[c] + 1]
      /\ pc' = [pc EXCEPT ![c] = "open"]
  BY Zenon DEF Q!Takes
<1>2. /\ opens[c] \in 0..2 /\ opens[c] < 2 /\ tries[c] \in {1, 2} /\ asked[c] <= tries[c]
      /\ asked[c] < tries[c] /\ (stream[c] = "answer" => c \in heard)
  BY QTyped, Zenon DEF QInv, QFits
<1>3. opens[c] + 1 \in {1, 2} /\ opens[c] + 1 \in 0..2
  BY <1>2, Small, Zenon
<1>4. /\ pc' \in [Calls -> {"idle", "get", "open", "read", "drop", "answered", "failed"}]
      /\ opens' \in [Calls -> 0..2] /\ using' \in [Calls -> Q!Conns \union {Q!None}]
      /\ pc'[c] = "open" /\ using'[c] = k /\ opens'[c] = opens[c] + 1
  BY <1>1, <1>3, QTyped, ZenonT(40)
<1>5. \A d \in Calls \ {c} : QSame(d)
  BY <1>1, QTyped, ZenonT(40) DEF QSame
<1>6. QFits(c)'
  BY <1>2, <1>3, <1>4, ZenonT(40) DEF QFits
<1>7. \A d \in Calls \ {c} : QFits(d)'
  BY <1>5, QOthersFit, ZenonT(40) DEF QInv
<1> QED BY <1>4, <1>5, <1>6, <1>7, ZenonT(40)

\* A pooled connection is taken.
LEMMA QReuseInv == ASSUME QInv, NEW c \in Calls, Q!Reuse(c) PROVE QInv'
<1>1. /\ pc[c] = "get" /\ conn # Q!None /\ Q!Takes(c, conn) /\ own' = own \ {c}
      /\ tries' = tries /\ conn' = conn /\ idle' = idle /\ live' = live /\ stream' = stream
      /\ after' = after /\ cause' = cause /\ closed' = closed
      /\ asked' = asked /\ heard' = heard /\ mixed' = mixed
  BY Zenon DEF Q!Reuse, Q!pool, Q!hist
<1>2. conn \in Q!Conns
  BY <1>1, Zenon DEF QInv, Q!TypeOK
<1>3. /\ pc' \in [Calls -> {"idle", "get", "open", "read", "drop", "answered", "failed"}]
      /\ opens' \in [Calls -> 0..2] /\ using' \in [Calls -> Q!Conns \union {Q!None}]
      /\ pc'[c] = "open" /\ using'[c] = conn
      /\ \A d \in Calls \ {c} : QSame(d)
      /\ \A d \in Calls : QFits(d)'
  BY <1>1, <1>2, QTakesFit, ZenonT(40)
<1>4. Q!TypeOK'
  <2>1. own' \subseteq Calls
    BY <1>1, Zenon DEF QInv, Q!TypeOK
  <2> QED BY <1>1, <1>3, <2>1, ZenonT(40) DEF QInv, Q!TypeOK
<1>5. \A d \in Calls : pc[d] = "drop" <=> pc'[d] = "drop"
  BY <1>1, <1>3, ZenonT(40) DEF QSame
<1>6. \A d \in Calls : pc[d] = "drop" => using'[d] = using[d]
  BY <1>1, <1>3, ZenonT(40) DEF QSame
<1>7. Q!NoStrayConnection' /\ QUnpooled'
  BY <1>1, <1>5, <1>6, QPoolKept, ZenonT(40)
<1> QED BY <1>3, <1>4, <1>7, ZenonT(40) DEF QInv

\* A dial numbers the connection with one of the free numbers.
LEMMA QFreshIsFree ==
  ASSUME Q!Free # {}
  PROVE  Q!Fresh \in Q!Conns /\ Q!Fresh \notin live \ {conn} /\ \A d \in Calls : using[d] # Q!Fresh
<1>1. Q!Free \subseteq Nat
  BY ConnAssumption, SMT, SMTT(30) DEF Q!Free, Q!Conns
<1>2. Q!Fresh \in Q!Free
  BY <1>1, LeastExists, Zenon DEF Q!Fresh
<1> QED BY <1>2, Zenon DEF Q!Free

\* A connection is dialled; the one that aged in the pool is closed.
LEMMA QDialInv == ASSUME QInv, NEW c \in Calls, Q!Dial(c) PROVE QInv'
<1> DEFINE k == Q!Fresh
<1>1. /\ pc[c] = "get" /\ live' = (live \ {conn}) \union {k} /\ conn' = k /\ idle' = "short"
      /\ Q!Takes(c, k) /\ own' = own \union {c} /\ tries' = tries /\ stream' = stream
      /\ after' = after /\ cause' = cause /\ closed' = closed
      /\ asked' = asked /\ heard' = heard /\ mixed' = mixed
  BY Zenon DEF Q!Dial, Q!hist
<1>2. k \in Q!Conns /\ \A d \in Calls : using[d] # k
  BY QFreshIsFree, Zenon DEF Q!Dial
<1> HIDE DEF k
<1>3. /\ pc' \in [Calls -> {"idle", "get", "open", "read", "drop", "answered", "failed"}]
      /\ opens' \in [Calls -> 0..2] /\ using' \in [Calls -> Q!Conns \union {Q!None}]
      /\ pc'[c] = "open" /\ using'[c] = k
      /\ \A d \in Calls \ {c} : QSame(d)
      /\ \A d \in Calls : QFits(d)'
  BY <1>1, <1>2, QTakesFit, Zenon
<1>4. Q!TypeOK'
  <2>1. own' \subseteq Calls /\ live' \subseteq Q!Conns /\ conn' \in Q!Conns \union {Q!None}
        /\ idle' \in {"short", "long"}
    BY <1>1, <1>2, Zenon DEF QInv, Q!TypeOK
  <2> QED BY <1>1, <1>3, <2>1, Zenon DEF QInv, Q!TypeOK
<1>5. \A d \in Calls : pc[d] = "drop" <=> pc'[d] = "drop"
  BY <1>1, <1>3, Zenon DEF QSame
<1>6. \A d \in Calls : pc[d] = "drop" => using'[d] = using[d]
  BY <1>1, <1>3, Zenon DEF QSame
<1>7. Q!NoStrayConnection'
  <2>1. ASSUME NEW j \in live' PROVE conn' = j \/ \E d \in Calls : pc'[d] = "drop" /\ using'[d] = j
    <3>1. CASE j = k
      BY <1>1, <3>1, Zenon
    <3>2. CASE j \in live /\ j # conn
      BY <1>5, <1>6, <3>2, Zenon DEF QInv, Q!NoStrayConnection
    <3> QED BY <1>1, <2>1, <3>1, <3>2, ZenonT(40)
  <2>2. conn' \in live'
    BY <1>1, Zenon
  <2> QED BY <2>1, <2>2, Zenon DEF Q!NoStrayConnection
<1>8. QUnpooled'
  BY <1>1, <1>2, <1>5, <1>6, ZenonT(40) DEF QUnpooled
<1> QED BY <1>3, <1>4, <1>7, <1>8, Zenon DEF QInv

\* What the end of a call leaves.
LEMMA QEndsFit ==
  ASSUME QInv, NEW c \in Calls, NEW how \in {"answered", "failed"},
         NEW why \in {"none", "dial", "pack", "own", "pooled"}, Q!Ends(c, how, why),
         asked' = asked, heard' = heard, after' = after \/ after' = [after EXCEPT ![c] = "none"]
  PROVE  /\ pc' \in [Calls -> {"idle", "get", "open", "read", "drop", "answered", "failed"}]
         /\ tries' \in [Calls -> 0..2] /\ opens' \in [Calls -> 0..2]
         /\ using' \in [Calls -> Q!Conns \union {Q!None}]
         /\ stream' \in [Calls -> {"none", "sent", "answer"}]
         /\ after' \in [Calls -> {"none", "reopen", "retry", "failed"}]
         /\ cause' \in [Calls -> {"none", "dial", "pack", "own", "pooled"}] /\ own' \subseteq Calls
         /\ pc'[c] = how
         /\ \A d \in Calls \ {c} : QSame(d)
         /\ \A d \in Calls : QFits(d)'
<1>1. /\ pc' = [pc EXCEPT ![c] = how] /\ cause' = [cause EXCEPT ![c] = why]
      /\ tries' = [tries EXCEPT ![c] = 0] /\ opens' = [opens EXCEPT ![c] = 0]
      /\ using' = [using EXCEPT ![c] = Q!None] /\ stream' = [stream EXCEPT ![c] = "none"]
      /\ own' = own \ {c}
  BY Zenon DEF Q!Ends
<1>2. /\ tries' \in [Calls -> 0..2] /\ opens' \in [Calls -> 0..2]
      /\ using' \in [Calls -> Q!Conns \union {Q!None}]
  BY <1>1, QTyped, Small, Zenon
<1>3. pc' \in [Calls -> {"idle", "get", "open", "read", "drop", "answered", "failed"}]
  BY <1>1, QTyped, Zenon
<1>4. /\ stream' \in [Calls -> {"none", "sent", "answer"}]
      /\ after' \in [Calls -> {"none", "reopen", "retry", "failed"}]
  BY <1>1, QTyped, Zenon
<1>5. cause' \in [Calls -> {"none", "dial", "pack", "own", "pooled"}] /\ own' \subseteq Calls
  BY <1>1, QTyped, Zenon DEF QInv, Q!TypeOK
<1>6. \A d \in Calls \ {c} : QSame(d)
  BY <1>1, QTyped, SMT, ZenonT(40) DEF QSame
<1>7. pc'[c] = how /\ stream'[c] = "none"
  BY <1>1, QTyped, ZenonT(40)
<1>8. QFits(c)'
  BY <1>7, Zenon DEF QFits
<1>9. \A d \in Calls \ {c} : QFits(d)'
  BY <1>6, QOthersFit, Zenon DEF QInv
<1> QED BY <1>2, <1>3, <1>4, <1>5, <1>6, <1>7, <1>8, <1>9, ZenonT(40)

\* A dial that fails has emptied the pool.
LEMMA QDialFailsInv == ASSUME QInv, NEW c \in Calls, Q!DialFails(c) PROVE QInv'
<1>1. /\ pc[c] = "get" /\ live' = live \ {conn} /\ conn' = Q!None /\ idle' = "short"
      /\ Q!Ends(c, "failed", "dial") /\ after' = after /\ closed' = closed
      /\ asked' = asked /\ heard' = heard /\ mixed' = mixed
  BY Zenon DEF Q!DialFails, Q!hist
<1>2. /\ pc' \in [Calls -> {"idle", "get", "open", "read", "drop", "answered", "failed"}]
      /\ tries' \in [Calls -> 0..2] /\ opens' \in [Calls -> 0..2]
      /\ using' \in [Calls -> Q!Conns \union {Q!None}]
      /\ stream' \in [Calls -> {"none", "sent", "answer"}]
      /\ after' \in [Calls -> {"none", "reopen", "retry", "failed"}]
      /\ cause' \in [Calls -> {"none", "dial", "pack", "own", "pooled"}] /\ own' \subseteq Calls
      /\ pc'[c] = "failed"
      /\ \A d \in Calls \ {c} : QSame(d)
      /\ \A d \in Calls : QFits(d)'
  BY <1>1, QEndsFit, Zenon
<1>3. Q!TypeOK'
  <2>1. live' \subseteq Q!Conns /\ conn' \in Q!Conns \union {Q!None} /\ idle' \in {"short", "long"}
    BY <1>1, Zenon DEF QInv, Q!TypeOK
  <2> QED BY <1>1, <1>2, <2>1, ZenonT(40) DEF QInv, Q!TypeOK
<1>4. \A d \in Calls : pc[d] = "drop" <=> pc'[d] = "drop"
  BY <1>1, <1>2, Zenon DEF QSame
<1>5. \A d \in Calls : pc[d] = "drop" => using'[d] = using[d] /\ using[d] # Q!None
  BY <1>1, <1>2, QRecycledHas, ZenonT(40) DEF QSame
<1>6. Q!NoStrayConnection' /\ QUnpooled'
  BY <1>1, <1>4, <1>5, ZenonT(40) DEF QInv, Q!NoStrayConnection, QUnpooled
<1> QED BY <1>2, <1>3, <1>6, ZenonT(40) DEF QInv

\* The query does not pack, or the answer is read: the pool stays.
LEMMA QLeavesInv ==
  ASSUME QInv, NEW c \in Calls, Q!PackFails(c) \/ Q!Answered(c) PROVE QInv'
<1>1. PICK how \in {"answered", "failed"}, why \in {"none", "dial", "pack", "own", "pooled"} :
        Q!Ends(c, how, why)
  BY Zenon DEF Q!PackFails, Q!Answered
<1>2. /\ pc[c] # "drop" /\ live' = live /\ conn' = conn /\ idle' \in {idle, "short"}
      /\ after' = after /\ closed' = closed
      /\ asked' = asked /\ heard' = heard /\ mixed' = mixed
  BY Zenon DEF Q!PackFails, Q!Answered, Q!hist, Q!pool
<1>3. /\ pc' \in [Calls -> {"idle", "get", "open", "read", "drop", "answered", "failed"}]
      /\ tries' \in [Calls -> 0..2] /\ opens' \in [Calls -> 0..2]
      /\ using' \in [Calls -> Q!Conns \union {Q!None}]
      /\ stream' \in [Calls -> {"none", "sent", "answer"}]
      /\ after' \in [Calls -> {"none", "reopen", "retry", "failed"}]
      /\ cause' \in [Calls -> {"none", "dial", "pack", "own", "pooled"}] /\ own' \subseteq Calls
      /\ pc'[c] = how
      /\ \A d \in Calls \ {c} : QSame(d)
      /\ \A d \in Calls : QFits(d)'
  BY <1>1, <1>2, QEndsFit, ZenonT(40)
<1>4. Q!TypeOK'
  <2>1. idle' \in {"short", "long"}
    BY <1>2, Zenon DEF QInv, Q!TypeOK
  <2> QED BY <1>2, <1>3, <2>1, ZenonT(40) DEF QInv, Q!TypeOK
<1>5. \A d \in Calls : pc[d] = "drop" <=> pc'[d] = "drop"
  BY <1>2, <1>3, ZenonT(40) DEF QSame
<1>6. \A d \in Calls : pc[d] = "drop" => using'[d] = using[d]
  BY <1>2, <1>3, ZenonT(40) DEF QSame
<1>7. Q!NoStrayConnection' /\ QUnpooled'
  BY <1>2, <1>5, <1>6, QPoolKept, ZenonT(40)
<1> QED BY <1>3, <1>4, <1>7, Zenon DEF QInv

\* recycleConn takes the connection out of the pool if it is the pooled one,
\* and leaves it to be closed.
LEMMA QRecyclesInv ==
  ASSUME QInv, NEW c \in Calls, pc[c] \in {"open", "read"}, stream' = stream,
         asked' = asked, heard' = heard, mixed' = mixed,
         NEW next \in {"reopen", "retry", "failed"}, Q!Recycles(c, next),
         next = "reopen" => opens[c] = 1 /\ asked[c] < tries[c],
         next = "retry" => tries[c] = 1, next = "failed" => opens[c] = 2 \/ tries[c] = 2
  PROVE  QInv'
<1>1. /\ IF conn = using[c] THEN conn' = Q!None /\ idle' = "short" ELSE conn' = conn /\ idle' = idle
      /\ after' = [after EXCEPT ![c] = next] /\ pc' = [pc EXCEPT ![c] = "drop"]
      /\ tries' = tries /\ opens' = opens /\ live' = live /\ using' = using /\ own' = own
      /\ cause' = cause /\ closed' = closed
  BY Zenon DEF Q!Recycles, Q!Unpools
<1>2. Q!TypeOK'
  <2>1. pc' \in [Calls -> {"idle", "get", "open", "read", "drop", "answered", "failed"}]
    BY <1>1, QTyped, Zenon
  <2>2. after' \in [Calls -> {"none", "reopen", "retry", "failed"}]
    BY <1>1, QTyped, Zenon
  <2>3. conn' \in Q!Conns \union {Q!None} /\ idle' \in {"short", "long"}
    BY <1>1, Zenon DEF QInv, Q!TypeOK
  <2> QED BY <1>1, <2>1, <2>2, <2>3, ZenonT(40) DEF QInv, Q!TypeOK
<1>3. pc'[c] = "drop" /\ after'[c] = next /\ \A d \in Calls \ {c} : QSame(d)
  BY <1>1, QTyped, ZenonT(40) DEF QSame
<1>4. using[c] \in Q!Conns /\ using[c] # Q!None
  <2>1. using[c] \in Q!Conns
    BY Zenon DEF QInv, QFits
  <2> QED BY <2>1, QTyped, ZenonT(40)
<1>5. \A d \in Calls : pc[d] = "drop" => pc'[d] = "drop"
  BY <1>3, Zenon DEF QSame
<1>6. Q!NoStrayConnection'
  <2>1. ASSUME NEW j \in live PROVE conn' = j \/ \E d \in Calls : pc'[d] = "drop" /\ using[d] = j
    <3>1. conn = j \/ \E d \in Calls : pc[d] = "drop" /\ using[d] = j
      BY Zenon DEF QInv, Q!NoStrayConnection
    <3>2. CASE conn = j
      BY <1>1, <1>3, <3>2, ZenonT(40)
    <3> QED BY <1>5, <3>1, <3>2, ZenonT(40)
  <2>2. conn' # Q!None => conn' \in live
    BY <1>1, Zenon DEF QInv, Q!NoStrayConnection
  <2> QED BY <1>1, <2>1, <2>2, ZenonT(40) DEF Q!NoStrayConnection
<1>7. QUnpooled'
  <2>1. ASSUME NEW d \in Calls, pc'[d] = "drop" PROVE using[d] # conn'
    <3>1. CASE d = c
      BY <1>1, <1>4, <3>1, ZenonT(40)
    <3>2. CASE d # c
      <4>1. pc[d] = "drop"
        BY <1>3, <2>1, <3>2, ZenonT(40) DEF QSame
      <4>2. using[d] # Q!None /\ using[d] # conn
        BY <4>1, QRecycledHas, ZenonT(40) DEF QInv, QUnpooled
      <4> QED BY <1>1, <4>2, Zenon
    <3> QED BY <3>1, <3>2, Zenon
  <2> QED BY <1>1, <2>1, ZenonT(40) DEF QUnpooled
<1>8. QFits(c)'
  <2>1. /\ opens[c] \in {1, 2} /\ tries[c] \in {1, 2} /\ asked[c] <= tries[c]
        /\ (stream[c] = "answer" => c \in heard)
    BY Zenon DEF QInv, QFits
  <2> QED BY <1>1, <1>3, <1>4, <2>1, ZenonT(40) DEF QFits
<1>9. \A d \in Calls \ {c} : QFits(d)'
  BY <1>3, QOthersFit, Zenon DEF QInv
<1> QED BY <1>2, <1>6, <1>7, <1>8, <1>9, ZenonT(40) DEF QInv

\* A stream that cannot be opened, asked on or read.
LEMMA QFailureInv ==
  ASSUME QInv, NEW c \in Calls, Q!OpenFails(c) \/ Q!AskFails(c) \/ Q!Rejected(c) \/ Q!ReadFails(c)
  PROVE  QInv'
<1>1. pc[c] \in {"open", "read"} /\ stream' = stream /\ asked' = asked /\ heard' = heard /\ mixed' = mixed
  BY Zenon DEF Q!OpenFails, Q!AskFails, Q!Rejected, Q!ReadFails, Q!hist
<1>2. /\ opens[c] \in {1, 2} /\ tries[c] \in {1, 2} /\ (pc[c] = "open" => asked[c] < tries[c])
  BY <1>1, Zenon DEF QInv, QFits
<1>3. CASE Q!OpenFails(c)
  <2>1. pc[c] = "open" /\ Q!Recycles(c, IF opens[c] = 1 THEN "reopen" ELSE "failed")
    BY <1>3, Zenon DEF Q!OpenFails
  <2>2. CASE opens[c] = 1
    <3>1. Q!Recycles(c, "reopen")
      BY <2>1, <2>2, Zenon
    <3> QED BY <1>1, <1>2, <2>1, <2>2, <3>1, QRecyclesInv, ZenonT(40)
  <2>3. CASE opens[c] # 1
    <3>1. Q!Recycles(c, "failed") /\ opens[c] = 2
      BY <1>2, <2>1, <2>3, ZenonT(40)
    <3> QED BY <1>1, <3>1, QRecyclesInv, ZenonT(40)
  <2> QED BY <2>2, <2>3, ZenonT(40)
<1>4. CASE Q!AskFails(c) \/ Q!Rejected(c) \/ Q!ReadFails(c)
  <2>1. Q!Recycles(c, IF tries[c] = 1 THEN "retry" ELSE "failed")
    BY <1>4, Zenon DEF Q!AskFails, Q!Rejected, Q!ReadFails, Q!Retry
  <2>2. CASE tries[c] = 1
    <3>1. Q!Recycles(c, "retry")
      BY <2>1, <2>2, ZenonT(40)
    <3> QED BY <1>1, <2>2, <3>1, QRecyclesInv, ZenonT(40)
  <2>3. CASE tries[c] # 1
    <3>1. Q!Recycles(c, "failed") /\ tries[c] = 2
      BY <1>2, <2>1, <2>3, ZenonT(40)
    <3> QED BY <1>1, <3>1, QRecyclesInv, ZenonT(40)
  <2> QED BY <2>2, <2>3, Zenon
<1> QED BY <1>3, <1>4, Zenon

\* The bad connection is closed; nobody else's is.
LEMMA QDropPool ==
  ASSUME QInv, NEW c \in Calls, pc[c] = "drop", live' = live \ {using[c]}, conn' = conn,
         pc'[c] # "drop", \A d \in Calls \ {c} : QSame(d)
  PROVE  Q!NoStrayConnection' /\ QUnpooled'
<1>1. using[c] # conn
  BY Zenon DEF QInv, QUnpooled
<1>2. \A d \in Calls : pc'[d] = "drop" => pc[d] = "drop" /\ using'[d] = using[d]
  BY Zenon DEF QSame
<1>3. ASSUME NEW j \in live' PROVE conn = j \/ \E d \in Calls : pc'[d] = "drop" /\ using'[d] = j
  <2>1. j \in live /\ j # using[c]
    BY Zenon
  <2>2. conn = j \/ \E d \in Calls : pc[d] = "drop" /\ using[d] = j
    BY <2>1, Zenon DEF QInv, Q!NoStrayConnection
  <2> QED BY <2>1, <2>2, ZenonT(40) DEF QSame
<1>4. conn # Q!None => conn \in live'
  BY <1>1, Zenon DEF QInv, Q!NoStrayConnection
<1> QED BY <1>2, <1>3, <1>4, ZenonT(40) DEF QInv, Q!NoStrayConnection, QUnpooled

\* recycleConn closes the connection, and the call goes on or fails.
LEMMA QDropInv == ASSUME QInv, NEW c \in Calls, Q!Drop(c) PROVE QInv'
<1>1. /\ pc[c] = "drop" /\ live' = live \ {using[c]} /\ conn' = conn /\ idle' = idle
      /\ after' = [after EXCEPT ![c] = "none"] /\ closed' = closed
      /\ asked' = asked /\ heard' = heard /\ mixed' = mixed
  BY Zenon DEF Q!Drop, Q!Closes, Q!hist
<1>2. live' \subseteq Q!Conns
  BY <1>1, Zenon DEF QInv, Q!TypeOK
<1>3. CASE after[c] = "failed"
  <2>1. PICK why \in {"none", "dial", "pack", "own", "pooled"} : Q!Ends(c, "failed", why)
    BY <1>3, Zenon DEF Q!Drop
  <2>2. /\ pc' \in [Calls -> {"idle", "get", "open", "read", "drop", "answered", "failed"}]
        /\ tries' \in [Calls -> 0..2] /\ opens' \in [Calls -> 0..2]
        /\ using' \in [Calls -> Q!Conns \union {Q!None}]
        /\ stream' \in [Calls -> {"none", "sent", "answer"}]
        /\ after' \in [Calls -> {"none", "reopen", "retry", "failed"}]
        /\ cause' \in [Calls -> {"none", "dial", "pack", "own", "pooled"}] /\ own' \subseteq Calls
        /\ pc'[c] = "failed"
        /\ \A d \in Calls \ {c} : QSame(d)
        /\ \A d \in Calls : QFits(d)'
    BY <1>1, <2>1, QEndsFit, Zenon
  <2>3. Q!TypeOK'
    BY <1>1, <1>2, <2>2, ZenonT(40) DEF QInv, Q!TypeOK
  <2>4. Q!NoStrayConnection' /\ QUnpooled'
    BY <1>1, <2>2, QDropPool, ZenonT(40)
  <2> QED BY <2>2, <2>3, <2>4, ZenonT(40) DEF QInv
<1>4. CASE after[c] # "failed"
  <2>1. /\ pc' = [pc EXCEPT ![c] = "get"]
        /\ tries' = [tries EXCEPT ![c] = IF after[c] = "retry" THEN 2 ELSE tries[c]]
        /\ opens' = [opens EXCEPT ![c] = IF after[c] = "reopen" THEN opens[c] ELSE 0]
        /\ using' = [using EXCEPT ![c] = Q!None]
        /\ stream' = [stream EXCEPT ![c] = "none"]
        /\ own' = own /\ cause' = cause
    BY <1>4, Zenon DEF Q!Drop
  <2>2. /\ tries[c] \in {1, 2} /\ opens[c] \in {1, 2} /\ asked[c] <= tries[c]
        /\ \/ after[c] = "reopen" /\ opens[c] = 1 /\ asked[c] < tries[c]
           \/ after[c] = "retry" /\ tries[c] = 1
    BY <1>1, <1>4, Zenon DEF QInv, QFits
  <2>3. tries[c] \in 0..2 /\ opens[c] \in 0..2 /\ asked[c] \in 0..2
    BY QTyped, Zenon
  <2>4. Q!TypeOK'
    <3>1. tries' \in [Calls -> 0..2]
      BY <2>1, <2>3, QTyped, Small, ZenonT(40)
    <3>2. opens' \in [Calls -> 0..2]
      BY <2>1, <2>3, QTyped, Small, ZenonT(40)
    <3>3. pc' \in [Calls -> {"idle", "get", "open", "read", "drop", "answered", "failed"}]
      BY <2>1, QTyped, Zenon
    <3>4. using' \in [Calls -> Q!Conns \union {Q!None}]
      BY <2>1, QTyped, Zenon
    <3>5. stream' \in [Calls -> {"none", "sent", "answer"}]
      BY <2>1, QTyped, ZenonT(40)
    <3>6. after' \in [Calls -> {"none", "reopen", "retry", "failed"}]
      BY <1>1, QTyped, Zenon
    <3> QED BY <1>1, <1>2, <2>1, <3>1, <3>2, <3>3, <3>4, <3>5, <3>6, ZenonT(40) DEF QInv, Q!TypeOK
  <2>5. /\ pc'[c] = "get" /\ stream'[c] = "none"
        /\ tries'[c] = (IF after[c] = "retry" THEN 2 ELSE tries[c])
        /\ opens'[c] = (IF after[c] = "reopen" THEN opens[c] ELSE 0)
    BY <2>1, QTyped, Zenon
  <2>6. \A d \in Calls \ {c} : QSame(d)
    BY <1>1, <2>1, QTyped, ZenonT(40) DEF QSame
  <2>7. Q!NoStrayConnection' /\ QUnpooled'
    BY <1>1, <2>5, <2>6, QDropPool, ZenonT(40)
  <2>8. QFits(c)'
    <3>1. tries'[c] \in {1, 2} /\ asked[c] < tries'[c] /\ asked[c] <= tries'[c] /\ opens'[c] < 2
      BY <2>2, <2>3, <2>5, SMT, SMTT(30)
    <3> QED BY <1>1, <2>5, <3>1, ZenonT(40) DEF QFits
  <2>9. \A d \in Calls \ {c} : QFits(d)'
    BY <1>1, <2>6, QOthersFit, ZenonT(40) DEF QInv
  <2> QED BY <2>4, <2>7, <2>8, <2>9, Zenon DEF QInv
<1> QED BY <1>3, <1>4, Zenon

\* The query goes out on the stream.
LEMMA QAskInv == ASSUME QInv, NEW c \in Calls, Q!Ask(c) PROVE QInv' /\ asked[c] < 2
<1>1. /\ pc[c] = "open" /\ stream' = [stream EXCEPT ![c] = "sent"]
      /\ asked' = [asked EXCEPT ![c] = asked[c] + 1] /\ pc' = [pc EXCEPT ![c] = "read"]
      /\ tries' = tries /\ opens' = opens /\ conn' = conn /\ idle' = idle /\ live' = live
      /\ using' = using /\ own' = own /\ after' = after /\ cause' = cause /\ closed' = closed
      /\ heard' = heard /\ mixed' = mixed
  BY Zenon DEF Q!Ask, Q!pool
<1>2. /\ tries[c] \in {1, 2} /\ opens[c] \in {1, 2} /\ using[c] \in Q!Conns
      /\ asked[c] < tries[c] /\ asked[c] \in 0..2
  BY <1>1, QTyped, Zenon DEF QInv, QFits
<1>3. asked[c] + 1 <= tries[c] /\ asked[c] + 1 > 0 /\ asked[c] + 1 \in 0..2 /\ asked[c] < 2
  BY <1>2, Small, Zenon
<1>4. Q!TypeOK'
  <2>1. pc' \in [Calls -> {"idle", "get", "open", "read", "drop", "answered", "failed"}]
    BY <1>1, QTyped, Zenon
  <2>2. stream' \in [Calls -> {"none", "sent", "answer"}]
    BY <1>1, QTyped, Zenon
  <2>3. asked' \in [Calls -> 0..2]
    BY <1>1, <1>3, QTyped, ZenonT(40)
  <2> QED BY <1>1, <2>1, <2>2, <2>3, ZenonT(40) DEF QInv, Q!TypeOK
<1>5. /\ pc'[c] = "read" /\ stream'[c] = "sent" /\ asked'[c] = asked[c] + 1
      /\ \A d \in Calls \ {c} : QSame(d)
  BY <1>1, QTyped, Zenon DEF QSame
<1>6. \A d \in Calls : pc[d] = "drop" <=> pc'[d] = "drop"
  BY <1>1, <1>5, Zenon DEF QSame
<1>7. Q!NoStrayConnection' /\ QUnpooled'
  BY <1>1, <1>6, QPoolKept, Zenon
<1>8. QFits(c)'
  BY <1>1, <1>2, <1>3, <1>5, ZenonT(40) DEF QFits
<1>9. \A d \in Calls \ {c} : QFits(d)'
  BY <1>1, <1>5, QOthersFit, ZenonT(40) DEF QInv
<1> QED BY <1>3, <1>4, <1>7, <1>8, <1>9, ZenonT(40) DEF QInv

\* The server answers on the stream of a call that reads.
LEMMA QServerInv ==
  ASSUME QInv, NEW c \in Calls, Q!ServerAnswers(c) PROVE QInv' /\ asked[c] > 0
<1>1. /\ pc[c] = "read" /\ stream' = [stream EXCEPT ![c] = "answer"] /\ heard' = heard \union {c}
      /\ pc' = pc /\ tries' = tries /\ opens' = opens /\ conn' = conn /\ idle' = idle /\ live' = live
      /\ using' = using /\ own' = own /\ after' = after /\ cause' = cause /\ closed' = closed
      /\ asked' = asked /\ mixed' = mixed
  BY Zenon DEF Q!ServerAnswers, Q!pool
<1>2. Q!TypeOK'
  <2>1. stream' \in [Calls -> {"none", "sent", "answer"}] /\ heard' \subseteq Calls
    BY <1>1, QTyped, Zenon DEF QInv, Q!TypeOK
  <2> QED BY <1>1, <2>1, Zenon DEF QInv, Q!TypeOK
<1>3. Q!NoStrayConnection' /\ QUnpooled'
  BY <1>1, QPoolKept, Zenon
<1>4. QFits(c)' /\ asked[c] > 0
  <2>1. QFits(c)
    BY Zenon DEF QInv
  <2> QED BY <1>1, <2>1, Zenon DEF QFits
<1>5. \A d \in Calls \ {c} : QFits(d)'
  <2>1. \A d \in Calls \ {c} : QSame(d)
    BY <1>1, QTyped, Zenon DEF QSame
  <2>2. heard \subseteq heard'
    BY <1>1, Zenon
  <2> QED BY <2>1, <2>2, QOthersFit, ZenonT(40) DEF QInv
<1> QED BY <1>2, <1>3, <1>4, <1>5, ZenonT(40) DEF QInv

\* Close empties the pool; in time the pool ages; and steps that change nothing.
LEMMA QOutsideInv == ASSUME QInv, Q!Close \/ Q!Ages \/ UNCHANGED Q!vars PROVE QInv'
<1>1. /\ pc' = pc /\ tries' = tries /\ opens' = opens /\ using' = using /\ own' = own
      /\ stream' = stream /\ after' = after /\ cause' = cause /\ asked' = asked /\ heard' = heard
      /\ mixed' \subseteq Calls /\ closed' \in {"no", "yes"} /\ idle' \in {"short", "long"}
      /\ \/ live' = live /\ conn' = conn
         \/ live' = live \ {conn} /\ conn' = Q!None
  BY Zenon DEF Q!Close, Q!Ages, Q!vars, Q!hist, QInv, Q!TypeOK, Q!Running
<1>2. Q!TypeOK'
  <2>1. live' \subseteq Q!Conns /\ conn' \in Q!Conns \union {Q!None}
    BY <1>1, Zenon DEF QInv, Q!TypeOK
  <2> QED BY <1>1, <2>1, Zenon DEF QInv, Q!TypeOK
<1>3. \A d \in Calls : QFits(d)'
  BY <1>1, QOthersFit, Zenon DEF QInv, QSame
<1>4. Q!NoStrayConnection' /\ QUnpooled'
  <2>1. CASE live' = live /\ conn' = conn
    BY <1>1, <2>1, QPoolKept, ZenonT(40)
  <2>2. CASE live' = live \ {conn} /\ conn' = Q!None
    <3>1. QUnpooled'
      BY <1>1, <2>2, QRecycledHas, ZenonT(40) DEF QUnpooled
    <3>2. Q!NoStrayConnection'
      BY <1>1, <2>2, Zenon DEF QInv, Q!NoStrayConnection
    <3> QED BY <3>1, <3>2, Zenon
  <2> QED BY <1>1, <2>1, <2>2, ZenonT(40)
<1> QED BY <1>2, <1>3, <1>4, ZenonT(40) DEF QInv

\* Every step of the DoQ resolver keeps the invariant.
LEMMA QNextInv == ASSUME QInv, [Q!Next]_(Q!vars) PROVE QInv'
<1>1. ASSUME NEW c \in Calls, Q!Resolve(c) \/ Q!Step(c) \/ Q!ServerAnswers(c) PROVE QInv'
  BY <1>1, QResolveInv, QReuseInv, QDialInv, QDialFailsInv, QFailureInv, QLeavesInv, QAskInv,
     QDropInv, QServerInv, ZenonT(40) DEF Q!Step
<1> QED BY <1>1, QOutsideInv, ZenonT(40) DEF Q!Next, Q!Steps

-----------------------------------------------------------------------------
\* A connection leaves the pool or is closed only for cause.
LEMMA QSpares == ASSUME QInv, [Q!Next]_(Q!vars) PROVE Q!SparesSiblings
<1> SUFFICES ASSUME NEW k \in Q!Conns,
                    (k \in live /\ k \notin live') \/ (conn = k /\ conn' # k)
             PROVE  \/ \E c \in Calls : using[c] = k /\ "drop" \in {pc[c], pc'[c]}
                    \/ conn = k /\ (idle = "long" \/ closed' # closed)
  BY Zenon DEF Q!SparesSiblings
<1>0. k # Q!None
  BY QTyped, Zenon
<1>1. ~(live' = live /\ conn' = conn)
  BY Zenon
<1>2. CASE Q!Close
  <2>1. live' = live \ {conn} /\ closed' # closed
    BY <1>2, Zenon DEF Q!Close
  <2> QED BY <2>1, Zenon
<1>3. ASSUME NEW c \in Calls, Q!Dial(c) \/ Q!DialFails(c) PROVE conn = k /\ idle = "long"
  <2>1. (conn = Q!None \/ idle = "long") /\ live \ {conn} \subseteq live'
    BY <1>3, Zenon DEF Q!Dial, Q!DialFails
  <2> QED BY <1>0, <2>1, Zenon
<1>4. ASSUME NEW c \in Calls, Q!OpenFails(c) \/ Q!AskFails(c) \/ Q!Rejected(c) \/ Q!ReadFails(c)
      PROVE  using[c] = k /\ pc'[c] = "drop"
  <2>1. PICK next : Q!Recycles(c, next)
    BY <1>4, ZenonT(40) DEF Q!OpenFails, Q!AskFails, Q!Rejected, Q!ReadFails
  <2>2. pc' = [pc EXCEPT ![c] = "drop"] /\ live' = live /\ (conn' # conn => conn = using[c])
    BY <2>1, ZenonT(40) DEF Q!Recycles, Q!Unpools
  <2> QED BY <2>2, QTyped, ZenonT(40)
<1>5. ASSUME NEW c \in Calls, Q!Drop(c) PROVE using[c] = k /\ pc[c] = "drop"
  <2>1. pc[c] = "drop" /\ live' = live \ {using[c]} /\ conn' = conn
    BY <1>5, ZenonT(40) DEF Q!Drop, Q!Closes
  <2> QED BY <2>1, ZenonT(40)
<1>6. ASSUME Q!Ages \/ UNCHANGED Q!vars PROVE FALSE
  BY <1>1, <1>6, ZenonT(40) DEF Q!Ages, Q!vars
<1>7. ASSUME NEW c \in Calls, Q!Resolve(c) \/ Q!Reuse(c) \/ Q!PackFails(c) \/ Q!Answered(c)
                                \/ Q!Ask(c) \/ Q!ServerAnswers(c) PROVE FALSE
  BY <1>1, <1>7, ZenonT(40) DEF Q!Resolve, Q!Reuse, Q!PackFails, Q!Answered, Q!Ask, Q!ServerAnswers, Q!pool
<1>8. ASSUME NEW c \in Calls, Q!Resolve(c) \/ Q!Step(c) \/ Q!ServerAnswers(c)
      PROVE  \/ using[c] = k /\ "drop" \in {pc[c], pc'[c]}
             \/ conn = k /\ idle = "long"
  BY <1>3, <1>4, <1>5, <1>7, <1>8, ZenonT(40) DEF Q!Step
<1> QED BY <1>2, <1>6, <1>8, ZenonT(40) DEF Q!Next, Q!Steps

-----------------------------------------------------------------------------
\* Of two calls that run, both overlap another.
QAlone == \A c, d \in Calls : c # d /\ c \in Q!Running /\ d \in Q!Running => c \in mixed

\* A call that runs alone has what it uses in the pool, empties the pool when
\* it fails, and so dials whenever it is not on its first connection.
QLoneFits(c) ==
  /\ pc[c] = "get" => (tries[c] = 1 /\ opens[c] = 0) \/ conn = Q!None
  /\ pc[c] \in {"open", "read"} => using[c] = conn
  /\ pc[c] = "drop" => conn = Q!None
  /\ pc[c] \in {"open", "read", "drop"} => c \in own \/ (tries[c] = 1 /\ opens[c] = 1)
  /\ pc[c] = "failed" => cause[c] # "pooled"

QLone == \A c \in Calls : c \notin mixed => QLoneFits(c)

\* A call at work is the only one that may run alone.
LEMMA QOthersLone ==
  ASSUME QAlone, QLone, NEW c \in Calls, c \in Q!Running, mixed' = mixed,
         NEW d \in Calls, d # c, d \notin mixed, pc'[d] = pc[d], cause'[d] = cause[d]
  PROVE  QLoneFits(d)'
<1>1. pc[d] \in {"idle", "answered", "failed"}
  BY Zenon DEF QAlone, Q!Running
<1> QED BY <1>1, ZenonT(40) DEF QLone, QLoneFits

\* A step of one call that runs keeps what it says of the others.
LEMMA QStepLone ==
  ASSUME QInv, QAlone, QLone, NEW c \in Calls, pc[c] \in {"get", "open", "read", "drop"},
         mixed' = mixed, NEW stage, pc' = [pc EXCEPT ![c] = stage],
         \A d \in Calls \ {c} : cause'[d] = cause[d], c \notin mixed => QLoneFits(c)'
  PROVE  QAlone' /\ QLone'
<1>1. \A d \in Calls \ {c} : pc'[d] = pc[d]
  BY QTyped, ZenonT(40)
<1>2. c \in Q!Running
  BY Zenon DEF Q!Running
<1>3. Q!Running' \subseteq Q!Running
  BY <1>1, <1>2, ZenonT(40) DEF Q!Running
<1>4. QAlone'
  BY <1>3, Zenon DEF QAlone
<1>5. ASSUME NEW d \in Calls, d # c, d \notin mixed PROVE QLoneFits(d)'
  BY <1>1, <1>2, <1>5, QOthersLone, ZenonT(40)
<1> QED BY <1>4, <1>5, ZenonT(40) DEF QLone

\* Taking a connection, asking on it and being answered.
LEMMA QProgressLone ==
  ASSUME QInv, QAlone, QLone, NEW c \in Calls, Q!Reuse(c) \/ Q!Dial(c) \/ Q!Ask(c)
  PROVE  QAlone' /\ QLone'
<1>1. CASE Q!Reuse(c) \/ Q!Dial(c)
  <2>1. /\ pc[c] = "get" /\ mixed' = mixed /\ cause' = cause /\ tries' = tries
        /\ pc' = [pc EXCEPT ![c] = "open"] /\ opens' = [opens EXCEPT ![c] = opens[c] + 1]
        /\ using' = [using EXCEPT ![c] = conn']
        /\ c \in own' \/ (conn # Q!None)
    BY <1>1, ZenonT(40) DEF Q!Reuse, Q!Dial, Q!Takes, Q!pool, Q!hist
  <2>2. pc'[c] = "open" /\ using'[c] = conn' /\ opens'[c] = opens[c] + 1 /\ tries'[c] = tries[c]
    BY <2>1, QTyped, ZenonT(40)
  <2>3. ASSUME c \notin mixed PROVE QLoneFits(c)'
    <3>1. (tries[c] = 1 /\ opens[c] = 0) \/ conn = Q!None
      BY <2>1, <2>3, ZenonT(40) DEF QLone, QLoneFits
    <3>2. c \in own' \/ (tries'[c] = 1 /\ opens'[c] = 1)
      BY <2>1, <2>2, <3>1, SMT, SMTT(30)
    <3> QED BY <2>2, <3>2, ZenonT(40) DEF QLoneFits
  <2> QED BY <2>1, <2>3, QStepLone, ZenonT(40)
<1>2. CASE Q!Ask(c)
  <2>1. /\ pc[c] = "open" /\ mixed' = mixed /\ cause' = cause /\ tries' = tries /\ opens' = opens
        /\ pc' = [pc EXCEPT ![c] = "read"] /\ using' = using /\ conn' = conn /\ own' = own
    BY <1>2, Zenon DEF Q!Ask, Q!pool
  <2>2. pc'[c] = "read"
    BY <2>1, QTyped, Zenon
  <2>3. ASSUME c \notin mixed PROVE QLoneFits(c)'
    <3>1. QLoneFits(c)
      BY <2>3, Zenon DEF QLone
    <3> QED BY <2>1, <2>2, <3>1, Zenon DEF QLoneFits
  <2> QED BY <2>1, <2>3, QStepLone, Zenon
<1> QED BY <1>1, <1>2, ZenonT(40)

\* Ends that are no fault of a connection.
LEMMA QEndsLone ==
  ASSUME QInv, QAlone, QLone, NEW c \in Calls, Q!DialFails(c) \/ Q!PackFails(c) \/ Q!Answered(c)
  PROVE  QAlone' /\ QLone'
<1>1. PICK how \in {"answered", "failed"}, why \in {"none", "dial", "pack"} : Q!Ends(c, how, why)
  BY Zenon DEF Q!DialFails, Q!PackFails, Q!Answered
<1>2. pc[c] \in {"get", "open", "read"} /\ mixed' = mixed
  BY Zenon DEF Q!DialFails, Q!PackFails, Q!Answered, Q!hist
<1>3. pc' = [pc EXCEPT ![c] = how] /\ cause' = [cause EXCEPT ![c] = why]
  BY <1>1, ZenonT(40) DEF Q!Ends
<1>4. pc'[c] = how /\ cause'[c] = why /\ \A d \in Calls \ {c} : cause'[d] = cause[d]
  BY <1>3, QTyped, ZenonT(40)
<1>5. QLoneFits(c)'
  BY <1>4, ZenonT(40) DEF QLoneFits
<1> QED BY <1>2, <1>3, <1>4, <1>5, QStepLone, ZenonT(40)

\* A failure of the one call at work leaves nothing in the pool.
LEMMA QFailureLone ==
  ASSUME QInv, QAlone, QLone, NEW c \in Calls,
         Q!OpenFails(c) \/ Q!AskFails(c) \/ Q!Rejected(c) \/ Q!ReadFails(c)
  PROVE  QAlone' /\ QLone'
<1>1. PICK next : Q!Recycles(c, next)
  BY Zenon DEF Q!OpenFails, Q!AskFails, Q!Rejected, Q!ReadFails
<1>2. pc[c] \in {"open", "read"} /\ mixed' = mixed
  BY Zenon DEF Q!OpenFails, Q!AskFails, Q!Rejected, Q!ReadFails, Q!hist
<1>3. /\ pc' = [pc EXCEPT ![c] = "drop"] /\ cause' = cause /\ own' = own /\ tries' = tries
      /\ opens' = opens /\ (conn = using[c] => conn' = Q!None)
  BY <1>1, ZenonT(40) DEF Q!Recycles, Q!Unpools
<1>4. pc'[c] = "drop"
  BY <1>3, QTyped, ZenonT(40)
<1>5. ASSUME c \notin mixed PROVE QLoneFits(c)'
  <2>1. using[c] = conn /\ (c \in own \/ (tries[c] = 1 /\ opens[c] = 1))
    BY <1>2, <1>5, ZenonT(40) DEF QLone, QLoneFits
  <2> QED BY <1>3, <1>4, <2>1, ZenonT(40) DEF QLoneFits
<1> QED BY <1>2, <1>3, <1>5, QStepLone, ZenonT(40)

\* The call that recycled its connection fails only on one it dialled.
LEMMA QDropLone ==
  ASSUME QInv, QAlone, QLone, NEW c \in Calls, Q!Drop(c) PROVE QAlone' /\ QLone'
<1>1. pc[c] = "drop" /\ mixed' = mixed /\ conn' = conn
  BY Zenon DEF Q!Drop, Q!Closes, Q!hist
<1>2. CASE after[c] = "failed"
  <2>1. Q!Ends(c, "failed", IF c \in own THEN "own" ELSE "pooled")
    BY <1>2, ZenonT(40) DEF Q!Drop
  <2>2. /\ pc' = [pc EXCEPT ![c] = "failed"]
        /\ cause' = [cause EXCEPT ![c] = IF c \in own THEN "own" ELSE "pooled"]
    BY <2>1, ZenonT(40) DEF Q!Ends
  <2>3. /\ pc'[c] = "failed" /\ cause'[c] = (IF c \in own THEN "own" ELSE "pooled")
        /\ \A d \in Calls \ {c} : cause'[d] = cause[d]
    BY <2>2, QTyped, ZenonT(40)
  <2>4. ASSUME c \notin mixed PROVE QLoneFits(c)'
    <3>1. opens[c] = 2 \/ tries[c] = 2
      BY <1>1, <1>2, ZenonT(40) DEF QInv, QFits
    <3>2. c \in own \/ (tries[c] = 1 /\ opens[c] = 1)
      BY <1>1, <2>4, ZenonT(40) DEF QLone, QLoneFits
    <3>3. c \in own
      BY <3>1, <3>2, SMT, SMTT(30)
    <3> QED BY <2>3, <3>3, ZenonT(40) DEF QLoneFits
  <2> QED BY <1>1, <2>2, <2>3, <2>4, QStepLone, ZenonT(40)
<1>3. CASE after[c] # "failed"
  <2>1. pc' = [pc EXCEPT ![c] = "get"] /\ cause' = cause
    BY <1>3, Zenon DEF Q!Drop
  <2>2. pc'[c] = "get"
    BY <2>1, QTyped, ZenonT(40)
  <2>3. ASSUME c \notin mixed PROVE QLoneFits(c)'
    <3>1. conn = Q!None
      BY <1>1, <2>3, ZenonT(40) DEF QLone, QLoneFits
    <3> QED BY <1>1, <2>2, <3>1, ZenonT(40) DEF QLoneFits
  <2> QED BY <1>1, <2>1, <2>3, QStepLone, ZenonT(40)
<1> QED BY <1>2, <1>3, ZenonT(40)

\* Resolve notes whom it overlaps.
LEMMA QResolveLone ==
  ASSUME QInv, QAlone, QLone, NEW c \in Calls, Q!Resolve(c) PROVE QAlone' /\ QLone'
<1>1. /\ pc[c] = "idle" /\ pc' = [pc EXCEPT ![c] = "get"] /\ tries' = [tries EXCEPT ![c] = 1]
      /\ opens' = opens /\ cause' = cause
      /\ mixed' = IF Q!Running # {} THEN mixed \union Q!Running \union {c} ELSE mixed
  BY Zenon DEF Q!Resolve
<1>2. pc'[c] = "get" /\ tries'[c] = 1 /\ \A d \in Calls \ {c} : pc'[d] = pc[d]
  BY <1>1, QTyped, ZenonT(40)
<1>3. Q!Running' = Q!Running \union {c}
  BY <1>2, ZenonT(40) DEF Q!Running
<1>4. QAlone'
  BY <1>1, <1>3, ZenonT(40) DEF QAlone
<1>5. QLoneFits(c)'
  <2>1. opens[c] = 0
    BY <1>1, ZenonT(40) DEF QInv, QFits
  <2> QED BY <1>1, <1>2, <2>1, ZenonT(40) DEF QLoneFits
<1>6. ASSUME NEW d \in Calls, d # c, d \notin mixed' PROVE QLoneFits(d)'
  <2>1. d \notin mixed /\ d \notin Q!Running
    BY <1>1, <1>6, ZenonT(40)
  <2>2. pc'[d] = pc[d] /\ pc[d] \in {"idle", "answered", "failed"}
    BY <1>2, <1>6, <2>1, ZenonT(40) DEF Q!Running
  <2> QED BY <1>1, <2>1, <2>2, ZenonT(40) DEF QLone, QLoneFits
<1> QED BY <1>4, <1>5, <1>6, ZenonT(40) DEF QLone

\* The server, the clock and Close.
LEMMA QOutsideLone ==
  ASSUME QAlone, QLone, Q!Close \/ Q!Ages \/ (\E c \in Calls : Q!ServerAnswers(c)) \/ UNCHANGED Q!vars
  PROVE  QAlone' /\ QLone'
<1>1. CASE Q!Close
  <2>1. pc' = pc /\ cause' = cause /\ mixed' = mixed \union Q!Running
    BY <1>1, Zenon DEF Q!Close
  <2>2. Q!Running' = Q!Running
    BY <2>1, Zenon DEF Q!Running
  <2>3. \A c \in Calls : c \notin mixed' => pc[c] \in {"idle", "answered", "failed"}
    BY <2>1, Zenon DEF Q!Running
  <2>4. QAlone'
    BY <2>1, <2>2, ZenonT(40) DEF QAlone
  <2> QED BY <2>1, <2>3, <2>4, ZenonT(40) DEF QLone, QLoneFits
<1>2. CASE Q!Ages \/ (\E c \in Calls : Q!ServerAnswers(c)) \/ UNCHANGED Q!vars
  <2>1. /\ pc' = pc /\ cause' = cause /\ mixed' = mixed /\ tries' = tries /\ opens' = opens
        /\ own' = own /\ conn' = conn /\ using' = using
    BY <1>2, Zenon DEF Q!Ages, Q!ServerAnswers, Q!pool, Q!vars, Q!hist
  <2> QED BY <2>1, ZenonT(40) DEF QAlone, QLone, QLoneFits, Q!Running
<1> QED BY <1>1, <1>2, ZenonT(40)

\* Every step keeps what is said of calls that run alone.
LEMMA QNextLone == ASSUME QInv, QAlone, QLone, [Q!Next]_(Q!vars) PROVE QAlone' /\ QLone'
<1>1. ASSUME NEW c \in Calls, Q!Resolve(c) \/ Q!Step(c) PROVE QAlone' /\ QLone'
  BY <1>1, QResolveLone, QProgressLone, QEndsLone, QFailureLone, QDropLone, ZenonT(40) DEF Q!Step
<1> QED BY <1>1, QOutsideLone, ZenonT(40) DEF Q!Next, Q!Steps

\* The resolver starts without calls.
LEMMA QInitLone == Q!Init => QAlone /\ QLone
BY Zenon DEF Q!Init, QAlone, QLone, QLoneFits, Q!Running

-----------------------------------------------------------------------------
(* DoH                                                                     *)

\* A query is posted once, and what is on the call's stream was heard.
HFits(c) ==
  /\ pc[c] \in {"idle", "pack"} => asked[c] = 0
  /\ pc[c] = "read" => asked[c] > 0
  /\ stream[c] = "sent" => asked[c] > 0
  /\ stream[c] = "answer" => c \in heard

HInv == H!TypeOK /\ \A c \in Calls : HFits(c)

\* The types of what a DoH step changes.
LEMMA HTyped ==
  ASSUME HInv
  PROVE  /\ pc \in [Calls -> {"idle", "pack", "read", "answered", "failed"}]
         /\ stream \in [Calls -> {"none", "sent", "answer", "aborted"}]
         /\ asked \in [Calls -> 0..1]
BY Zenon DEF HInv, H!TypeOK

\* No call has begun.
LEMMA HInitInv == H!Init => HInv
<1>1. 0 \in 0..1
  BY SMT, SMTT(30)
<1>2. H!Init => H!TypeOK
  BY <1>1, ZenonT(40) DEF H!Init, H!TypeOK
<1>3. H!Init => \A c \in Calls : HFits(c)
  BY Zenon DEF H!Init, HFits
<1> QED BY <1>2, <1>3, ZenonT(40) DEF HInv

\* The steps of one call, and the server's answer to it.
LEMMA HCallInv ==
  ASSUME HInv, NEW c \in Calls, H!Resolve(c) \/ H!Step(c) \/ H!ServerAnswers(c)
  PROVE  HInv'
<1> DEFINE pcs == {"idle", "pack", "read", "answered", "failed"}
           streams == {"none", "sent", "answer", "aborted"}
           becomes(stage, s, n) ==
             /\ pc' = [pc EXCEPT ![c] = stage] /\ stream' = [stream EXCEPT ![c] = s]
             /\ asked' = [asked EXCEPT ![c] = n]
             /\ stage \in {"idle", "pack"} => n = 0
             /\ (stage = "read" => n > 0) /\ (s = "sent" => n > 0) /\ (s = "answer" => c \in heard')
             /\ (heard' = heard \/ heard' = heard \union {c})
<1>1. h3' = h3 /\ closed' = closed
  BY Zenon DEF H!Resolve, H!Step, H!ServerAnswers, H!PackFails, H!Post, H!PostFails, H!Answered,
               H!Rejected, H!Ends
<1>2. PICK stage \in pcs, s \in streams, n \in 0..1 : becomes(stage, s, n)
  <2>0. /\ pc = [pc EXCEPT ![c] = pc[c]] /\ stream = [stream EXCEPT ![c] = stream[c]]
        /\ asked = [asked EXCEPT ![c] = asked[c]]
        /\ pc[c] \in pcs /\ stream[c] \in streams /\ asked[c] \in 0..1
        /\ pc[c] \in {"idle", "pack"} => asked[c] = 0
        /\ (pc[c] = "read" => asked[c] > 0) /\ (stream[c] = "sent" => asked[c] > 0)
        /\ (stream[c] = "answer" => c \in heard)
    BY HTyped, Zenon DEF HInv, HFits
  <2>1. CASE H!Resolve(c)
    <3>1. pc[c] = "idle" /\ pc' = [pc EXCEPT ![c] = "pack"] /\ stream' = stream /\ asked' = asked /\ heard' = heard
      BY <2>1, ZenonT(40) DEF H!Resolve
    <3>2. becomes("pack", stream[c], asked[c])
      BY <2>0, <3>1, ZenonT(40)
    <3> QED BY <2>0, <3>2, ZenonT(40)
  <2>2. CASE H!PackFails(c) \/ H!PostFails(c) \/ H!Answered(c) \/ H!Rejected(c)
    <3>1. PICK how \in {"answered", "failed"} : H!Ends(c, how)
      BY <2>2, ZenonT(40) DEF H!PackFails, H!PostFails, H!Answered, H!Rejected
    <3>2. pc' = [pc EXCEPT ![c] = how] /\ stream' = [stream EXCEPT ![c] = "none"] /\ asked' = asked /\ heard' = heard
      BY <3>1, ZenonT(40) DEF H!Ends
    <3>3. how \in pcs /\ how \notin {"idle", "pack", "read"}
      BY Zenon
    <3>4. becomes(how, "none", asked[c])
      BY <2>0, <3>2, <3>3, ZenonT(40)
    <3> QED BY <2>0, <3>3, <3>4, ZenonT(40)
  <2>3. CASE H!Post(c)
    <3>1. /\ pc[c] = "pack" /\ pc' = [pc EXCEPT ![c] = "read"] /\ stream' = [stream EXCEPT ![c] = "sent"]
          /\ asked' = [asked EXCEPT ![c] = asked[c] + 1] /\ heard' = heard
      BY <2>3, ZenonT(40) DEF H!Post
    <3>2. asked[c] + 1 = 1 /\ 1 \in 0..1 /\ 1 > 0
      BY <2>0, <3>1, SMT, SMTT(30)
    <3>3. becomes("read", "sent", 1)
      BY <2>0, <3>1, <3>2, Zenon
    <3> QED BY <3>2, <3>3, ZenonT(40)
  <2>4. CASE H!ServerAnswers(c)
    <3>1. /\ pc' = pc /\ stream' = [stream EXCEPT ![c] = "answer"] /\ asked' = asked
          /\ heard' = heard \union {c}
      BY <2>4, Zenon DEF H!ServerAnswers
    <3>2. becomes(pc[c], "answer", asked[c])
      BY <2>0, <3>1, Zenon
    <3> QED BY <2>0, <3>2, Zenon
  <2> QED BY <2>1, <2>2, <2>3, <2>4, ZenonT(40) DEF H!Step
<1>3. H!TypeOK'
  <2>1. pc' \in [Calls -> pcs]
    BY <1>2, HTyped, ZenonT(40)
  <2>2. stream' \in [Calls -> streams]
    BY <1>2, HTyped, ZenonT(40)
  <2>3. asked' \in [Calls -> 0..1]
    BY <1>2, HTyped, ZenonT(40)
  <2>4. heard' \subseteq Calls
    BY <1>2, ZenonT(40) DEF HInv, H!TypeOK
  <2> QED BY <1>1, <2>1, <2>2, <2>3, <2>4, Zenon DEF HInv, H!TypeOK
<1>4. HFits(c)'
  <2>1. pc'[c] = stage /\ stream'[c] = s /\ asked'[c] = n
    BY <1>2, HTyped, ZenonT(40)
  <2> QED BY <1>2, <2>1, ZenonT(40) DEF HFits
<1>5. ASSUME NEW d \in Calls, d # c PROVE HFits(d)'
  <2>1. pc'[d] = pc[d] /\ stream'[d] = stream[d] /\ asked'[d] = asked[d]
    BY <1>2, <1>5, HTyped, ZenonT(40)
  <2>2. HFits(d) /\ (d \in heard => d \in heard')
    BY <1>2, Zenon DEF HInv
  <2> QED BY <2>1, <2>2, ZenonT(40) DEF HFits
<1> QED BY <1>3, <1>4, <1>5, ZenonT(40) DEF HInv

\* Every step of the DoH resolver keeps the invariant.
LEMMA HNextInv == ASSUME HInv, [H!Next]_(H!vars) PROVE HInv'
<1>1. CASE H!Close
  <2>1. /\ pc' = pc /\ h3' = h3 /\ asked' = asked /\ heard' = heard /\ closed' = "yes"
        /\ stream' = [c \in Calls |-> IF h3 = "h3" /\ pc[c] = "read" THEN "aborted" ELSE stream[c]]
    BY <1>1, Zenon DEF H!Close
  <2>2. stream' \in [Calls -> {"none", "sent", "answer", "aborted"}]
    BY <2>1, HTyped, ZenonT(40)
  <2>3. H!TypeOK'
    BY <2>1, <2>2, ZenonT(40) DEF HInv, H!TypeOK
  <2>4. ASSUME NEW c \in Calls PROVE HFits(c)'
    <3>1. stream'[c] = "aborted" \/ stream'[c] = stream[c]
      BY <2>1, ZenonT(40)
    <3> QED BY <2>1, <3>1, ZenonT(40) DEF HInv, HFits
  <2> QED BY <2>3, <2>4, ZenonT(40) DEF HInv
<1>2. CASE UNCHANGED H!vars
  BY <1>2, ZenonT(40) DEF H!vars, HInv, H!TypeOK, HFits
<1> QED BY <1>1, <1>2, HCallInv, ZenonT(40) DEF H!Next, H!Steps

-----------------------------------------------------------------------------
(* The resolver of whichever protocol                                      *)

\* The invariant of the protocol that the upstream is configured for.
AllInv ==
  /\ proto = "DoT" => IInv /\ Alone /\ Lone
  /\ proto = "DoQ" => QInv /\ QAlone /\ QLone
  /\ proto = "DoH" => HInv

NextAny == NextDoT \/ NextDoQ \/ NextDoH

\* A resolver keeps its protocol and takes the steps of it.
LEMMA ProtocolKept ==
  ASSUME [NextAny]_allVars
  PROVE  /\ proto' = proto
         /\ proto = "DoT" => [Next]_vars
         /\ proto = "DoQ" => [Q!Next]_(Q!vars)
         /\ proto = "DoH" => [H!Next]_(H!vars)
<1>1. CASE NextDoT
  BY <1>1, ZenonT(40) DEF NextDoT
<1>2. CASE NextDoQ
  BY <1>2, ZenonT(40) DEF NextDoQ
<1>3. CASE NextDoH
  BY <1>3, ZenonT(40) DEF NextDoH
<1>4. CASE UNCHANGED allVars
  BY <1>4, ZenonT(40) DEF allVars, vars, Q!vars, H!vars
<1> QED BY <1>1, <1>2, <1>3, <1>4, ZenonT(40) DEF NextAny

\* The invariant holds whichever protocol the upstream has.
THEOREM TransportsInvariance == SpecTransports => []AllInv
<1>1. InitTransports => AllInv
  BY InitIInv, InitLone, QInitInv, QInitLone, HInitInv, ZenonT(40) DEF InitTransports, AllInv
<1>2. AllInv /\ [NextAny]_allVars => AllInv'
  <2> SUFFICES ASSUME AllInv, [NextAny]_allVars PROVE AllInv'
    BY Zenon
  <2>1. /\ proto' = proto
        /\ proto = "DoT" => [Next]_vars
        /\ proto = "DoQ" => [Q!Next]_(Q!vars)
        /\ proto = "DoH" => [H!Next]_(H!vars)
    BY ProtocolKept, Zenon
  <2>2. ASSUME proto = "DoT" PROVE IInv' /\ Alone' /\ Lone'
    BY <2>1, <2>2, NextIInv, NextLone, ZenonT(40) DEF AllInv
  <2>3. ASSUME proto = "DoQ" PROVE QInv' /\ QAlone' /\ QLone'
    BY <2>1, <2>3, QNextInv, QNextLone, ZenonT(40) DEF AllInv
  <2>4. ASSUME proto = "DoH" PROVE HInv'
    BY <2>1, <2>4, HNextInv, ZenonT(40) DEF AllInv
  <2> QED BY <2>1, <2>2, <2>3, <2>4, ZenonT(40) DEF AllInv
<1> QED BY <1>1, <1>2, PTL DEF SpecTransports, NextAny

\* Every variable keeps its type, for any number of calls and connections; so
\* no call asks or opens a stream more than twice, and over DoH not twice.
THEOREM TransportsTyped == SpecTransports => []TransportTypeOK
<1>1. ASSUME AllInv, proto \in {"DoT", "DoQ", "DoH"} PROVE TransportTypeOK
  BY <1>1, Zenon DEF AllInv, TransportTypeOK, IInv, QInv, HInv
<1>2. InitTransports => proto \in {"DoT", "DoQ", "DoH"}
  BY Zenon DEF InitTransports
<1>3. proto \in {"DoT", "DoQ", "DoH"} /\ [NextAny]_allVars => (proto \in {"DoT", "DoQ", "DoH"})'
  BY ProtocolKept, ZenonT(40)
<1> QED BY <1>1, <1>2, <1>3, TransportsInvariance, PTL DEF SpecTransports, NextAny

\* No resolver loses track of a connection, however calls, failures, the idle
\* clock and Close interleave: over DoQ what is open is pooled, or a call is in
\* recycleConn about to close it.
THEOREM TransportsLoseNone == SpecTransports => []NoneStray
<1>1. AllInv => NoneStray
  BY ZenonT(40) DEF AllInv, NoneStray, IInv, QInv
<1> QED BY <1>1, TransportsInvariance, PTL

\* A call of Resolve that ran alone does not fail on the connection it found in
\* the pool, over DoT and over DoQ.
THEOREM LoneCallsRecover == SpecTransports => []LoneCallRecovers
<1>1. AllInv => LoneCallRecovers
  <2> SUFFICES ASSUME AllInv, proto \in {"DoT", "DoQ"} PROVE StalePoolAbsorbed
    BY Zenon DEF LoneCallRecovers
  <2>1. CASE proto = "DoT"
    BY <2>1, Zenon DEF AllInv, Lone, LoneFits, StalePoolAbsorbed
  <2>2. CASE proto = "DoQ"
    BY <2>2, Zenon DEF AllInv, QLone, QLoneFits, StalePoolAbsorbed
  <2> QED BY <2>1, <2>2, ZenonT(40)
<1> QED BY <1>1, TransportsInvariance, PTL

\* recycleConn closes nothing but the connection its own call failed on: one
\* leaves the pool or is closed only by such a call, aged, or at Close.
THEOREM SiblingsAreSpared == SpecTransports => DoQSiblingsSpared
<1>1. AllInv /\ [NextAny]_allVars => [proto = "DoQ" => Q!SparesSiblings]_allVars
  <2> SUFFICES ASSUME AllInv, [NextAny]_allVars, proto = "DoQ" PROVE Q!SparesSiblings
    BY Zenon
  <2>1. QInv /\ [Q!Next]_(Q!vars)
    BY ProtocolKept, ZenonT(40) DEF AllInv
  <2> QED BY <2>1, QSpares, ZenonT(40)
<1> QED BY <1>1, TransportsInvariance, PTL DEF SpecTransports, NextAny, DoQSiblingsSpared

-----------------------------------------------------------------------------
\* What the chain sees of the calls.
Merged == [c \in Calls |-> OutcomeIn(c)]

\* A stage of a DoQ or DoH call, as the chain sees it.
Seen(stage) == IF stage \in {"idle", "answered", "failed"} THEN stage ELSE "pending"

\* Over DoT the chain sees what DoT says.
LEMMA DoTSeen ==
  ASSUME IInv, [Next]_vars, proto = "DoT", proto' = proto
  PROVE  AsTransport!Next \/ UNCHANGED <<Merged, asked, heard>>
<1>1. \A c \in Calls : OutcomeIn(c) = OutcomeOf(c) /\ OutcomeIn(c)' = OutcomeOf(c)'
  BY Zenon DEF OutcomeIn
<1> HIDE DEF OutcomeIn, OutcomeOf
<1>2. Merged = Outcomes /\ Merged' = Outcomes'
  BY <1>1, Zenon DEF Merged, Outcomes
<1>3. CASE UNCHANGED <<Outcomes, asked, heard>>
  BY <1>2, <1>3, ZenonT(40)
<1>4. ASSUME NEW c \in Calls,
             Abstract!Begin(c) \/ Abstract!Ask(c) \/ Abstract!Hear(c) \/ Abstract!Answer(c) \/ Abstract!Fail(c)
      PROVE  \/ AsTransport!Begin(c) \/ AsTransport!Ask(c) \/ AsTransport!Hear(c)
             \/ AsTransport!Answer(c) \/ AsTransport!Fail(c)
  <2>1. CASE Abstract!Begin(c)
    BY <1>2, <2>1, ZenonT(40) DEF Abstract!Begin, AsTransport!Begin, Merged, Outcomes
  <2>2. CASE Abstract!Ask(c)
    BY <1>2, <2>2, ZenonT(40) DEF Abstract!Ask, AsTransport!Ask, Merged, Outcomes, Abstract!MaxTries, AsTransport!MaxTries
  <2>3. CASE Abstract!Hear(c)
    BY <1>2, <2>3, Zenon DEF Abstract!Hear, AsTransport!Hear, Merged, Outcomes
  <2>4. CASE Abstract!Answer(c)
    BY <1>2, <2>4, Zenon DEF Abstract!Answer, AsTransport!Answer, Merged, Outcomes
  <2>5. CASE Abstract!Fail(c)
    BY <1>2, <2>5, Zenon DEF Abstract!Fail, AsTransport!Fail, Merged, Outcomes
  <2> QED BY <1>4, <2>1, <2>2, <2>3, <2>4, <2>5, ZenonT(40)
<1>5. CASE Abstract!Next
  BY <1>4, <1>5, ZenonT(40) DEF Abstract!Next, AsTransport!Next
<1> QED BY <1>3, <1>5, StepImplements, ZenonT(40)

\* A step that takes one DoQ or DoH call to another stage, as the chain sees it.
LEMMA StageSeen ==
  ASSUME proto # "DoT", proto' = proto, NEW S, pc \in [Calls -> S], NEW c \in Calls, NEW stage,
         pc' = [pc EXCEPT ![c] = stage]
  PROVE  Merged[c] = Seen(pc[c]) /\ Merged' = [Merged EXCEPT ![c] = Seen(stage)]
<1>1. \A d \in Calls : OutcomeIn(d) = Seen(pc[d]) /\ OutcomeIn(d)' = Seen(pc'[d])
  BY Zenon DEF OutcomeIn, Q!OutcomeOf, Seen
<1>2. pc'[c] = stage /\ \A d \in Calls \ {c} : pc'[d] = pc[d]
  BY Zenon
<1> HIDE DEF OutcomeIn, Seen
<1>3. Merged = [d \in Calls |-> Seen(pc[d])] /\ Merged' = [d \in Calls |-> Seen(pc'[d])]
  BY <1>1, Zenon DEF Merged
<1> QED BY <1>2, <1>3, ZenonT(40)

\* A DoQ or DoH step that changes no stage is not seen.
LEMMA StageKept ==
  ASSUME proto # "DoT", proto' = proto, pc' = pc PROVE Merged' = Merged
BY Zenon DEF Merged, OutcomeIn, Q!OutcomeOf

\* A DoQ or DoH call that stays under way, or ends.
LEMMA CallSeen ==
  ASSUME proto # "DoT", proto' = proto, NEW S, pc \in [Calls -> S], NEW c \in Calls, NEW stage,
         pc' = [pc EXCEPT ![c] = stage], pc[c] \notin {"idle", "answered", "failed"},
         asked' = asked, heard' = heard, stage # "idle", stage = "answered" => c \in heard
  PROVE  AsTransport!Next \/ UNCHANGED <<Merged, asked, heard>>
<1>1. Merged[c] = "pending" /\ Merged' = [Merged EXCEPT ![c] = Seen(stage)]
  BY StageSeen, ZenonT(40) DEF Seen
<1> HIDE DEF OutcomeIn
<1>2. CASE stage = "answered"
  <2>1. AsTransport!Answer(c)
    BY <1>1, <1>2, ZenonT(40) DEF AsTransport!Answer, Merged, Seen
  <2> QED BY <2>1, Zenon DEF AsTransport!Next
<1>3. CASE stage = "failed"
  <2>1. AsTransport!Fail(c)
    BY <1>1, <1>3, ZenonT(40) DEF AsTransport!Fail, Merged, Seen
  <2> QED BY <2>1, Zenon DEF AsTransport!Next
<1>4. CASE stage \notin {"answered", "failed"}
  <2>1. Merged' = [Merged EXCEPT ![c] = "pending"]
    BY <1>1, <1>4, ZenonT(40) DEF Seen
  <2>2. Merged \in [Calls -> {Merged[d] : d \in Calls}]
    BY Zenon DEF Merged
  <2>3. Merged' = Merged
    BY <1>1, <2>1, <2>2, ZenonT(40)
  <2> QED BY <2>3, Zenon
<1> QED BY <1>2, <1>3, <1>4, ZenonT(40)

\* The beginning of a DoQ or DoH call, as the chain sees it.
LEMMA BeginSeen ==
  ASSUME proto # "DoT", proto' = proto, NEW S, pc \in [Calls -> S], NEW c \in Calls, NEW stage,
         pc' = [pc EXCEPT ![c] = stage], pc[c] = "idle", asked' = asked, heard' = heard,
         stage \notin {"idle", "answered", "failed"}
  PROVE  AsTransport!Next
<1>1. Merged[c] = "idle" /\ Merged' = [Merged EXCEPT ![c] = "pending"]
  BY StageSeen, Zenon DEF Seen
<1> HIDE DEF OutcomeIn
<1>2. AsTransport!Begin(c)
  BY <1>1, Zenon DEF AsTransport!Begin, Merged
<1> QED BY <1>2, Zenon DEF AsTransport!Next

\* The sending of a query, as the chain sees it.
LEMMA AskSeen ==
  ASSUME proto # "DoT", proto' = proto, NEW S, pc \in [Calls -> S], NEW c \in Calls, NEW stage,
         pc' = [pc EXCEPT ![c] = stage], pc[c] \notin {"idle", "answered", "failed"},
         stage \notin {"idle", "answered", "failed"}, asked[c] < 2,
         asked' = [asked EXCEPT ![c] = @ + 1], heard' = heard
  PROVE  AsTransport!Next
<1>1. Merged[c] = "pending" /\ Merged' = [Merged EXCEPT ![c] = "pending"]
  BY StageSeen, Zenon DEF Seen
<1> HIDE DEF OutcomeIn
<1>2. Merged \in [Calls -> {Merged[d] : d \in Calls}]
  BY Zenon DEF Merged
<1>3. Merged' = Merged
  BY <1>1, <1>2, ZenonT(40)
<1>4. AsTransport!Ask(c)
  BY <1>1, <1>3, ZenonT(40) DEF AsTransport!Ask, AsTransport!MaxTries, Merged
<1> QED BY <1>4, Zenon DEF AsTransport!Next

\* The server's answer, as the chain sees it.
LEMMA HearSeen ==
  ASSUME proto # "DoT", proto' = proto, NEW c \in Calls, pc' = pc, asked[c] > 0, asked' = asked,
         heard' = heard \union {c}
  PROVE  AsTransport!Next
<1>1. Merged' = Merged
  BY StageKept, Zenon
<1> HIDE DEF OutcomeIn
<1>2. AsTransport!Hear(c)
  BY <1>1, ZenonT(40) DEF AsTransport!Hear, Merged
<1> QED BY <1>2, Zenon DEF AsTransport!Next

\* Each DoQ step is a step of the abstract transport, or none.
LEMMA DoQSeen ==
  ASSUME QInv, [Q!Next]_(Q!vars), proto # "DoT", proto' = proto
  PROVE  AsTransport!Next \/ UNCHANGED <<Merged, asked, heard>>
<1>1. pc \in [Calls -> {"idle", "get", "open", "read", "drop", "answered", "failed"}]
  BY QTyped, Zenon
<1>2. ASSUME NEW c \in Calls, Q!Resolve(c) PROVE AsTransport!Next
  <2>1. pc[c] = "idle" /\ pc' = [pc EXCEPT ![c] = "get"] /\ asked' = asked /\ heard' = heard
    BY <1>2, ZenonT(40) DEF Q!Resolve
  <2> QED BY <1>1, <2>1, BeginSeen, ZenonT(40)
<1>3. ASSUME NEW c \in Calls, Q!Ask(c) PROVE AsTransport!Next
  <2>1. /\ pc[c] = "open" /\ pc' = [pc EXCEPT ![c] = "read"] /\ heard' = heard
        /\ asked' = [asked EXCEPT ![c] = @ + 1]
    BY <1>3, ZenonT(40) DEF Q!Ask
  <2>2. asked[c] < 2
    BY <1>3, QAskInv, ZenonT(40)
  <2> QED BY <1>1, <2>1, <2>2, AskSeen, ZenonT(40)
<1>4. ASSUME NEW c \in Calls, Q!ServerAnswers(c) PROVE AsTransport!Next
  <2>1. pc' = pc /\ asked' = asked /\ heard' = heard \union {c}
    BY <1>4, ZenonT(40) DEF Q!ServerAnswers
  <2>2. asked[c] > 0
    BY <1>4, QServerInv, ZenonT(40)
  <2> QED BY <2>1, <2>2, HearSeen, ZenonT(40)
<1>5. ASSUME NEW c \in Calls, Q!Step(c), ~Q!Ask(c)
      PROVE  AsTransport!Next \/ UNCHANGED <<Merged, asked, heard>>
  <2>1. /\ pc[c] \in {"get", "open", "read", "drop"} /\ asked' = asked /\ heard' = heard
        /\ \E stage \in {"get", "open", "drop", "answered", "failed"} : pc' = [pc EXCEPT ![c] = stage]
    <3>1. CASE Q!Reuse(c) \/ Q!Dial(c)
      BY <3>1, ZenonT(40) DEF Q!Reuse, Q!Dial, Q!Takes, Q!hist
    <3>2. CASE Q!DialFails(c) \/ Q!PackFails(c) \/ Q!Answered(c)
      BY <3>2, ZenonT(40) DEF Q!DialFails, Q!PackFails, Q!Answered, Q!Ends, Q!hist
    <3>3. CASE Q!OpenFails(c) \/ Q!AskFails(c) \/ Q!Rejected(c) \/ Q!ReadFails(c)
      BY <3>3, ZenonT(40) DEF Q!OpenFails, Q!AskFails, Q!Rejected, Q!ReadFails, Q!Recycles, Q!hist
    <3>4. CASE Q!Drop(c)
      BY <3>4, ZenonT(40) DEF Q!Drop, Q!Ends, Q!hist
    <3> QED BY <1>5, <3>1, <3>2, <3>3, <3>4, ZenonT(40) DEF Q!Step
  <2>2. PICK stage \in {"get", "open", "drop", "answered", "failed"} : pc' = [pc EXCEPT ![c] = stage]
    BY <2>1, ZenonT(40)
  <2>3. stage = "answered" => c \in heard
    <3>1. pc'[c] = stage
      BY <1>1, <2>2, ZenonT(40)
    <3>2. ASSUME stage = "answered" PROVE Q!Answered(c)
      <4>1. ~(Q!Reuse(c) \/ Q!Dial(c))
        BY <1>1, <3>1, <3>2, ZenonT(40) DEF Q!Reuse, Q!Dial, Q!Takes
      <4>2. ~(Q!DialFails(c) \/ Q!PackFails(c))
        BY <1>1, <3>1, <3>2, ZenonT(40) DEF Q!DialFails, Q!PackFails, Q!Ends
      <4>3. ~(Q!OpenFails(c) \/ Q!AskFails(c) \/ Q!Rejected(c) \/ Q!ReadFails(c))
        BY <1>1, <3>1, <3>2, ZenonT(40) DEF Q!OpenFails, Q!AskFails, Q!Rejected, Q!ReadFails, Q!Recycles
      <4>4. ~Q!Drop(c)
        BY <1>1, <3>1, <3>2, ZenonT(40) DEF Q!Drop, Q!Ends
      <4> QED BY <1>5, <4>1, <4>2, <4>3, <4>4, ZenonT(40) DEF Q!Step
    <3>3. Q!Answered(c) => c \in heard
      BY Zenon DEF Q!Answered, QInv, QFits
    <3> QED BY <3>2, <3>3, ZenonT(40)
  <2>4. stage # "idle" /\ pc[c] \notin {"idle", "answered", "failed"}
    BY <2>1, ZenonT(40)
  <2> QED BY <1>1, <2>1, <2>2, <2>3, <2>4, CallSeen, ZenonT(40)
<1>6. ASSUME Q!Close \/ Q!Ages \/ UNCHANGED Q!vars PROVE UNCHANGED <<Merged, asked, heard>>
  <2>1. pc' = pc /\ asked' = asked /\ heard' = heard
    BY <1>6, ZenonT(40) DEF Q!Close, Q!Ages, Q!vars, Q!hist
  <2> QED BY <2>1, StageKept, ZenonT(40)
<1> QED BY <1>2, <1>3, <1>4, <1>5, <1>6, ZenonT(40) DEF Q!Next, Q!Steps

\* Each DoH step is a step of the abstract transport, or none.
LEMMA DoHSeen ==
  ASSUME HInv, [H!Next]_(H!vars), proto # "DoT", proto' = proto
  PROVE  AsTransport!Next \/ UNCHANGED <<Merged, asked, heard>>
<1>1. pc \in [Calls -> {"idle", "pack", "read", "answered", "failed"}]
  BY HTyped, Zenon
<1>2. ASSUME NEW c \in Calls, H!Resolve(c) PROVE AsTransport!Next
  <2>1. pc[c] = "idle" /\ pc' = [pc EXCEPT ![c] = "pack"] /\ asked' = asked /\ heard' = heard
    BY <1>2, Zenon DEF H!Resolve
  <2> QED BY <1>1, <2>1, BeginSeen, ZenonT(40)
<1>3. ASSUME NEW c \in Calls, H!Post(c) PROVE AsTransport!Next
  <2>1. /\ pc[c] = "pack" /\ pc' = [pc EXCEPT ![c] = "read"] /\ heard' = heard
        /\ asked' = [asked EXCEPT ![c] = @ + 1]
    BY <1>3, ZenonT(40) DEF H!Post
  <2>2. asked[c] < 2
    <3>1. asked[c] = 0
      BY <2>1, ZenonT(40) DEF HInv, HFits
    <3> QED BY <3>1, SMT, SMTT(30)
  <2> QED BY <1>1, <2>1, <2>2, AskSeen, ZenonT(40)
<1>4. ASSUME NEW c \in Calls, H!ServerAnswers(c) PROVE AsTransport!Next
  <2>1. pc' = pc /\ asked' = asked /\ heard' = heard \union {c} /\ stream[c] = "sent"
    BY <1>4, ZenonT(40) DEF H!ServerAnswers
  <2>2. asked[c] > 0
    BY <2>1, ZenonT(40) DEF HInv, HFits
  <2> QED BY <2>1, <2>2, HearSeen, ZenonT(40)
<1>5. ASSUME NEW c \in Calls, H!PackFails(c) \/ H!PostFails(c) \/ H!Answered(c) \/ H!Rejected(c)
      PROVE  AsTransport!Next \/ UNCHANGED <<Merged, asked, heard>>
  <2>1. /\ pc[c] \in {"pack", "read"} /\ asked' = asked /\ heard' = heard
        /\ pc' = [pc EXCEPT ![c] = "failed"] \/ (pc' = [pc EXCEPT ![c] = "answered"] /\ c \in heard)
    BY <1>5, ZenonT(40) DEF H!PackFails, H!PostFails, H!Answered, H!Rejected, H!Ends, HInv, HFits
  <2>2. pc[c] \notin {"idle", "answered", "failed"}
    BY <2>1, ZenonT(40)
  <2> QED BY <1>1, <2>1, <2>2, CallSeen, ZenonT(40)
<1>6. ASSUME H!Close \/ UNCHANGED H!vars PROVE UNCHANGED <<Merged, asked, heard>>
  <2>1. pc' = pc /\ asked' = asked /\ heard' = heard
    BY <1>6, ZenonT(40) DEF H!Close, H!vars
  <2> QED BY <2>1, StageKept, Zenon
<1> QED BY <1>2, <1>3, <1>4, <1>5, <1>6, ZenonT(30) DEF H!Next, H!Steps, H!Step

\* Whatever its protocol, a resolver is to the fallback chain an abstract
\* transport, for any number of calls and connections: a call asks the server
\* at most twice and is answered only with what the server answered to it.
THEOREM AllImplement == SpecTransports => TransportsImplement
<1>1. InitTransports => AsTransport!Init
  BY Zenon DEF InitTransports, Init, AsTransport!Init, OutcomeIn, OutcomeOf, Q!OutcomeOf
<1>2. ASSUME AllInv, proto \in {"DoT", "DoQ", "DoH"}, [NextAny]_allVars
      PROVE  [AsTransport!Next]_<<Merged, asked, heard>>
  <2>1. /\ proto' = proto
        /\ proto = "DoT" => [Next]_vars
        /\ proto = "DoQ" => [Q!Next]_(Q!vars)
        /\ proto = "DoH" => [H!Next]_(H!vars)
    BY <1>2, ProtocolKept, ZenonT(40)
  <2>2. CASE proto = "DoT"
    BY <1>2, <2>1, <2>2, DoTSeen, ZenonT(40) DEF AllInv
  <2>3. CASE proto = "DoQ"
    BY <1>2, <2>1, <2>3, DoQSeen, ZenonT(40) DEF AllInv
  <2>4. CASE proto = "DoH"
    BY <1>2, <2>1, <2>4, DoHSeen, ZenonT(40) DEF AllInv
  <2> QED BY <1>2, <2>2, <2>3, <2>4, ZenonT(40)
<1>3. InitTransports => proto \in {"DoT", "DoQ", "DoH"}
  BY Zenon DEF InitTransports
<1>4. proto \in {"DoT", "DoQ", "DoH"} /\ [NextAny]_allVars => (proto \in {"DoT", "DoQ", "DoH"})'
  BY ProtocolKept, Zenon
<1> QED BY <1>1, <1>2, <1>3, <1>4, TransportsInvariance, PTL
        DEF SpecTransports, NextAny, TransportsImplement, AsTransport!Spec, Merged

=============================================================================
