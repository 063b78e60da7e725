--------------------------- MODULE LatencyProofs ----------------------------
(***************************************************************************)
(* Proofs about Latency, for any number of interfaces, any transfer-ID     *)
(* width, timeout, interval and delay, and any losses.  RequestInv,        *)
(* ResponseInv and StampInv are inductive one after the other; the order   *)
(* of the responses (ResponseOrderInv) needs prompt reading besides.       *)
(***************************************************************************)
EXTENDS Latency, TLAPS

(* What the order of the requests rests on.  Requests leave no faster than *)
(* their interval.  Those on their way were sent when they say, one after  *)
(* the other on each line; one that is not newer than the last accepted    *)
(* left no later than a turn after the sample that one was read with, and  *)
(* is not on the line of the session.                                      *)
RequestInv ==
  /\ \A p, q \in DOMAIN sent : p <= q => sent[q] >= sent[p] + (q - p) * Spacing
  /\ \A p \in DOMAIN sent : sent[p] <= clock
  /\ accepted <= Len(sent)
  /\ served = NoSession <=> accepted = 0
  /\ served # NoSession => served.tid = Tid(accepted + 1)
  /\ \A i \in Ifaces : \A p \in DOMAIN requests[i] :
       LET frame == requests[i][p]
       IN /\ frame.req \in DOMAIN sent
          /\ frame.at = sent[frame.req]
          /\ frame.req <= accepted => i # served.iface /\ frame.at <= served.ts + MaxLag
          /\ \A q \in DOMAIN requests[i] : p < q => frame.req < requests[i][q].req

(* Responses answer requests that were sent, in time.                      *)
ResponseInv ==
  /\ measured.req \in 0..Len(sent)
  /\ \A i \in Ifaces : \A p \in DOMAIN responses[i] :
       LET frame == responses[i][p]
       IN /\ frame.req \in DOMAIN sent
          /\ frame.at <= clock
          /\ frame.at <= sent[frame.req] + MaxDelay

Prompt == MaxDelay + MaxLag <= TidTimeout

(* The order of the responses, as that of the requests.                    *)
ResponseOrderInv ==
  /\ heard = NoSession <=> measured.req = 0
  /\ measured.req <= accepted
  /\ \A i \in Ifaces : \A p \in DOMAIN responses[i] :
       LET frame == responses[i][p]
       IN /\ frame.req \in 1..accepted
          /\ frame.req <= measured.req => i # heard.iface /\ frame.at <= heard.ts + MaxLag
          /\ \A q \in DOMAIN responses[i] : p < q => frame.req < responses[i][q].req

(* The last requests of every transfer ID have their stamps.               *)
StampInv ==
  \A n \in DOMAIN sent : n > Len(sent) - TidMod => latency[Tid(n)] = sent[n]

-----------------------------------------------------------------------------
(* the quotient and the remainder of a division *)
LEMMA Division ==
  ASSUME NEW a \in Nat, NEW m \in Nat \ {0}
  PROVE  /\ a \div m \in Int
         /\ a % m \in 0..(m - 1)
         /\ a % m = a - m * (a \div m)
<1>1. a \div m \in Int /\ a % m \in 0..(m - 1)
  OBVIOUS
<1>2. a % m = a - m * (a \div m)
  OBVIOUS
<1> QED
  BY <1>1, <1>2

(* what determines a remainder *)
LEMMA RemainderUnique ==
  ASSUME NEW m \in Nat \ {0}, NEW q \in Int, NEW r \in 0..(m - 1)
  PROVE  (m * q + r) % m = r
  OBVIOUS

(* the remainder after that of n is that of n + 1 *)
LEMMA NextRemainder ==
  ASSUME NEW n \in Nat, NEW m \in Nat \ {0}, NEW r, r = n % m
  PROVE  (r + 1) % m = (n + 1) % m
<1> DEFINE q == n \div m
<1>1. q \in Int /\ r \in 0..(m - 1) /\ r = n - m * q
  BY Division
<1> HIDE DEF q
<1>2. CASE r + 1 < m
  <2>1. n + 1 = m * q + (r + 1) /\ r + 1 = m * 0 + (r + 1) /\ r + 1 \in 0..(m - 1)
    BY <1>1, <1>2
  <2>2. (n + 1) % m = r + 1
    BY <1>1, <2>1, RemainderUnique
  <2>3. (r + 1) % m = r + 1
    BY <1>1, <2>1, RemainderUnique
  <2> QED
    BY <2>2, <2>3
<1>3. CASE r + 1 = m
  <2>1. n + 1 = m * q + m
    BY <1>1, <1>3
  <2>2. n + 1 = m * (q + 1) + 0 /\ r + 1 = m * 1 + 0
    BY <1>1, <1>3, <2>1
  <2>3. (n + 1) % m = 0
    BY <1>1, <2>2, RemainderUnique, SMTT(30)
  <2>4. (r + 1) % m = 0
    BY <1>1, <2>2, RemainderUnique
  <2> QED
    BY <2>3, <2>4
<1> QED
  BY <1>1, <1>2, <1>3

(* the transfer ID after that of request n is that of request n + 1 *)
LEMMA TidOfNext ==
  ASSUME NEW n \in Nat \ {0}
  PROVE  (Tid(n) + 1) % TidMod = Tid(n + 1)
<1>1. TidMod \in Nat \ {0}
  BY CanardRxAssumption
<1>2. n - 1 \in Nat /\ (n - 1) + 1 = (n + 1) - 1
  OBVIOUS
<1>3. (((n - 1) % TidMod) + 1) % TidMod = ((n - 1) + 1) % TidMod
  BY <1>1, <1>2, NextRemainder
<1> QED
  BY <1>2, <1>3 DEF Tid

-----------------------------------------------------------------------------
(* what is left of a line once its head is read *)
LEMMA TailOfLine ==
  ASSUME NEW s \in Seq(Frames), s # <<>>
  PROVE  /\ Head(s) = s[1] /\ Head(s) \in Frames /\ 1 \in DOMAIN s
         /\ Tail(s) \in Seq(Frames)
         /\ \A p \in DOMAIN Tail(s) : /\ p + 1 \in DOMAIN s /\ p \in Nat \ {0}
                                      /\ Tail(s)[p] = s[p + 1]
  OBVIOUS

(* what joining a line leaves as it was *)
LEMMA EndOfLine ==
  ASSUME NEW S, NEW s \in Seq(S), NEW x \in S
  PROVE  /\ Append(s, x) \in Seq(S)
         /\ Len(Append(s, x)) = Len(s) + 1
         /\ DOMAIN Append(s, x) = 1..(Len(s) + 1)
         /\ DOMAIN s = 1..Len(s)
         /\ \A p \in DOMAIN s : Append(s, x)[p] = s[p]
         /\ Append(s, x)[Len(s) + 1] = x
  OBVIOUS

(* transfer IDs have five bits *)
LEMMA TidType ==
  ASSUME NEW n \in Nat \ {0}
  PROVE  Tid(n) \in Tids
<1>1. (n - 1) % TidMod \in 0..(TidMod - 1)
  BY CanardRxAssumption
<1> QED
  BY <1>1 DEF Tid, Tids

(* an open session is no NoSession *)
LEMMA SessionType ==
  ASSUME NEW s, NEW n \in Nat \ {0}, NEW ts \in Nat, NEW i \in Ifaces
  PROVE  /\ SessionAfter(s, Tid(n), ts, i) \in [tid : Tids, ts : Nat, iface : Ifaces]
         /\ SessionAfter(s, Tid(n), ts, i) # NoSession
<1>1. (Tid(n) + 1) % TidMod \in Tids
  <2>1. Tid(n) + 1 \in Nat /\ TidMod \in Nat \ {0}
    BY TidType, CanardRxAssumption DEF Tids
  <2> HIDE DEF Tids
  <2> QED
    BY <2>1, CanardRxAssumption DEF Tids
<1>2. SessionAfter(s, Tid(n), ts, i).ts = ts
  BY DEF SessionAfter
<1>3. NoSession.ts = -1
  BY DEF NoSession
<1> QED
  BY <1>1, <1>2, <1>3 DEF SessionAfter

(* the sample of the turn in which a node reads *)
LEMMA SampleType ==
  ASSUME TypeOK, NEW s, NEW ts \in Samples(s)
  PROVE  /\ ts \in Nat /\ s.ts <= ts
         /\ ts <= clock /\ clock <= ts + MaxLag
         /\ clock \in Nat /\ MaxLag \in Nat
  BY LatencyAssumption DEF Samples, TypeOK

-----------------------------------------------------------------------------
(* sending a request preserves the types *)
LEMMA RequestType ==
  ASSUME TypeOK, Request
  PROVE  TypeOK'
<1> DEFINE n == Len(sent) + 1
           frame == [req |-> n, at |-> clock]
<1>1. n \in Nat \ {0} /\ clock \in Nat /\ frame \in Frames
  BY DEF TypeOK, Frames
<1>2. sent' \in Seq(Nat)
  BY <1>1, EndOfLine DEF Request, TypeOK
<1>3. latency' \in [Tids -> Nat]
  BY <1>1, TidType DEF Request, TypeOK
<1>4. requests' \in [Ifaces -> Seq(Frames)]
  <2>1. requests' = [i \in Ifaces |-> Append(requests[i], frame)]
    BY DEF Request
  <2>2. \A i \in Ifaces : Append(requests[i], frame) \in Seq(Frames)
    BY <1>1, EndOfLine DEF TypeOK
  <2> QED
    BY <2>1, <2>2
<1> QED
  BY <1>2, <1>3, <1>4 DEF Request, TypeOK

(* reading a request preserves the types *)
LEMMA ReceiveRequestType ==
  ASSUME TypeOK, NEW i \in Ifaces,
         NEW ts \in Samples(served), ReadRequest(i, ts)
  PROVE  TypeOK'
<1> DEFINE frame == Head(requests[i])
           answer == [req |-> frame.req, at |-> clock]
<1>1. requests[i] \in Seq(Frames) /\ requests[i] # <<>> /\ responses[i] \in Seq(Frames)
  BY DEF TypeOK, ReadRequest
<1>2. frame \in Frames /\ frame.req \in Nat \ {0} /\ clock \in Nat
  BY <1>1, TailOfLine DEF Frames, TypeOK
<1>3. requests' \in [Ifaces -> Seq(Frames)]
  BY <1>1, TailOfLine DEF ReadRequest, TypeOK
<1> HIDE DEF frame
<1>4. answer \in Frames
  BY <1>2 DEF Frames
<1>5. CASE Accepts(served, Tid(frame.req), ts, i)
  <2>1. /\ served' = SessionAfter(served, Tid(frame.req), ts, i)
        /\ accepted' = frame.req
        /\ responses' = [responses EXCEPT ![i] = Append(@, answer)]
    BY <1>5 DEF ReadRequest, Respond, frame
  <2>2. served' \in Sessions
    BY <1>2, <2>1, SampleType, SessionType DEF Sessions
  <2>3. responses' \in [Ifaces -> Seq(Frames)]
    <3>1. Append(responses[i], answer) \in Seq(Frames)
      BY <1>1, <1>4, EndOfLine
    <3> QED
      BY <2>1, <3>1 DEF TypeOK
  <2> QED
    BY <1>2, <1>3, <2>1, <2>2, <2>3 DEF ReadRequest, TypeOK
<1>6. CASE ~Accepts(served, Tid(frame.req), ts, i)
  <2>1. UNCHANGED <<served, accepted, responses>>
    BY <1>6 DEF ReadRequest, frame
  <2> QED
    BY <1>3, <2>1 DEF ReadRequest, TypeOK
<1> QED
  BY <1>5, <1>6

(* reading a response preserves the types *)
LEMMA ReceiveResponseType ==
  ASSUME TypeOK, NEW i \in Ifaces,
         NEW ts \in Samples(heard), ReadResponse(i, ts)
  PROVE  TypeOK'
<1> DEFINE frame == Head(responses[i])
<1>1. responses[i] \in Seq(Frames) /\ responses[i] # <<>>
  BY DEF TypeOK, ReadResponse
<1>2. frame.req \in Nat \ {0} /\ clock \in Nat
  BY <1>1, TailOfLine DEF Frames, TypeOK
<1>3. responses' \in [Ifaces -> Seq(Frames)]
  BY <1>1, TailOfLine DEF ReadResponse, TypeOK
<1> HIDE DEF frame
<1>4. CASE Accepts(heard, Tid(frame.req), ts, i)
  <2>1. /\ heard' = SessionAfter(heard, Tid(frame.req), ts, i)
        /\ measured' = [req |-> frame.req, stamp |-> latency[Tid(frame.req)], at |-> clock]
    BY <1>4 DEF ReadResponse, frame
  <2>2. heard' \in Sessions
    BY <1>2, <2>1, SampleType, SessionType DEF Sessions
  <2>3. latency[Tid(frame.req)] \in Nat
    BY <1>2, TidType DEF TypeOK
  <2> QED
    BY <1>2, <1>3, <2>1, <2>2, <2>3 DEF ReadResponse, TypeOK
<1>5. CASE ~Accepts(heard, Tid(frame.req), ts, i)
  <2>1. UNCHANGED <<heard, measured>>
    BY <1>5 DEF ReadResponse, frame
  <2> QED
    BY <1>3, <2>1 DEF ReadResponse, TypeOK
<1> QED
  BY <1>4, <1>5

(* every step preserves the types *)
LEMMA TypeStep ==
  ASSUME TypeOK, [Next]_vars
  PROVE  TypeOK'
<1>1. CASE Request
  BY <1>1, RequestType
<1>2. ASSUME NEW i \in Ifaces, NEW ts \in Samples(served), ReadRequest(i, ts)
      PROVE  TypeOK'
  BY <1>2, ReceiveRequestType
<1>3. ASSUME NEW i \in Ifaces, NEW ts \in Samples(heard), ReadResponse(i, ts)
      PROVE  TypeOK'
  BY <1>3, ReceiveResponseType
<1>4. ASSUME NEW i \in Ifaces, LoseRequest(i)
      PROVE  TypeOK'
  <2>1. requests[i] \in Seq(Frames) /\ requests[i] # <<>>
    BY <1>4 DEF LoseRequest, TypeOK
  <2>2. Tail(requests[i]) \in Seq(Frames)
    BY <2>1, TailOfLine
  <2> QED
    BY <1>4, <2>2 DEF LoseRequest, TypeOK
<1>5. ASSUME NEW i \in Ifaces, LoseResponse(i)
      PROVE  TypeOK'
  <2>1. responses[i] \in Seq(Frames) /\ responses[i] # <<>>
    BY <1>5 DEF LoseResponse, TypeOK
  <2>2. Tail(responses[i]) \in Seq(Frames)
    BY <2>1, TailOfLine
  <2> QED
    BY <1>5, <2>2 DEF LoseResponse, TypeOK
<1>6. CASE Tick
  BY <1>6 DEF Tick, TypeOK
<1>7. CASE UNCHANGED vars
  BY <1>7 DEF vars, TypeOK
<1> QED
  BY <1>1, <1>2, <1>3, <1>4, <1>5, <1>6, <1>7 DEF Next, ReceiveRequest, ReceiveResponse, ReceiveNothing

(* the values of the first state have their types *)
LEMMA TypeInit == Init => TypeOK
<1> SUFFICES ASSUME Init PROVE TypeOK
  OBVIOUS
<1>1. NothingMeasured \in [req : Nat, stamp : Nat, at : Nat]
  BY DEF NothingMeasured
<1>2. latency \in [Tids -> Nat]
  BY LatencyAssumption DEF Init
<1> QED
  BY <1>1, <1>2 DEF Init, TypeOK, Sessions

(* Type correctness: the transfer IDs in the sessions and the slots of     *)
(* latency_ keep to five bits (LatencyMeasurementNode.cpp:38).             *)
THEOREM LatencyTypeCorrect == Spec => []TypeOK
<1> QED
  BY TypeInit, TypeStep, PTL DEF Spec

-----------------------------------------------------------------------------
(* the parts of RequestInv that speak of one frame on its way *)
RequestOnLine(i, p) ==
  LET frame == requests[i][p]
  IN /\ frame.req \in DOMAIN sent
     /\ frame.at = sent[frame.req]
     /\ frame.req <= accepted => i # served.iface /\ frame.at <= served.ts + MaxLag
     /\ \A q \in DOMAIN requests[i] : p < q => frame.req < requests[i][q].req

(* one more interval between two requests *)
LEMMA OneMoreInterval ==
  ASSUME NEW k \in Int, NEW x \in Nat, NEW first \in Nat, NEW last \in Nat,
         NEW now \in Nat, now >= last + x, last >= first + k * x
  PROVE  now >= first + (k + 1) * x
<1>1. (k + 1) * x = k * x + x /\ k * x \in Int
  OBVIOUS
<1> DEFINE kx == k * x
<1>2. now >= first + (kx + x)
  <2>1. kx \in Int /\ last >= first + kx
    BY <1>1
  <2> HIDE DEF kx
  <2> QED
    BY <2>1
<1> QED
  BY <1>1, <1>2

(* the histories of a new request *)
LEMMA RequestHistory ==
  ASSUME TypeOK, RequestInv, Request
  PROVE  /\ sent' \in Seq(Nat) /\ Len(sent') = Len(sent) + 1
         /\ \A p \in DOMAIN sent : p \in DOMAIN sent' /\ sent'[p] = sent[p]
         /\ sent'[Len(sent) + 1] = clock
         /\ \A p, q \in DOMAIN sent' : p <= q => sent'[q] >= sent'[p] + (q - p) * Spacing
         /\ \A p \in DOMAIN sent' : sent'[p] <= clock
<1> DEFINE n == Len(sent) + 1
<1>1. sent \in Seq(Nat) /\ clock \in Nat /\ Spacing \in Nat /\ Len(sent) \in Nat
  BY LatencyAssumption DEF TypeOK
<1>2. /\ sent' \in Seq(Nat) /\ Len(sent') = n
      /\ DOMAIN sent' = 1..n /\ DOMAIN sent = 1..Len(sent)
      /\ \A p \in DOMAIN sent : sent'[p] = sent[p]
      /\ sent'[n] = clock
  BY <1>1, EndOfLine, SMTT(30) DEF Request
<1>3. \A p \in DOMAIN sent : sent[p] \in Nat /\ sent[p] <= clock
  BY <1>1 DEF RequestInv
<1>4. ASSUME NEW p \in DOMAIN sent', NEW q \in DOMAIN sent', p <= q
      PROVE  sent'[q] >= sent'[p] + (q - p) * Spacing
  <2>1. CASE q # n
    <3>1. p \in DOMAIN sent /\ q \in DOMAIN sent
      BY <1>1, <1>2, <1>4, <2>1, SMTT(30)
    <3>2. sent[q] >= sent[p] + (q - p) * Spacing
      BY <1>4, <3>1 DEF RequestInv
    <3> QED
      BY <1>2, <3>1, <3>2
  <2>2. CASE q = n /\ p = n
    BY <1>1, <1>2, <2>2
  <2>3. CASE q = n /\ p # n
    <3>1. p \in DOMAIN sent /\ Len(sent) \in DOMAIN sent /\ p <= Len(sent)
      BY <1>1, <1>2, <1>4, <2>3, SMTT(30)
    <3>2. clock >= sent[Len(sent)] + Spacing
      BY <1>1, <1>2, <3>1 DEF Request
    <3>3. sent[Len(sent)] >= sent[p] + (Len(sent) - p) * Spacing
      BY <3>1 DEF RequestInv
    <3>4. clock >= sent[p] + (Len(sent) - p + 1) * Spacing
      <4> DEFINE k == Len(sent) - p
                 first == sent[p]
                 last == sent[Len(sent)]
      <4>1. k \in Int /\ first \in Nat /\ last \in Nat
        BY <1>1, <1>2, <1>3, <3>1, SMTT(30)
      <4>2. clock >= last + Spacing /\ last >= first + k * Spacing
        BY <3>2, <3>3
      <4> HIDE DEF k, first, last
      <4>3. clock >= first + (k + 1) * Spacing
        BY <1>1, <4>1, <4>2, OneMoreInterval
      <4> QED
        BY <4>3 DEF k, first
    <3>5. q - p = Len(sent) - p + 1
      BY <1>1, <1>2, <2>3, <3>1
    <3> QED
      BY <1>2, <2>3, <3>1, <3>4, <3>5
  <2> QED
    BY <2>1, <2>2, <2>3
<1>5. \A p \in DOMAIN sent' : sent'[p] <= clock
  BY <1>1, <1>2, <1>3
<1> QED
  BY <1>1, <1>2, <1>4, <1>5

(* sending a request preserves RequestInv *)
LEMMA RequestPreservesRequestInv ==
  ASSUME TypeOK, RequestInv, Request
  PROVE  RequestInv'
<1> DEFINE n == Len(sent) + 1
           frame == [req |-> n, at |-> clock]
<1>1. /\ n \in Nat \ {0} /\ clock \in Nat /\ frame \in Frames
      /\ accepted \in Nat /\ accepted < n
      /\ DOMAIN sent = 1..Len(sent) /\ DOMAIN sent' = 1..n
      /\ UNCHANGED <<clock, served, accepted>>
  BY RequestHistory DEF TypeOK, Frames, Request, RequestInv
<1>2. ASSUME NEW i \in Ifaces, NEW p \in DOMAIN requests'[i]
      PROVE  RequestOnLine(i, p)'
  <2>1. requests[i] \in Seq(Frames) /\ requests'[i] = Append(requests[i], frame)
    BY DEF TypeOK, Request
  <2>2. /\ DOMAIN requests'[i] = 1..(Len(requests[i]) + 1)
        /\ DOMAIN requests[i] = 1..Len(requests[i]) /\ Len(requests[i]) \in Nat
        /\ \A q \in DOMAIN requests[i] : requests'[i][q] = requests[i][q]
        /\ requests'[i][Len(requests[i]) + 1] = frame
    BY <1>1, <2>1, EndOfLine, SMTT(30)
  <2>3. \A q \in DOMAIN requests[i] : RequestOnLine(i, q)
    BY DEF RequestInv, RequestOnLine
  <2>4. CASE p = Len(requests[i]) + 1
    <3>1. requests'[i][p].req = n /\ requests'[i][p].at = clock
      BY <2>2, <2>4
    <3>2. \A q \in DOMAIN requests'[i] : ~(p < q)
      BY <2>2, <2>4
    <3> QED
      BY <1>1, <3>1, <3>2, RequestHistory DEF RequestOnLine
  <2>5. CASE p # Len(requests[i]) + 1
    <3>1. p \in DOMAIN requests[i] /\ requests'[i][p] = requests[i][p]
      BY <2>2, <2>5
    <3>2. requests[i][p].req \in 1..Len(sent)
      BY <1>1, <2>3, <3>1 DEF RequestOnLine
    <3>3. ASSUME NEW q \in DOMAIN requests'[i], p < q
          PROVE  requests[i][p].req < requests'[i][q].req
      <4>1. CASE q = Len(requests[i]) + 1
        BY <1>1, <2>2, <3>2, <4>1, SMTT(30)
      <4>2. CASE q # Len(requests[i]) + 1
        <5>1. q \in DOMAIN requests[i] /\ requests'[i][q] = requests[i][q]
          BY <2>2, <4>2
        <5> QED
          BY <2>3, <3>1, <3>3, <5>1 DEF RequestOnLine
      <4> QED
        BY <4>1, <4>2
    <3> QED
      BY <1>1, <2>3, <3>1, <3>2, <3>3, RequestHistory, SMTT(30) DEF RequestOnLine
  <2> QED
    BY <2>4, <2>5
<1> QED
  BY <1>1, <1>2, RequestHistory DEF RequestInv, RequestOnLine

(* what is left of a line keeps to RequestInv *)
LEMMA RequestsLeft ==
  ASSUME TypeOK, RequestInv, NEW i \in Ifaces, requests[i] # <<>>,
         requests' = [requests EXCEPT ![i] = Tail(@)], UNCHANGED <<sent, served, accepted>>
  PROVE  \A j \in Ifaces : \A p \in DOMAIN requests'[j] : RequestOnLine(j, p)'
<1> SUFFICES ASSUME NEW j \in Ifaces, NEW p \in DOMAIN requests'[j]
             PROVE  RequestOnLine(j, p)'
  OBVIOUS
<1>1. \A q \in DOMAIN requests[j] : RequestOnLine(j, q)
  BY DEF RequestInv, RequestOnLine
<1>2. CASE j # i
  <2>1. requests'[j] = requests[j]
    BY <1>2 DEF TypeOK
  <2> QED
    BY <1>1, <2>1 DEF RequestOnLine
<1>3. CASE j = i
  <2>1. requests[i] \in Seq(Frames) /\ requests'[j] = Tail(requests[i])
    BY <1>3 DEF TypeOK
  <2>2. \A q \in DOMAIN requests'[j] : /\ q + 1 \in DOMAIN requests[j] /\ q \in Nat
                                       /\ requests'[j][q] = requests[j][q + 1]
    <3>1. \A q \in DOMAIN Tail(requests[i]) :
            q + 1 \in DOMAIN requests[i] /\ q \in Nat /\ Tail(requests[i])[q] = requests[i][q + 1]
      BY <2>1, TailOfLine
    <3> QED
      BY <1>3, <2>1, <3>1
  <2>3. RequestOnLine(j, p + 1)
    BY <1>1, <2>2
  <2> QED
    BY <2>2, <2>3 DEF RequestOnLine
<1> QED
  BY <1>2, <1>3

(* reading a request preserves RequestInv *)
LEMMA ReceiveRequestPreservesRequestInv ==
  ASSUME TypeOK, RequestInv, NEW i \in Ifaces,
         NEW ts \in Samples(served), ReadRequest(i, ts)
  PROVE  RequestInv'
<1> DEFINE frame == Head(requests[i])
<1>1. /\ requests[i] \in Seq(Frames) /\ requests[i] # <<>>
      /\ requests' = [requests EXCEPT ![i] = Tail(@)]
      /\ UNCHANGED <<clock, sent>> /\ clock \in Nat
  BY DEF TypeOK, ReadRequest
<1>2. /\ frame = requests[i][1] /\ 1 \in DOMAIN requests[i]
      /\ frame.req \in Nat \ {0} /\ frame.req \in 1..Len(sent)
  <2>1. frame = requests[i][1] /\ 1 \in DOMAIN requests[i] /\ frame \in Frames
    BY <1>1, TailOfLine
  <2>2. frame.req \in DOMAIN sent /\ DOMAIN sent = 1..Len(sent)
    BY <2>1 DEF RequestInv, TypeOK
  <2> QED
    BY <2>1, <2>2 DEF Frames
<1>3. CASE UNCHANGED <<served, accepted>>
  <2>1. \A j \in Ifaces : \A p \in DOMAIN requests'[j] : RequestOnLine(j, p)'
    BY <1>1, <1>3, RequestsLeft
  <2> QED
    BY <1>1, <1>3, <2>1 DEF RequestInv, RequestOnLine
<1>4. CASE /\ served' = SessionAfter(served, Tid(frame.req), ts, i)
           /\ accepted' = frame.req
  <2>1. /\ served'.iface = i /\ served'.ts = ts /\ served' # NoSession
        /\ served'.tid = (Tid(frame.req) + 1) % TidMod
    BY <1>1, <1>2, <1>4, SampleType, SessionType DEF SessionAfter
  <2>2. (Tid(frame.req) + 1) % TidMod = Tid(frame.req + 1)
    BY <1>2, TidOfNext
  <2>3. ASSUME NEW j \in Ifaces, NEW p \in DOMAIN requests'[j]
        PROVE  RequestOnLine(j, p)'
    <3>1. \A q \in DOMAIN requests[j] : RequestOnLine(j, q)
      BY DEF RequestInv, RequestOnLine
    <3>2. \A q \in DOMAIN sent : sent[q] <= served'.ts + MaxLag
      <4>1. \A q \in DOMAIN sent : sent[q] \in Nat /\ sent[q] <= clock
        BY SMTT(30) DEF RequestInv, TypeOK
      <4>2. clock <= ts + MaxLag /\ ts \in Nat /\ clock \in Nat /\ MaxLag \in Nat
        BY SampleType
      <4> QED
        BY <2>1, <4>1, <4>2
    <3>3. CASE j # i
      <4>1. requests'[j] = requests[j]
        BY <1>1, <3>3 DEF TypeOK
      <4> QED
        BY <1>1, <2>1, <3>1, <3>2, <3>3, <4>1 DEF RequestOnLine
    <3>4. CASE j = i
      <4>1. requests'[j] = Tail(requests[i])
        BY <1>1, <3>4 DEF TypeOK
      <4>2. \A q \in DOMAIN requests'[j] : /\ q + 1 \in DOMAIN requests[j]
                                           /\ q \in Nat \ {0}
                                           /\ requests'[j][q] = requests[j][q + 1]
        <5>1. \A q \in DOMAIN Tail(requests[i]) :
                /\ q + 1 \in DOMAIN requests[i] /\ q \in Nat \ {0}
                /\ Tail(requests[i])[q] = requests[i][q + 1]
          BY <1>1, TailOfLine
        <5> QED
          BY <3>4, <4>1, <5>1
      <4>3. RequestOnLine(j, p + 1)
        BY <3>1, <4>2
      <4>4. frame.req < requests'[j][p].req
        <5>1. RequestOnLine(j, 1) /\ p + 1 \in DOMAIN requests[j] /\ 1 < p + 1
          BY <1>2, <3>1, <3>4, <4>2
        <5> QED
          BY <1>2, <3>4, <4>2, <5>1 DEF RequestOnLine
      <4>5. requests'[j][p].req \in Nat
        <5>1. requests[i][p + 1] \in Frames
          BY <1>1, <3>4, <4>2
        <5> QED
          BY <3>4, <4>2, <5>1 DEF Frames
      <4>6. accepted' = frame.req /\ frame.req \in Nat
        BY <1>2, <1>4
      <4> HIDE DEF frame
      <4>7. ~(requests'[j][p].req <= accepted')
        BY <4>4, <4>5, <4>6
      <4>8. \A q \in DOMAIN requests'[j] : p < q => requests'[j][p].req < requests'[j][q].req
        <5>1. \A q \in DOMAIN requests'[j] : p < q => p + 1 < q + 1
          BY <4>2
        <5> QED
          BY <4>2, <4>3, <5>1 DEF RequestOnLine
      <4> QED
        BY <1>1, <4>2, <4>3, <4>7, <4>8 DEF RequestOnLine
    <3> QED
      BY <3>3, <3>4
  <2>4. \A j \in Ifaces : \A p \in DOMAIN requests'[j] :
          LET line == requests'[j][p]
          IN /\ line.req \in DOMAIN sent'
             /\ line.at = sent'[line.req]
             /\ line.req <= accepted' => j # served'.iface /\ line.at <= (served.ts + MaxLag)'
             /\ \A q \in DOMAIN requests'[j] : p < q => line.req < requests'[j][q].req
    BY <2>3 DEF RequestOnLine
  <2>5. /\ \A p, q \in DOMAIN sent' : p <= q => sent'[q] >= sent'[p] + (q - p) * Spacing
        /\ \A p \in DOMAIN sent' : sent'[p] <= clock'
    BY <1>1 DEF RequestInv
  <2>6. /\ accepted' <= Len(sent')
        /\ served' = NoSession <=> accepted' = 0
        /\ served' # NoSession => served'.tid = Tid(accepted' + 1)
    BY <1>1, <1>2, <1>4, <2>1, <2>2
  <2> QED
    BY <2>4, <2>5, <2>6 DEF RequestInv
<1> QED
  BY <1>3, <1>4 DEF ReadRequest

(* every step preserves RequestInv *)
LEMMA RequestStep ==
  ASSUME TypeOK, RequestInv, [Next]_vars
  PROVE  RequestInv'
<1>1. CASE Request
  BY <1>1, RequestPreservesRequestInv
<1>2. ASSUME NEW i \in Ifaces, NEW ts \in Samples(served), ReadRequest(i, ts)
      PROVE  RequestInv'
  BY <1>2, ReceiveRequestPreservesRequestInv
<1>3. ASSUME NEW i \in Ifaces, LoseRequest(i)
      PROVE  RequestInv'
  <2>1. \A j \in Ifaces : \A p \in DOMAIN requests'[j] : RequestOnLine(j, p)'
    BY <1>3, RequestsLeft DEF LoseRequest
  <2> QED
    BY <1>3, <2>1 DEF RequestInv, RequestOnLine, LoseRequest
<1>4. CASE Tick
  <2>1. clock' = clock + 1 /\ clock \in Nat /\ sent \in Seq(Nat)
    BY <1>4 DEF Tick, TypeOK
  <2>2. \A p \in DOMAIN sent : sent[p] <= clock'
    BY <2>1 DEF RequestInv
  <2> QED
    BY <1>4, <2>2 DEF RequestInv, Tick
<1>5. CASE UNCHANGED <<clock, sent, requests, served, accepted>>
  BY <1>5 DEF RequestInv
<1> QED
  BY <1>1, <1>2, <1>3, <1>4, <1>5
  DEF Next, ReceiveNothing, ReceiveRequest, ReceiveResponse, ReadResponse, LoseResponse, vars

(* RequestInv holds before anything was sent *)
LEMMA RequestInit == Init => RequestInv
  BY DEF Init, RequestInv

-----------------------------------------------------------------------------
(* read promptly, a request that is taken is newer than the last one *)
LEMMA RequestTakenIsNewer ==
  ASSUME TypeOK, RequestInv, Prompt, NEW i \in Ifaces,
         NEW ts \in Samples(served), ReadRequest(i, ts),
         Accepts(served, Tid(Head(requests[i]).req), ts, i)
  PROVE  Head(requests[i]).req > accepted
<1> DEFINE frame == Head(requests[i])
<1>1. requests[i] \in Seq(Frames) /\ requests[i] # <<>>
  BY DEF TypeOK, ReadRequest
<1>2. frame = requests[i][1] /\ 1 \in DOMAIN requests[i] /\ frame \in Frames
  BY <1>1, TailOfLine
<1>3. RequestOnLine(i, 1)
  BY <1>2 DEF RequestInv, RequestOnLine
<1>4. frame.req \in Nat \ {0} /\ frame.at \in Nat /\ clock \in Nat /\ accepted \in Nat
  BY <1>2 DEF Frames, TypeOK
<1>5. frame.req <= accepted => frame.at <= served.ts + MaxLag /\ i # served.iface
  BY <1>2, <1>3 DEF RequestOnLine
<1>6. clock <= frame.at + MaxDelay
  BY DEF ReadRequest, InTime
<1> HIDE DEF frame
<1>7. SUFFICES ASSUME frame.req <= accepted PROVE FALSE
  BY <1>4 DEF frame
<1>8. served # NoSession /\ served.ts \in Nat
  <2>1. served = NoSession <=> accepted = 0
    BY DEF RequestInv
  <2>2. accepted # 0
    BY <1>4, <1>7
  <2>3. served \in Sessions
    BY DEF TypeOK
  <2> QED
    BY <2>1, <2>2, <2>3 DEF Sessions
<1>9. ~TimedOut(served, ts)
  BY <1>4, SampleType, <1>5, <1>6, <1>7, <1>8, CanardRxAssumption, LatencyAssumption
  DEF TimedOut, Prompt
<1> QED
  BY <1>5, <1>7, <1>8, <1>9 DEF Accepts, NewOnInterface

(* Read promptly, the requests the responder takes get ever newer, for all *)
(* interleavings of the interfaces: redundancy adds no duplicates          *)
(* (OpenCyphal.cpp:98-101).                                                *)
THEOREM RequestsTakenInOrder == Spec => RequestsInOrder
<1>1. ASSUME TypeOK, RequestInv, [Next]_vars, Prompt, served' # served
      PROVE  accepted' > accepted
  <2>1. PICK i \in Ifaces : \E ts \in Samples(served) : ReadRequest(i, ts)
    BY <1>1 DEF Next, ReceiveNothing, Request, Tick, ReceiveRequest, ReceiveResponse,
                ReadResponse, LoseRequest, LoseResponse, vars
  <2>2. PICK ts \in Samples(served) : ReadRequest(i, ts)
    BY <2>1
  <2>3. /\ Accepts(served, Tid(Head(requests[i]).req), ts, i)
        /\ accepted' = Head(requests[i]).req
    BY <1>1, <2>2 DEF ReadRequest
  <2> QED
    BY <1>1, <2>2, <2>3, RequestTakenIsNewer
<1>2. TypeOK /\ RequestInv /\ [Next]_vars =>
        [MaxDelay + MaxLag <= TidTimeout /\ served' # served => accepted' > accepted]_vars
  BY <1>1 DEF Prompt
<1>3. Spec => []RequestInv
  BY RequestInit, RequestStep, LatencyTypeCorrect, PTL DEF Spec
<1> QED
  BY <1>2, <1>3, LatencyTypeCorrect, PTL DEF Spec, RequestsInOrder

-----------------------------------------------------------------------------
(* numbers less than m apart have different remainders *)
LEMMA RemainderApart ==
  ASSUME NEW a \in Nat, NEW b \in Nat, NEW m \in Nat \ {0}, b < a, a < b + m
  PROVE  a % m # b % m
<1> DEFINE q == a \div m
           p == b \div m
           r == a % m
           s == b % m
<1>1. q \in Int /\ r \in 0..(m - 1) /\ r = a - m * q
  BY Division
<1>2. p \in Int /\ s \in 0..(m - 1) /\ s = b - m * p
  BY Division
<1> HIDE DEF q, p, r, s
<1>3. SUFFICES ASSUME r = s PROVE FALSE
  BY DEF r, s
<1>4. a - b = m * (q - p)
  BY <1>1, <1>2, <1>3
<1> DEFINE k == q - p
<1>5. k \in Int /\ 0 < m * k /\ m * k < m
  BY <1>1, <1>2, <1>4
<1> HIDE DEF k
<1>6. CASE k <= 0
  BY <1>5, <1>6
<1>7. CASE k >= 1
  BY <1>5, <1>7
<1> QED
  BY <1>5, <1>6, <1>7

(* a product is no less than that of a smaller factor *)
LEMMA LargerFactor ==
  ASSUME NEW k \in Int, NEW m \in Nat, NEW x \in Nat, k >= m
  PROVE  k * x >= m * x /\ k * x \in Int /\ m * x \in Int
  OBVIOUS

(* sending a request stamps its slot, which no recent request has *)
LEMMA RequestPreservesStampInv ==
  ASSUME TypeOK, StampInv, Request
  PROVE  StampInv'
<1> DEFINE n == Len(sent) + 1
<1>1. /\ n \in Nat \ {0} /\ TidMod \in Nat \ {0} /\ DOMAIN sent = 1..Len(sent)
      /\ Len(sent) \in Nat
  BY CanardRxAssumption DEF TypeOK
<1>2. /\ Len(sent') = n /\ DOMAIN sent' = 1..n
      /\ \A p \in DOMAIN sent : sent'[p] = sent[p]
      /\ sent'[n] = clock
  BY <1>1, EndOfLine DEF Request, TypeOK
<1>3. latency' = [latency EXCEPT ![Tid(n)] = clock] /\ latency \in [Tids -> Nat]
  BY DEF Request, TypeOK
<1>4. ASSUME NEW p \in DOMAIN sent', p > Len(sent') - TidMod
      PROVE  latency'[Tid(p)] = sent'[p]
  <2>1. p \in 1..n /\ Tid(p) \in Tids /\ Tid(n) \in Tids
    BY <1>1, <1>2, TidType
  <2>2. CASE p = n
    BY <1>2, <1>3, <2>1, <2>2
  <2>3. CASE p # n
    <3>1. p \in DOMAIN sent /\ p < n /\ n < p + TidMod /\ p > Len(sent) - TidMod
      BY <1>1, <1>2, <1>4, <2>1, <2>3
    <3>2. Tid(n) # Tid(p)
      <4>1. /\ n - 1 \in Nat /\ p - 1 \in Nat
            /\ p - 1 < n - 1 /\ n - 1 < (p - 1) + TidMod
        BY <1>1, <2>1, <3>1
      <4>2. (n - 1) % TidMod # (p - 1) % TidMod
        BY <1>1, <4>1, RemainderApart
      <4> QED
        BY <4>2 DEF Tid
    <3>3. latency[Tid(p)] = sent[p]
      BY <3>1 DEF StampInv
    <3> QED
      BY <1>2, <1>3, <2>1, <3>1, <3>2, <3>3
  <2> QED
    BY <2>2, <2>3
<1> QED
  BY <1>4 DEF StampInv

(* the parts of ResponseInv that speak of one frame on its way *)
ResponseOnLine(i, p) ==
  LET frame == responses[i][p]
  IN /\ frame.req \in DOMAIN sent
     /\ frame.at <= clock
     /\ frame.at <= sent[frame.req] + MaxDelay

(* what is left of a line of responses keeps to ResponseInv *)
LEMMA ResponsesLeft ==
  ASSUME TypeOK, ResponseInv, NEW i \in Ifaces, responses[i] # <<>>,
         responses' = [responses EXCEPT ![i] = Tail(@)], UNCHANGED <<sent, clock>>
  PROVE  \A j \in Ifaces : \A p \in DOMAIN responses'[j] : ResponseOnLine(j, p)'
<1> SUFFICES ASSUME NEW j \in Ifaces, NEW p \in DOMAIN responses'[j]
             PROVE  ResponseOnLine(j, p)'
  OBVIOUS
<1>1. \A q \in DOMAIN responses[j] : ResponseOnLine(j, q)
  BY DEF ResponseInv, ResponseOnLine
<1>2. CASE j # i
  <2>1. responses'[j] = responses[j]
    BY <1>2 DEF TypeOK
  <2> QED
    BY <1>1, <2>1 DEF ResponseOnLine
<1>3. CASE j = i
  <2>1. responses[i] \in Seq(Frames) /\ responses'[j] = Tail(responses[i])
    BY <1>3 DEF TypeOK
  <2>2. p + 1 \in DOMAIN responses[j] /\ responses'[j][p] = responses[j][p + 1]
    BY <1>3, <2>1, TailOfLine
  <2>3. ResponseOnLine(j, p + 1)
    BY <1>1, <2>2
  <2> QED
    BY <2>2, <2>3 DEF ResponseOnLine
<1> QED
  BY <1>2, <1>3

(* reading a request preserves ResponseInv: the answer leaves at once *)
LEMMA ReceiveRequestPreservesResponseInv ==
  ASSUME TypeOK, RequestInv, ResponseInv, NEW i \in Ifaces,
         NEW ts \in Samples(served), ReadRequest(i, ts)
  PROVE  ResponseInv'
<1> DEFINE frame == Head(requests[i])
           answer == [req |-> frame.req, at |-> clock]
<1>1. /\ requests[i] \in Seq(Frames) /\ requests[i] # <<>>
      /\ UNCHANGED <<clock, sent, measured>> /\ clock \in Nat
  BY DEF TypeOK, ReadRequest
<1>2. /\ frame = requests[i][1] /\ 1 \in DOMAIN requests[i] /\ frame \in Frames
      /\ frame.req \in Nat \ {0}
  BY <1>1, TailOfLine DEF Frames
<1>3. /\ frame.req \in DOMAIN sent /\ clock <= sent[frame.req] + MaxDelay
  BY <1>2 DEF RequestInv, ReadRequest, InTime
<1> HIDE DEF frame
<1>4. answer \in Frames
  BY <1>1, <1>2 DEF Frames
<1>5. CASE responses' = [responses EXCEPT ![i] = Append(@, answer)]
  <2>1. ASSUME NEW j \in Ifaces, NEW p \in DOMAIN responses'[j]
        PROVE  ResponseOnLine(j, p)'
    <3>1. \A q \in DOMAIN responses[j] : ResponseOnLine(j, q)
      BY DEF ResponseInv, ResponseOnLine
    <3>2. CASE j # i
      <4>1. responses'[j] = responses[j]
        BY <1>5, <3>2 DEF TypeOK
      <4> QED
        BY <1>1, <3>1, <4>1 DEF ResponseOnLine
    <3>3. CASE j = i
      <4>1. responses[j] \in Seq(Frames) /\ responses'[j] = Append(responses[j], answer)
        BY <1>5, <3>3 DEF TypeOK
      <4>2. /\ DOMAIN responses'[j] = 1..(Len(responses[j]) + 1)
            /\ DOMAIN responses[j] = 1..Len(responses[j]) /\ Len(responses[j]) \in Nat
            /\ \A q \in DOMAIN responses[j] : responses'[j][q] = responses[j][q]
            /\ responses'[j][Len(responses[j]) + 1] = answer
        BY <1>4, <4>1, EndOfLine
      <4>3. CASE p = Len(responses[j]) + 1
        BY <1>1, <1>3, <4>2, <4>3 DEF ResponseOnLine
      <4>4. CASE p # Len(responses[j]) + 1
        <5>1. p \in DOMAIN responses[j] /\ responses'[j][p] = responses[j][p]
          BY <4>2, <4>4
        <5> QED
          BY <1>1, <3>1, <5>1 DEF ResponseOnLine
      <4> QED
        BY <4>3, <4>4
    <3> QED
      BY <3>2, <3>3
  <2> QED
    BY <1>1, <2>1 DEF ResponseInv, ResponseOnLine
<1>6. CASE UNCHANGED responses
  BY <1>1, <1>6 DEF ResponseInv
<1> QED
  BY <1>5, <1>6 DEF ReadRequest, Respond, frame

(* every step preserves ResponseInv *)
LEMMA ResponseStep ==
  ASSUME TypeOK, RequestInv, ResponseInv, [Next]_vars
  PROVE  ResponseInv'
<1>1. CASE Request
  <2>1. Len(sent') = Len(sent) + 1 /\ Len(sent) \in Nat
        /\ \A p \in DOMAIN sent : p \in DOMAIN sent' /\ sent'[p] = sent[p]
    BY <1>1, RequestHistory DEF TypeOK
  <2>2. measured'.req \in 0..Len(sent') /\ UNCHANGED <<clock, responses>>
    BY <1>1, <2>1 DEF ResponseInv, Request
  <2> QED
    BY <2>1, <2>2 DEF ResponseInv
<1>2. ASSUME NEW i \in Ifaces, NEW ts \in Samples(served), ReadRequest(i, ts)
      PROVE  ResponseInv'
  BY <1>2, ReceiveRequestPreservesResponseInv
<1>3. ASSUME NEW i \in Ifaces, NEW ts \in Samples(heard), ReadResponse(i, ts)
      PROVE  ResponseInv'
  <2> DEFINE frame == Head(responses[i])
  <2>1. \A j \in Ifaces : \A p \in DOMAIN responses'[j] : ResponseOnLine(j, p)'
    BY <1>3, ResponsesLeft DEF ReadResponse
  <2>2. frame.req \in 1..Len(sent)
    <3>1. responses[i] \in Seq(Frames) /\ responses[i] # <<>> /\ sent \in Seq(Nat)
      BY <1>3 DEF TypeOK, ReadResponse
    <3>2. frame = responses[i][1] /\ 1 \in DOMAIN responses[i]
      BY <3>1, TailOfLine
    <3> QED
      BY <3>1, <3>2 DEF ResponseInv
  <2>3. measured' = measured \/ measured'.req = frame.req
    BY <1>3 DEF ReadResponse
  <2>4. measured'.req \in 0..Len(sent)
    <3> HIDE DEF frame
    <3> QED
      BY <2>2, <2>3 DEF ResponseInv
  <2> QED
    BY <1>3, <2>1, <2>4 DEF ResponseInv, ResponseOnLine, ReadResponse
<1>4. ASSUME NEW i \in Ifaces, LoseResponse(i)
      PROVE  ResponseInv'
  <2>1. \A j \in Ifaces : \A p \in DOMAIN responses'[j] : ResponseOnLine(j, p)'
    BY <1>4, ResponsesLeft DEF LoseResponse
  <2> QED
    BY <1>4, <2>1 DEF ResponseInv, ResponseOnLine, LoseResponse
<1>5. CASE Tick
  <2>1. clock' = clock + 1 /\ clock \in Nat /\ UNCHANGED <<sent, responses, measured>>
    BY <1>5 DEF Tick, TypeOK
  <2>2. ASSUME NEW i \in Ifaces, NEW p \in DOMAIN responses[i]
        PROVE  responses[i][p].at \in Nat
    <3>1. responses[i][p] \in Frames
      BY <2>2 DEF TypeOK
    <3> QED
      BY <3>1 DEF Frames
  <2> QED
    BY <2>1, <2>2 DEF ResponseInv
<1>6. CASE UNCHANGED <<clock, sent, responses, measured>>
  BY <1>6 DEF ResponseInv
<1> QED
  BY <1>1, <1>2, <1>3, <1>4, <1>5, <1>6 
  DEF Next, ReceiveRequest, ReceiveResponse, ReceiveNothing, LoseRequest, vars

(* a response read in time answers one of the last requests of its ID *)
LEMMA ResponseIsRecent ==
  ASSUME TypeOK, RequestInv, ResponseInv, NEW i \in Ifaces,
         NEW ts \in Samples(heard), ReadResponse(i, ts),
         2 * MaxDelay < TidMod * Spacing
  PROVE  /\ Head(responses[i]).req \in DOMAIN sent
         /\ Head(responses[i]).req > Len(sent) - TidMod
<1> DEFINE n == Head(responses[i]).req
           at == Head(responses[i]).at
           l == Len(sent)
<1>1. /\ responses[i] \in Seq(Frames) /\ responses[i] # <<>>
      /\ sent \in Seq(Nat) /\ clock \in Nat /\ l \in Nat /\ DOMAIN sent = 1..l
      /\ TidMod \in Nat /\ Spacing \in Nat /\ MaxDelay \in Nat
  BY CanardRxAssumption, LatencyAssumption DEF TypeOK, ReadResponse
<1>2. Head(responses[i]) = responses[i][1] /\ 1 \in DOMAIN responses[i]
      /\ Head(responses[i]) \in Frames
  BY <1>1, TailOfLine
<1>3. n \in DOMAIN sent /\ at \in Nat /\ at <= sent[n] + MaxDelay
      /\ clock <= at + MaxDelay
  BY <1>2 DEF ResponseInv, Frames, ReadResponse, InTime
<1> HIDE DEF n, at
<1>4. SUFFICES ASSUME ~(n > l - TidMod) PROVE FALSE
  BY <1>3 DEF n
<1>5. n \in 1..l /\ l \in DOMAIN sent /\ l - n >= TidMod /\ n <= l
  BY <1>1, <1>3, <1>4
<1>6. sent[l] >= sent[n] + (l - n) * Spacing /\ sent[l] <= clock
  BY <1>3, <1>5 DEF RequestInv
<1> DEFINE k == l - n
           first == sent[n]
           last == sent[l]
<1>7. k \in Int /\ k >= TidMod /\ first \in Nat /\ last \in Nat
  <2>1. first \in Nat /\ last \in Nat
    <3>1. \A p \in DOMAIN sent : sent[p] \in Nat
      BY <1>1
    <3> QED
      BY <1>3, <1>5, <3>1, Zenon
  <2>2. k \in Int /\ k >= TidMod
    BY <1>1, <1>5
  <2> QED
    BY <2>1, <2>2
<1>8. clock <= first + 2 * MaxDelay
  BY <1>1, <1>3, <1>7
<1>9. last >= first + k * Spacing /\ last <= clock
  BY <1>6
<1> HIDE DEF k, first, last
<1>10. k * Spacing >= TidMod * Spacing /\ k * Spacing \in Int /\ TidMod * Spacing \in Int
  BY <1>1, <1>7, LargerFactor
<1> DEFINE kx == k * Spacing
           mx == TidMod * Spacing
<1>11. kx >= mx /\ kx \in Int /\ mx \in Int /\ last >= first + kx /\ 2 * MaxDelay < mx
  BY <1>9, <1>10
<1> HIDE DEF kx, mx
<1> QED
  BY <1>1, <1>7, <1>8, <1>9, <1>11

(* every step preserves StampInv, and measures a response against the      *)
(* stamp of its own request                                                *)
LEMMA StampStep ==
  ASSUME TypeOK, RequestInv, ResponseInv, StampInv, MeasuredAgainstOwnRequest, [Next]_vars
  PROVE  StampInv' /\ MeasuredAgainstOwnRequest'
<1>1. CASE Request
  <2>1. \A p \in DOMAIN sent : sent'[p] = sent[p]
    BY <1>1, RequestHistory
  <2>2. measured.req # 0 => measured.req \in DOMAIN sent
    BY DEF ResponseInv, TypeOK
  <2>3. UNCHANGED measured
    BY <1>1 DEF Request
  <2> QED
    BY <1>1, <2>1, <2>2, <2>3, RequestPreservesStampInv DEF MeasuredAgainstOwnRequest
<1>2. ASSUME NEW i \in Ifaces, NEW ts \in Samples(heard), ReadResponse(i, ts)
      PROVE  StampInv' /\ MeasuredAgainstOwnRequest'
  <2> DEFINE n == Head(responses[i]).req
  <2>1. UNCHANGED <<sent, latency>>
    BY <1>2 DEF ReadResponse
  <2>2. measured' = measured \/ (measured'.req = n /\ measured'.stamp = latency[Tid(n)])
    BY <1>2 DEF ReadResponse
  <2>3. ASSUME 2 * MaxDelay < TidMod * Spacing
        PROVE  latency[Tid(n)] = sent[n]
    BY <1>2, <2>3, ResponseIsRecent DEF StampInv
  <2> HIDE DEF n
  <2> QED
    BY <2>1, <2>2, <2>3 DEF StampInv, MeasuredAgainstOwnRequest
<1>3. CASE UNCHANGED <<sent, latency, measured>>
  BY <1>3 DEF StampInv, MeasuredAgainstOwnRequest
<1> QED
  BY <1>1, <1>2, <1>3
  DEF Next, ReceiveNothing, ReceiveRequest, ReceiveResponse, ReadRequest, LoseRequest,
      LoseResponse, Tick, vars

(* the rest holds before anything was sent *)
LEMMA ResponseInit == Init => ResponseInv /\ StampInv /\ MeasuredAgainstOwnRequest
<1> SUFFICES ASSUME Init PROVE ResponseInv /\ StampInv /\ MeasuredAgainstOwnRequest
  OBVIOUS
<1>1. measured.req = 0 /\ sent = <<>> /\ \A i \in Ifaces : responses[i] = <<>>
  BY DEF Init, NothingMeasured
<1> QED
  BY <1>1 DEF ResponseInv, StampInv, MeasuredAgainstOwnRequest

(* A measurement is against the stamp of its own request wherever request  *)
(* and response are read before the transfer IDs come round                *)
(* (LatencyMeasurementNode.cpp:38), for any losses and any interleaving.   *)
THEOREM OwnRequestMeasured == Spec => []MeasuredAgainstOwnRequest
<1>1. Spec => []RequestInv
  BY RequestInit, RequestStep, LatencyTypeCorrect, PTL DEF Spec
<1>2. Spec => []ResponseInv
  BY <1>1, ResponseInit, ResponseStep, LatencyTypeCorrect, PTL DEF Spec
<1> QED
  BY <1>1, <1>2, ResponseInit, StampStep, LatencyTypeCorrect, PTL DEF Spec

-----------------------------------------------------------------------------
(* the parts of ResponseOrderInv that speak of one frame on its way *)
ResponseInOrder(i, p) ==
  LET frame == responses[i][p]
  IN /\ frame.req \in 1..accepted
     /\ frame.req <= measured.req => i # heard.iface /\ frame.at <= heard.ts + MaxLag
     /\ \A q \in DOMAIN responses[i] : p < q => frame.req < responses[i][q].req

(* what is left of a line of responses keeps its order *)
LEMMA ResponsesLeftInOrder ==
  ASSUME TypeOK, ResponseOrderInv, NEW i \in Ifaces, responses[i] # <<>>,
         responses' = [responses EXCEPT ![i] = Tail(@)],
         UNCHANGED <<heard, accepted, measured>>
  PROVE  \A j \in Ifaces : \A p \in DOMAIN responses'[j] : ResponseInOrder(j, p)'
<1> SUFFICES ASSUME NEW j \in Ifaces, NEW p \in DOMAIN responses'[j]
             PROVE  ResponseInOrder(j, p)'
  OBVIOUS
<1>1. \A q \in DOMAIN responses[j] : ResponseInOrder(j, q)
  BY DEF ResponseOrderInv, ResponseInOrder
<1>2. CASE j # i
  <2>1. responses'[j] = responses[j]
    BY <1>2 DEF TypeOK
  <2> QED
    BY <1>1, <2>1 DEF ResponseInOrder
<1>3. CASE j = i
  <2>1. responses[i] \in Seq(Frames) /\ responses'[j] = Tail(responses[i])
    BY <1>3 DEF TypeOK
  <2>2. \A q \in DOMAIN responses'[j] : /\ q + 1 \in DOMAIN responses[j] /\ q \in Nat
                                        /\ responses'[j][q] = responses[j][q + 1]
    <3>1. \A q \in DOMAIN Tail(responses[i]) :
            q + 1 \in DOMAIN responses[i] /\ q \in Nat /\ Tail(responses[i])[q] = responses[i][q + 1]
      BY <2>1, TailOfLine
    <3> QED
      BY <1>3, <2>1, <3>1
  <2>3. ResponseInOrder(j, p + 1)
    BY <1>1, <2>2
  <2>4. ASSUME NEW q \in DOMAIN responses'[j], p < q
        PROVE  responses'[j][p].req < responses'[j][q].req
    <3>1. /\ p \in Nat /\ q \in Nat /\ q + 1 \in DOMAIN responses[j]
          /\ responses'[j][p] = responses[j][p + 1]
          /\ responses'[j][q] = responses[j][q + 1]
      BY <2>2
    <3>2. p + 1 < q + 1
      BY <2>4, <3>1
    <3> QED
      BY <2>3, <3>1, <3>2 DEF ResponseInOrder
  <2>5. /\ responses'[j][p].req \in 1..accepted
        /\ responses'[j][p].req <= measured.req =>
             j # heard.iface /\ responses'[j][p].at <= heard.ts + MaxLag
    BY <2>2, <2>3 DEF ResponseInOrder
  <2> QED
    BY <2>4, <2>5 DEF ResponseInOrder
<1> QED
  BY <1>2, <1>3

(* the answer to a newer request joins its line behind older ones *)
LEMMA AnswerInOrder ==
  ASSUME TypeOK, RequestInv, ResponseInv, ResponseOrderInv, Prompt,
         NEW i \in Ifaces,
         NEW ts \in Samples(served), ReadRequest(i, ts)
  PROVE  ResponseOrderInv'
<1> DEFINE frame == Head(requests[i])
           answer == [req |-> frame.req, at |-> clock]
<1>1. /\ requests[i] \in Seq(Frames) /\ requests[i] # <<>>
      /\ UNCHANGED <<heard, measured>> /\ clock \in Nat
      /\ accepted \in Nat /\ measured.req \in Nat /\ measured.req <= accepted
      /\ heard = NoSession <=> measured.req = 0
  BY DEF TypeOK, ReadRequest, ResponseOrderInv
<1>2. frame.req \in Nat \ {0}
  BY <1>1, TailOfLine DEF Frames
<1>3. CASE UNCHANGED <<accepted, responses>>
  BY <1>1, <1>3 DEF ResponseOrderInv
<1>4. CASE Accepts(served, Tid(frame.req), ts, i)
  <2>1. /\ responses' = [responses EXCEPT ![i] = Append(@, answer)]
        /\ accepted' = frame.req /\ frame.req > accepted
    BY <1>4, RequestTakenIsNewer DEF ReadRequest, Respond
  <2> HIDE DEF frame
  <2>2. answer \in Frames
    BY <1>1, <1>2 DEF Frames
  <2>3. ASSUME NEW j \in Ifaces, NEW p \in DOMAIN responses'[j]
        PROVE  ResponseInOrder(j, p)'
    <3>1. \A q \in DOMAIN responses[j] : ResponseInOrder(j, q)
      BY DEF ResponseOrderInv, ResponseInOrder
    <3>2. \A q \in DOMAIN responses[j] :
            responses[j][q].req \in 1..accepted /\ responses[j][q].req < frame.req
      BY <1>1, <1>2, <2>1, <3>1 DEF ResponseInOrder
    <3>3. CASE j # i
      <4>1. responses'[j] = responses[j]
        BY <2>1, <3>3 DEF TypeOK
      <4>2. ResponseInOrder(j, p) /\ responses[j][p].req \in 1..accepted
        BY <3>1, <3>2, <4>1
      <4>3. responses[j][p].req \in 1..accepted'
        BY <1>1, <1>2, <2>1, <4>2
      <4>4. measured' = measured /\ heard' = heard
        BY <1>1
      <4> QED
        BY <4>1, <4>2, <4>3, <4>4 DEF ResponseInOrder
    <3>4. CASE j = i
      <4>1. responses[j] \in Seq(Frames) /\ responses'[j] = Append(responses[j], answer)
        BY <2>1, <3>4 DEF TypeOK
      <4>2. /\ DOMAIN responses'[j] = 1..(Len(responses[j]) + 1)
            /\ DOMAIN responses[j] = 1..Len(responses[j]) /\ Len(responses[j]) \in Nat
            /\ \A q \in DOMAIN responses[j] : responses'[j][q] = responses[j][q]
            /\ responses'[j][Len(responses[j]) + 1] = answer
        BY <2>2, <4>1, EndOfLine
      <4>3. CASE p = Len(responses[j]) + 1
        <5>1. responses'[j][p].req = frame.req
          BY <4>2, <4>3
        <5>2. \A q \in DOMAIN responses'[j] : ~(p < q)
          BY <4>2, <4>3
        <5>3. frame.req \in 1..accepted' /\ ~(frame.req <= measured'.req)
          BY <1>1, <1>2, <2>1
        <5> QED
          BY <5>1, <5>2, <5>3 DEF ResponseInOrder
      <4>4. CASE p # Len(responses[j]) + 1
        <5>1. p \in DOMAIN responses[j] /\ responses'[j][p] = responses[j][p]
          BY <4>2, <4>4
        <5>2. responses[j][p].req \in 1..accepted' /\ responses[j][p].req < frame.req
          BY <1>1, <1>2, <2>1, <3>2, <5>1
        <5>3. ASSUME NEW q \in DOMAIN responses'[j], p < q
              PROVE  responses[j][p].req < responses'[j][q].req
          <6>1. CASE q = Len(responses[j]) + 1
            BY <4>2, <5>2, <6>1
          <6>2. CASE q # Len(responses[j]) + 1
            <7>1. q \in DOMAIN responses[j] /\ responses'[j][q] = responses[j][q]
              BY <4>2, <6>2
            <7> QED
              BY <3>1, <5>1, <5>3, <7>1 DEF ResponseInOrder
          <6> QED
            BY <6>1, <6>2
        <5> QED
          BY <1>1, <3>1, <5>1, <5>2, <5>3 DEF ResponseInOrder
      <4> QED
        BY <4>3, <4>4
    <3> QED
      BY <3>3, <3>4
  <2>4. measured'.req <= accepted'
    BY <1>1, <1>2, <2>1
  <2> QED
    BY <1>1, <2>3, <2>4 DEF ResponseOrderInv, ResponseInOrder
<1> QED
  BY <1>3, <1>4 DEF ReadRequest

(* read promptly, a response that is taken is newer than the last one *)
LEMMA ResponseTakenIsNewer ==
  ASSUME TypeOK, ResponseOrderInv, Prompt, NEW i \in Ifaces,
         NEW ts \in Samples(heard), ReadResponse(i, ts),
         Accepts(heard, Tid(Head(responses[i]).req), ts, i)
  PROVE  Head(responses[i]).req > measured.req
<1> DEFINE frame == Head(responses[i])
<1>1. responses[i] \in Seq(Frames) /\ responses[i] # <<>>
  BY DEF TypeOK, ReadResponse
<1>2. frame = responses[i][1] /\ 1 \in DOMAIN responses[i] /\ frame \in Frames
  BY <1>1, TailOfLine
<1>3. ResponseInOrder(i, 1)
  BY <1>2 DEF ResponseOrderInv, ResponseInOrder
<1>4. frame.req \in Nat \ {0} /\ frame.at \in Nat /\ clock \in Nat /\ measured.req \in Nat
  BY <1>2 DEF Frames, TypeOK
<1>5. frame.req <= measured.req => frame.at <= heard.ts + MaxLag /\ i # heard.iface
  BY <1>2, <1>3 DEF ResponseInOrder
<1>6. clock <= frame.at + MaxDelay
  BY DEF ReadResponse, InTime
<1> HIDE DEF frame
<1>7. SUFFICES ASSUME frame.req <= measured.req PROVE FALSE
  BY <1>4 DEF frame
<1>8. heard # NoSession /\ heard.ts \in Nat
  BY <1>4, <1>7 DEF ResponseOrderInv, TypeOK, Sessions
<1>9. ~TimedOut(heard, ts)
  BY <1>4, SampleType, <1>5, <1>6, <1>7, <1>8, CanardRxAssumption, LatencyAssumption
  DEF TimedOut, Prompt
<1> QED
  BY <1>5, <1>7, <1>8, <1>9 DEF Accepts, NewOnInterface

(* reading a response leaves the lines in order *)
LEMMA ReceiveResponseInOrder ==
  ASSUME TypeOK, ResponseInv, ResponseOrderInv, NEW i \in Ifaces,
         NEW ts \in Samples(heard), ReadResponse(i, ts)
  PROVE  ResponseOrderInv'
<1> DEFINE frame == Head(responses[i])
<1>1. /\ responses[i] \in Seq(Frames) /\ responses[i] # <<>>
      /\ responses' = [responses EXCEPT ![i] = Tail(@)]
      /\ UNCHANGED <<clock, accepted>> /\ clock \in Nat /\ accepted \in Nat
  BY DEF TypeOK, ReadResponse
<1>2. /\ frame = responses[i][1] /\ 1 \in DOMAIN responses[i]
      /\ frame.req \in Nat \ {0}
  BY <1>1, TailOfLine DEF Frames
<1>3. frame.req \in 1..accepted
  BY <1>2 DEF ResponseOrderInv
<1>4. CASE UNCHANGED <<heard, measured>>
  <2>1. \A j \in Ifaces : \A p \in DOMAIN responses'[j] : ResponseInOrder(j, p)'
    BY <1>1, <1>4, ResponsesLeftInOrder
  <2> QED
    BY <1>1, <1>4, <2>1 DEF ResponseOrderInv, ResponseInOrder
<1>5. CASE heard' = SessionAfter(heard, Tid(frame.req), ts, i) /\ measured'.req = frame.req
  <2>1. heard'.iface = i /\ heard'.ts = ts /\ heard' # NoSession
    BY <1>1, <1>2, <1>5, SampleType, SessionType DEF SessionAfter
  <2>2. ASSUME NEW j \in Ifaces, NEW p \in DOMAIN responses'[j]
        PROVE  ResponseInOrder(j, p)'
    <3>1. \A q \in DOMAIN responses[j] : /\ ResponseInOrder(j, q)
                                         /\ responses[j][q].at <= heard'.ts + MaxLag
      <4>1. \A q \in DOMAIN responses[j] :
              ResponseInOrder(j, q) /\ responses[j][q].at <= clock
        BY DEF ResponseOrderInv, ResponseInOrder, ResponseInv
      <4>2. \A q \in DOMAIN responses[j] : responses[j][q].at \in Nat
        <5>1. \A q \in DOMAIN responses[j] : responses[j][q] \in Frames
          BY DEF TypeOK
        <5> QED
          BY <5>1 DEF Frames
      <4>3. clock <= ts + MaxLag /\ ts \in Nat /\ clock \in Nat /\ MaxLag \in Nat
        BY SampleType
      <4> QED
        BY <2>1, <4>1, <4>2, <4>3
    <3>2. CASE j # i
      <4>1. responses'[j] = responses[j]
        BY <1>1, <3>2 DEF TypeOK
      <4> QED
        BY <1>1, <2>1, <3>1, <3>2, <4>1 DEF ResponseInOrder
    <3>3. CASE j = i
      <4>1. responses'[j] = Tail(responses[i])
        BY <1>1, <3>3 DEF TypeOK
      <4>2. \A q \in DOMAIN responses'[j] : /\ q + 1 \in DOMAIN responses[j]
                                            /\ q \in Nat \ {0}
                                            /\ responses'[j][q] = responses[j][q + 1]
        BY <1>1, <3>3, <4>1, TailOfLine
      <4>3. ResponseInOrder(j, p + 1)
        BY <3>1, <4>2
      <4>4. frame.req < responses'[j][p].req
        <5>1. ResponseInOrder(j, 1) /\ p + 1 \in DOMAIN responses[j] /\ 1 < p + 1
          BY <1>2, <3>1, <3>3, <4>2
        <5> QED
          BY <1>2, <3>3, <4>2, <5>1 DEF ResponseInOrder
      <4>5. responses'[j][p].req \in Nat
        BY <1>1, <4>2, <4>3 DEF ResponseInOrder
      <4>6. measured'.req = frame.req /\ frame.req \in Nat
        BY <1>2, <1>5
      <4> HIDE DEF frame
      <4>7. ~(responses'[j][p].req <= measured'.req)
        BY <4>4, <4>5, <4>6
      <4>8. \A q \in DOMAIN responses'[j] : p < q => responses'[j][p].req < responses'[j][q].req
        <5>1. \A q \in DOMAIN responses'[j] : p < q => p + 1 < q + 1
          BY <4>2
        <5> QED
          BY <4>2, <4>3, <5>1 DEF ResponseInOrder
      <4> QED
        BY <1>1, <4>2, <4>3, <4>7, <4>8 DEF ResponseInOrder
    <3> QED
      BY <3>2, <3>3
  <2>3. measured'.req # 0 /\ measured'.req <= accepted'
    BY <1>1, <1>2, <1>3, <1>5
  <2> QED
    BY <2>1, <2>2, <2>3 DEF ResponseOrderInv, ResponseInOrder
<1> QED
  BY <1>4, <1>5 DEF ReadResponse

(* every step preserves the order of the responses, read promptly *)
LEMMA ResponseOrderStep ==
  ASSUME TypeOK, RequestInv, ResponseInv, ResponseOrderInv, Prompt, [Next]_vars
  PROVE  ResponseOrderInv'
<1>1. ASSUME NEW i \in Ifaces, NEW ts \in Samples(served), ReadRequest(i, ts)
      PROVE  ResponseOrderInv'
  BY <1>1, AnswerInOrder
<1>2. ASSUME NEW i \in Ifaces, NEW ts \in Samples(heard), ReadResponse(i, ts)
      PROVE  ResponseOrderInv'
  BY <1>2, ReceiveResponseInOrder
<1>3. ASSUME NEW i \in Ifaces, LoseResponse(i)
      PROVE  ResponseOrderInv'
  <2>1. \A j \in Ifaces : \A p \in DOMAIN responses'[j] : ResponseInOrder(j, p)'
    BY <1>3, ResponsesLeftInOrder DEF LoseResponse
  <2> QED
    BY <1>3, <2>1 DEF ResponseOrderInv, ResponseInOrder, LoseResponse
<1>4. CASE UNCHANGED <<responses, heard, accepted, measured>>
  BY <1>4 DEF ResponseOrderInv
<1> QED
  BY <1>1, <1>2, <1>3, <1>4
  DEF Next, ReceiveRequest, ReceiveResponse, ReceiveNothing, Request, LoseRequest, Tick, vars

(* the order of the responses holds before anything was sent *)
LEMMA ResponseOrderInit == Init => ResponseOrderInv
<1> SUFFICES ASSUME Init PROVE ResponseOrderInv
  OBVIOUS
<1>1. measured.req = 0 /\ accepted = 0 /\ heard = NoSession
      /\ \A i \in Ifaces : responses[i] = <<>>
  BY DEF Init, NothingMeasured
<1> QED
  BY <1>1 DEF ResponseOrderInv

(* Read promptly, a request is measured at most once and no measurement    *)
(* follows that of a later request, through two sessions in a row          *)
(* (OpenCyphal.cpp:98-101, LatencyMeasurementNode.cpp:37-43).              *)
THEOREM MeasuredInOrder == Spec => MeasurementsInOrder
<1>1. ASSUME TypeOK, ResponseOrderInv, [Next]_vars, Prompt, heard' # heard
      PROVE  measured'.req > measured.req
  <2>1. PICK i \in Ifaces : \E ts \in Samples(heard) : ReadResponse(i, ts)
    BY <1>1 DEF Next, ReceiveNothing, Request, Tick, ReceiveResponse, ReceiveRequest,
                ReadRequest, LoseRequest, LoseResponse, vars
  <2>2. PICK ts \in Samples(heard) : ReadResponse(i, ts)
    BY <2>1
  <2>3. /\ Accepts(heard, Tid(Head(responses[i]).req), ts, i)
        /\ measured'.req = Head(responses[i]).req
    BY <1>1, <2>2 DEF ReadResponse
  <2> QED
    BY <1>1, <2>2, <2>3, ResponseTakenIsNewer
<1>2. TypeOK /\ (Prompt => ResponseOrderInv) /\ [Next]_vars =>
        [MaxDelay + MaxLag <= TidTimeout /\ heard' # heard => measured'.req > measured.req]_vars
  BY <1>1 DEF Prompt
<1>3. Spec => []RequestInv
  BY RequestInit, RequestStep, LatencyTypeCorrect, PTL DEF Spec
<1>4. Spec => []ResponseInv
  BY <1>3, ResponseInit, ResponseStep, LatencyTypeCorrect, PTL DEF Spec
<1>5. Init => (Prompt => ResponseOrderInv)
  BY ResponseOrderInit
<1>6. TypeOK /\ RequestInv /\ ResponseInv /\ (Prompt => ResponseOrderInv) /\ [Next]_vars
        => (Prompt => ResponseOrderInv)'
  BY ResponseOrderStep DEF Prompt
<1>7. Spec => [](Prompt => ResponseOrderInv)
  BY <1>3, <1>4, <1>5, <1>6, LatencyTypeCorrect, PTL DEF Spec
<1> QED
  BY <1>2, <1>7, LatencyTypeCorrect, PTL DEF Spec, MeasurementsInOrder

-----------------------------------------------------------------------------
(* a remainder differs from its number by a multiple *)
LEMMA MultipleApart ==
  ASSUME NEW a \in Int, NEW m \in Int, m > 0
  PROVE  a \div m \in Int /\ a % m = a - m * (a \div m)
  OBVIOUS

(* less than m IDs ahead does not look like the ID before the expected one *)
LEMMA AheadIsNoRepetition ==
  ASSUME NEW a \in Nat, NEW m \in Nat, m > 0, NEW d \in 1..(m - 1)
  PROVE  (((a + 1) % m) - ((a + d) % m)) % m # 1
<1> DEFINE p == (a + 1) \div m
           q == (a + d) \div m
           x == (a + 1) % m
           y == (a + d) % m
           t == (x - y) \div m
           r == (x - y) % m
<1>1. p \in Int /\ x = a + 1 - m * p
  BY MultipleApart
<1>2. q \in Int /\ y = a + d - m * q
  BY MultipleApart
<1>3. x \in Int /\ y \in Int
  OBVIOUS
<1> HIDE DEF x, y, p, q
<1>4. t \in Int /\ r = x - y - m * t
  BY <1>3, MultipleApart
<1> HIDE DEF t, r
<1>5. SUFFICES ASSUME r = 1 PROVE FALSE
  BY DEF r, x, y
<1> DEFINE k == q - p - t
<1>6. k \in Int /\ m * k = d
  <2>1. x - y = 1 - d + m * q - m * p
    BY <1>1, <1>2
  <2>2. x - y = 1 + m * t
    BY <1>3, <1>4, <1>5
  <2>3. m * k = m * q - m * p - m * t
    BY <1>1, <1>2, <1>4
  <2> DEFINE mq == m * q
             mp == m * p
             mt == m * t
  <2>4. mq \in Int /\ mp \in Int /\ mt \in Int
    BY <1>1, <1>2, <1>4
  <2>5. x - y = 1 - d + mq - mp /\ x - y = 1 + mt /\ m * k = mq - mp - mt
    BY <2>1, <2>2, <2>3
  <2> HIDE DEF mq, mp, mt, k
  <2>6. m * k = d
    BY <1>3, <2>4, <2>5
  <2> QED
    BY <1>1, <1>2, <1>4, <2>6 DEF k
<1> HIDE DEF k
<1>7. CASE k <= 0
  BY <1>6, <1>7
<1>8. CASE k >= 1
  BY <1>6, <1>8
<1> QED
  BY <1>6, <1>7, <1>8

(* A newer request on the interface of the session is taken however many   *)
(* were lost before it, short of a full round of transfer IDs.             *)
THEOREM GapsBridged == Spec => GapsAreBridged
<1>1. ASSUME TypeOK, RequestInv, NEW i \in Ifaces, NEW ts \in Samples(served),
             ReadRequest(i, ts), served.iface = i,
             Head(requests[i]).req - accepted \in 1..(TidMod - 1)
      PROVE  accepted' = Head(requests[i]).req
  <2> DEFINE n == Head(requests[i]).req
             d == n - accepted
  <2>1. /\ requests[i] \in Seq(Frames) /\ requests[i] # <<>>
        /\ accepted \in Nat /\ TidMod \in Nat /\ TidMod > 0
    BY <1>1, CanardRxAssumption DEF TypeOK, ReadRequest
  <2>2. n \in Nat \ {0}
    BY <2>1, TailOfLine DEF Frames
  <2>3. d \in 1..(TidMod - 1) /\ n = accepted + d
    BY <1>1, <2>1, <2>2
  <2>4. CASE served = NoSession
    BY <1>1, <2>4 DEF ReadRequest, Accepts
  <2>5. CASE served # NoSession
    <3>1. served.tid = Tid(accepted + 1)
      BY <1>1, <2>5 DEF RequestInv
    <3> DEFINE before == accepted - 1
    <3>2. (((before + 1) % TidMod) - ((before + d) % TidMod)) % TidMod # 1
      <4>1. d \in 1..(TidMod - 1)
        BY <2>3
      <4>2. before \in Nat
        BY <1>1, <2>1, <2>5 DEF RequestInv
      <4> HIDE DEF d, before
      <4> QED
        BY <2>1, <4>1, <4>2, AheadIsNoRepetition
    <3>3. (served.tid - Tid(n)) % TidMod # 1
      <4>1. before + 1 = (accepted + 1) - 1 /\ before + d = n - 1
        BY <2>1, <2>2, <2>3, SMTT(30)
      <4> HIDE DEF d, before
      <4> QED
        BY <3>1, <3>2, <4>1 DEF Tid
    <3>4. Accepts(served, Tid(n), ts, i)
      BY <1>1, <3>3 DEF Accepts, NewOnInterface
    <3> QED
      BY <1>1, <3>4 DEF ReadRequest
  <2> QED
    BY <2>4, <2>5
<1>2. TypeOK /\ RequestInv =>
        [\A i \in Ifaces :
           ReceiveRequest(i) /\ served.iface = i
             /\ Head(requests[i]).req - accepted \in 1..(TidMod - 1)
               => accepted' = Head(requests[i]).req]_vars
  BY <1>1 DEF ReceiveRequest
<1>3. Spec => []RequestInv
  BY RequestInit, RequestStep, LatencyTypeCorrect, PTL DEF Spec
<1> QED
  BY <1>2, <1>3, LatencyTypeCorrect, PTL DEF Spec, GapsAreBridged

-----------------------------------------------------------------------------
(* Measurements implement Exchange.                                        *)

(* Delays are shorter than the timeout and than a round of transfer IDs.   *)
Timely == MaxDelay + MaxLag <= TidTimeout /\ 2 * MaxDelay < TidMod * Spacing

(* What the steps are mapped by.                                           *)
ExchangeInv == TypeOK /\ RequestInv /\ ResponseInv /\ StampInv /\ ResponseOrderInv

(* The requests that are being answered, frame by frame.                   *)
LEMMA AnswersOnLines ==
  /\ \A n : n \in Answers <=> \E i \in Ifaces : \E p \in DOMAIN responses[i] : responses[i][p].req = n
  /\ \A n : n \in Answers' <=> \E i \in Ifaces : \E p \in DOMAIN responses'[i] : responses'[i][p].req = n
  BY DEF Answers

(* An answer that leaves its line adds no other.                           *)
LEMMA AnswersLeft ==
  ASSUME TypeOK, NEW i \in Ifaces, responses[i] # <<>>,
         responses' = [responses EXCEPT ![i] = Tail(@)]
  PROVE  Answers' \in SUBSET Answers
<1> SUFFICES ASSUME NEW n \in Answers' PROVE n \in Answers
  OBVIOUS
<1>1. PICK j \in Ifaces : \E p \in DOMAIN responses'[j] : responses'[j][p].req = n
  BY AnswersOnLines
<1>2. PICK p \in DOMAIN responses'[j] : responses'[j][p].req = n
  BY <1>1
<1>3. CASE j # i
  <2>1. responses'[j] = responses[j]
    BY <1>3 DEF TypeOK
  <2> QED
    BY <1>2, <2>1, AnswersOnLines
<1>4. CASE j = i
  <2>1. responses[i] \in Seq(Frames) /\ responses'[i] = Tail(responses[i])
    BY DEF TypeOK
  <2>2. p + 1 \in DOMAIN responses[i] /\ responses'[i][p] = responses[i][p + 1]
    BY <1>4, <2>1, TailOfLine
  <2> QED
    BY <1>2, <1>4, <2>2, AnswersOnLines
<1> QED
  BY <1>3, <1>4

(* An answer that joins a line is one more.                                *)
LEMMA AnswerJoins ==
  ASSUME TypeOK, NEW i \in Ifaces, NEW frame \in Frames,
         responses' = [responses EXCEPT ![i] = Append(@, frame)]
  PROVE  Answers' = Answers \cup {frame.req}
<1> DEFINE l == Len(responses[i])
<1>1. /\ responses'[i] = Append(responses[i], frame) /\ l \in Nat
      /\ \A j \in Ifaces : j # i => responses'[j] = responses[j]
  BY DEF TypeOK
<1>2. /\ DOMAIN responses'[i] = 1..(l + 1) /\ DOMAIN responses[i] = 1..l
      /\ \A p \in DOMAIN responses[i] : responses'[i][p] = responses[i][p]
      /\ responses'[i][l + 1] = frame
  <2>1. responses[i] \in Seq(Frames)
    BY DEF TypeOK
  <2> QED
    BY <1>1, <2>1, EndOfLine
<1> HIDE DEF l
<1>3. ASSUME NEW n \in Answers'
      PROVE  n \in Answers \cup {frame.req}
  <2>1. PICK j \in Ifaces : \E p \in DOMAIN responses'[j] : responses'[j][p].req = n
    BY <1>3, AnswersOnLines
  <2>2. PICK p \in DOMAIN responses'[j] : responses'[j][p].req = n
    BY <2>1
  <2>3. CASE j # i
    BY <1>1, <2>2, <2>3, AnswersOnLines
  <2>4. CASE j = i /\ p = l + 1
    BY <1>2, <2>2, <2>4
  <2>5. CASE j = i /\ p # l + 1
    <3>1. p \in DOMAIN responses[i] /\ responses[i][p].req = n
      BY <1>1, <1>2, <2>2, <2>5
    <3> QED
      BY <3>1, AnswersOnLines
  <2> QED
    BY <2>3, <2>4, <2>5
<1>4. ASSUME NEW n \in Answers
      PROVE  n \in Answers'
  <2>1. PICK j \in Ifaces : \E p \in DOMAIN responses[j] : responses[j][p].req = n
    BY <1>4, AnswersOnLines
  <2>2. PICK p \in DOMAIN responses[j] : responses[j][p].req = n
    BY <2>1
  <2>3. p \in DOMAIN responses'[j] /\ responses'[j][p] = responses[j][p]
    BY <1>1, <1>2, <2>2
  <2> QED
    BY <2>2, <2>3, AnswersOnLines
<1>5. frame.req \in Answers'
  <2>1. l + 1 \in DOMAIN responses'[i]
    BY <1>1, <1>2
  <2> QED
    BY <1>2, <2>1, AnswersOnLines
<1> QED
  BY <1>3, <1>4, <1>5

(* A request that the responder takes is taken.                            *)
LEMMA TakeImplements ==
  ASSUME ExchangeInv, Timely, NEW i \in Ifaces,
         NEW ts \in Samples(served), ReadRequest(i, ts)
  PROVE  Exchange!Next \/ UNCHANGED Exchange!vars
<1> DEFINE frame == Head(requests[i])
           n == frame.req
<1>1. TypeOK /\ RequestInv /\ Prompt
  BY DEF ExchangeInv, Timely, Prompt
<1>2. /\ requests[i] \in Seq(Frames) /\ requests[i] # <<>>
      /\ UNCHANGED <<clock, sent, measured>> /\ clock \in Nat
  BY <1>1 DEF TypeOK, ReadRequest
<1>3. frame = requests[i][1] /\ 1 \in DOMAIN requests[i] /\ n \in Nat \ {0}
  BY <1>2, TailOfLine DEF Frames
<1>4. n \in DOMAIN sent /\ clock <= sent[n] + MaxDelay
  BY <1>1, <1>3 DEF RequestInv, ReadRequest, InTime
<1>5. CASE Accepts(served, Tid(n), ts, i)
  <2>1. n > accepted
    BY <1>1, <1>5, RequestTakenIsNewer
  <2>2. accepted' = n /\ responses' = [responses EXCEPT ![i] = Append(@, [req |-> n, at |-> clock])]
    BY <1>5 DEF ReadRequest, Respond
  <2> HIDE DEF n
  <2>3. [req |-> n, at |-> clock] \in Frames
    BY <1>2, <1>3 DEF Frames
  <2>4. Answers' = Answers \cup {n}
    BY <1>1, <2>2, <2>3, AnswerJoins
  <2>5. Exchange!Take(n)
    BY <1>2, <1>4, <2>1, <2>2, <2>4 DEF Exchange!Take
  <2> QED
    BY <1>4, <2>5 DEF Exchange!Next
<1>6. CASE ~Accepts(served, Tid(n), ts, i)
  BY <1>2, <1>6 DEF ReadRequest, Exchange!vars, Answers
<1> QED
  BY <1>5, <1>6

(* A response that the requester takes is measured, any other is lost.     *)
LEMMA MeasureImplements ==
  ASSUME ExchangeInv, Timely, NEW i \in Ifaces,
         NEW ts \in Samples(heard), ReadResponse(i, ts)
  PROVE  Exchange!Next \/ UNCHANGED Exchange!vars
<1> DEFINE frame == Head(responses[i])
           n == frame.req
<1>1. /\ TypeOK /\ RequestInv /\ ResponseInv /\ StampInv /\ ResponseOrderInv
      /\ Prompt /\ 2 * MaxDelay < TidMod * Spacing
  BY DEF ExchangeInv, Timely, Prompt
<1>2. /\ responses[i] \in Seq(Frames) /\ responses[i] # <<>>
      /\ responses' = [responses EXCEPT ![i] = Tail(@)]
      /\ UNCHANGED <<clock, sent, accepted>> /\ clock \in Nat
      /\ sent \in Seq(Nat) /\ MaxDelay \in Nat
  BY <1>1, LatencyAssumption DEF TypeOK, ReadResponse
<1>3. /\ frame = responses[i][1] /\ 1 \in DOMAIN responses[i]
      /\ n \in Nat \ {0} /\ frame.at \in Nat
  BY <1>2, TailOfLine DEF Frames
<1>4. n \in Answers
  BY <1>3, AnswersOnLines
<1>5. Answers' \in SUBSET Answers
  BY <1>1, <1>2, AnswersLeft
<1>6. n \in DOMAIN sent /\ clock <= sent[n] + 2 * MaxDelay
  <2>1. n \in DOMAIN sent /\ frame.at <= sent[n] + MaxDelay
    BY <1>1, <1>3 DEF ResponseInv
  <2>2. clock <= frame.at + MaxDelay
    BY DEF ReadResponse, InTime
  <2>3. sent[n] \in Nat
    BY <1>2, <2>1
  <2>4. clock \in Nat /\ MaxDelay \in Nat /\ frame.at \in Nat
    BY <1>2, <1>3
  <2> HIDE DEF n, frame
  <2>5. clock <= sent[n] + 2 * MaxDelay
    BY <2>1, <2>2, <2>3, <2>4
  <2> QED
    BY <2>1, <2>5
<1>7. CASE Accepts(heard, Tid(n), ts, i)
  <2>1. n > measured.req
    BY <1>1, <1>7, ResponseTakenIsNewer
  <2>2. measured' = [req |-> n, stamp |-> latency[Tid(n)], at |-> clock]
    BY <1>7 DEF ReadResponse
  <2>3. latency[Tid(n)] = sent[n]
    BY <1>1, ResponseIsRecent DEF StampInv
  <2> HIDE DEF n
  <2>4. Exchange!Measure(n)
    BY <1>2, <1>4, <1>5, <1>6, <2>1, <2>2, <2>3 DEF Exchange!Measure
  <2> QED
    BY <1>6, <2>4 DEF Exchange!Next
<1>8. CASE ~Accepts(heard, Tid(n), ts, i)
  <2>1. UNCHANGED measured
    BY <1>8 DEF ReadResponse
  <2>2. Exchange!Lose
    BY <1>2, <1>5, <2>1 DEF Exchange!Lose
  <2> QED
    BY <2>2 DEF Exchange!Next
<1> QED
  BY <1>7, <1>8

(* Every step is one of Exchange, or none.                                 *)
LEMMA ExchangeStep ==
  ASSUME ExchangeInv, Timely, [Next]_vars
  PROVE  [Exchange!Next]_Exchange!vars
<1>1. ASSUME NEW i \in Ifaces, NEW ts \in Samples(served), ReadRequest(i, ts)
      PROVE  [Exchange!Next]_Exchange!vars
  BY <1>1, TakeImplements
<1>2. ASSUME NEW i \in Ifaces, NEW ts \in Samples(heard), ReadResponse(i, ts)
      PROVE  [Exchange!Next]_Exchange!vars
  BY <1>2, MeasureImplements
<1>3. ASSUME NEW i \in Ifaces, LoseResponse(i)
      PROVE  [Exchange!Next]_Exchange!vars
  <2>1. Answers' \in SUBSET Answers
    BY <1>3, AnswersLeft DEF ExchangeInv, LoseResponse
  <2>2. Exchange!Lose
    BY <1>3, <2>1 DEF LoseResponse, Exchange!Lose
  <2> QED
    BY <2>2 DEF Exchange!Next
<1>4. CASE Request
  <2>1. Exchange!Request
    BY <1>4 DEF Request, Exchange!Request, Answers
  <2> QED
    BY <2>1 DEF Exchange!Next
<1>5. CASE Tick
  <2>1. Exchange!Tick
    BY <1>5 DEF Tick, Exchange!Tick, Answers
  <2> QED
    BY <2>1 DEF Exchange!Next
<1>6. CASE UNCHANGED <<clock, sent, accepted, responses, measured>>
  BY <1>6 DEF Exchange!vars, Answers
<1> QED
  BY <1>1, <1>2, <1>3, <1>4, <1>5, <1>6
  DEF Next, ReceiveRequest, ReceiveResponse, ReceiveNothing, LoseRequest, vars

(* If delays are shorter than the timeout and than a round of transfer IDs *)
(* the two nodes implement Exchange: no interface, session, transfer ID or *)
(* slot of latency_ shows in what is measured, and no measurement exceeds  *)
(* two delays (LatencyMeasurementNode.cpp:19,38).                          *)
THEOREM MeasuringImplementsExchange == Timely => (Spec => ImplementsExchange)
<1> SUFFICES ASSUME Timely PROVE Spec => ImplementsExchange
  OBVIOUS
<1>1. Spec => []RequestInv
  BY RequestInit, RequestStep, LatencyTypeCorrect, PTL DEF Spec
<1>2. Spec => []ResponseInv
  BY <1>1, ResponseInit, ResponseStep, LatencyTypeCorrect, PTL DEF Spec
<1>3. Spec => []StampInv
  BY <1>1, <1>2, ResponseInit, StampStep, LatencyTypeCorrect, OwnRequestMeasured, PTL DEF Spec
<1>4. TypeOK /\ RequestInv /\ ResponseInv /\ ResponseOrderInv /\ [Next]_vars => ResponseOrderInv'
  BY ResponseOrderStep DEF Timely, Prompt
<1>5. Spec => []ResponseOrderInv
  BY <1>1, <1>2, <1>4, ResponseOrderInit, LatencyTypeCorrect, PTL DEF Spec
<1>6. Init => Exchange!Init
  <2> SUFFICES ASSUME Init PROVE Exchange!Init
    OBVIOUS
  <2>1. Answers = {}
    BY DEF Init, Answers
  <2> QED
    BY <2>1 DEF Init, Exchange!Init, NothingMeasured
<1>7. ExchangeInv /\ [Next]_vars => [Exchange!Next]_Exchange!vars
  BY ExchangeStep
<1> QED
  BY <1>1, <1>2, <1>3, <1>5, <1>6, <1>7, LatencyTypeCorrect, PTL
  DEF Spec, ImplementsExchange, Exchange!Spec, ExchangeInv

=============================================================================
