--------------------------- MODULE AgentTheorems ---------------------------
(***************************************************************************)
(* What the Agent's server keeps for any runs, proofs, calls and times: a    *)
(* run id is served once on a VM and a proof is good for one call, whatever   *)
(* crashes and power failures come between two steps.                       *)
(***************************************************************************)
EXTENDS AgentServer, TLAPS

\* What the call's side of the invariant says.
CallsAreBound == \A c \in Call : calls[c] # NoCall => calls[c].proof \in Proof /\ calls[c].proof.run = server
ServerIsServed == server # None => served[server] = 1
AcceptedAreSpent == \A p \in Proof : accepted[p] > 0 => AcceptedIsSpent(p)

\* A proof expires at a time that is a number.
LEMMA ExpiresIsTime ==
    ASSUME ConstantsOK, NEW p \in Proof
    PROVE  Expires(p) \in Nat
BY DEF ConstantsOK, Expires

\* A step that leaves the calls' side alone and serves nothing keeps it.
LEMMA CallFrame ==
    ASSUME ConstantsOK, IndInv, UNCHANGED <<callState, server, served>>
    PROVE  CallsAreBound' /\ ServerIsServed' /\ AcceptedAreSpent'
BY Zenon DEF IndInv, callState, CallsAreBound, ServerIsServed, AcceptedAreSpent, AcceptedIsSpent, Expires

\* markRunID: the id was not marked, so it was never served.
LEMMA MarkRunIDKeeps ==
    ASSUME ConstantsOK, IndInv, NEW r \in RunID, MarkRunID(r)
    PROVE  IndInv'
<1>1. /\ marker' = marker \cup {r} /\ starting' = [at |-> "SYNC", run |-> r] /\ server = None
      /\ r \notin marker /\ UNCHANGED <<durable, server, callState, served>>
  BY Zenon DEF MarkRunID
<1>2. CallsAreBound' /\ ServerIsServed' /\ AcceptedAreSpent'
  BY Zenon, <1>1, CallFrame
<1>3. TypeOK'
  BY Zenon, <1>1 DEF IndInv, TypeOK, callState
<1>4. StartIsOrdered'
  BY Zenon, <1>1 DEF StartIsOrdered
<1>5. ServedIsMarked'
  BY Zenon, <1>1 DEF IndInv, ServedIsMarked
<1> QED
  BY Zenon, <1>2, <1>3, <1>4, <1>5 DEF IndInv, CallsAreBound, ServerIsServed, AcceptedAreSpent

\* The two syncs of a start: only the mark of the id being started changes.
LEMMA SyncKeeps ==
    ASSUME ConstantsOK, IndInv, SyncRunID \/ SyncCleared
    PROVE  IndInv'
<1>1. /\ starting.at # "IDLE" /\ starting.run \in RunID /\ server = None
      /\ UNCHANGED <<marker, server, callState, served>>
  BY Zenon DEF SyncRunID, SyncCleared, IndInv, StartIsOrdered
<1>2. CallsAreBound' /\ ServerIsServed' /\ AcceptedAreSpent'
  BY Zenon, <1>1, CallFrame
<1>3. /\ durable' = durable \/ durable' = (durable \ {starting.run}) \cup (marker \cap {starting.run})
      /\ \/ starting' = NotStarting
         \/ /\ starting.at = "SYNC" /\ starting' = [starting EXCEPT !.at = "LISTEN"]
            /\ durable' = (durable \ {starting.run}) \cup (marker \cap {starting.run})
  BY Zenon DEF SyncRunID, SyncCleared, Synced, Goto
<1>4. starting \in [at : {"IDLE", "SYNC", "LISTEN", "CLEAR"}, run : RunID \cup {None}]
  BY Zenon DEF IndInv, TypeOK
<1>5. TypeOK'
  BY <1>1, <1>3, <1>4 DEF IndInv, TypeOK, callState, NotStarting
<1>6. StartIsOrdered'
  BY <1>1, <1>3, <1>4 DEF IndInv, StartIsOrdered, NotStarting
<1>7. ServedIsMarked'
  <2> SUFFICES ASSUME NEW r \in RunID, served[r] > 0
               PROVE  served[r] = 1 /\ r \in marker \cap durable' /\ starting'.run # r
    BY Zenon, <1>1 DEF ServedIsMarked
  <2>1. served[r] = 1 /\ r \in marker \cap durable /\ starting.run # r
    BY Zenon DEF IndInv, ServedIsMarked
  <2> QED
    BY <1>3, <1>4, <2>1 DEF NotStarting, ConstantsOK
<1> QED
  BY Zenon, <1>2, <1>5, <1>6, <1>7 DEF IndInv, CallsAreBound, ServerIsServed, AcceptedAreSpent

\* Listen serves an id that is durably marked and was not served; a failed bind
\* takes back a mark no served id needs.
LEMMA ListenKeeps ==
    ASSUME ConstantsOK, IndInv, Listen
    PROVE  IndInv'
<1> DEFINE s == starting.run
<1>1. /\ starting.at = "LISTEN" /\ s \in RunID /\ server = None /\ s \in marker \cap durable
      /\ UNCHANGED <<durable, calls, now, accepted>>
  BY Zenon DEF Listen, IndInv, StartIsOrdered
<1>2. served \in [RunID -> Nat] /\ served[s] = 0
  BY <1>1 DEF IndInv, TypeOK, ServedIsMarked
<1>3. starting \in [at : {"IDLE", "SYNC", "LISTEN", "CLEAR"}, run : RunID \cup {None}]
  BY Zenon DEF IndInv, TypeOK
<1>4. ASSUME server' = s, served' = [served EXCEPT ![s] = @ + 1],
             seenNonces' = NoNonces, starting' = NotStarting, marker' = marker
      PROVE  IndInv'
  <2>1. served' \in [RunID -> Nat] /\ served'[s] = 1 /\ \A r \in RunID \ {s} : served'[r] = served[r]
    BY <1>1, <1>2, <1>4
  <2>2. TypeOK'
    BY Zenon, <1>1, <1>4, <2>1 DEF IndInv, TypeOK, NoNonces, NotStarting
  <2>3. StartIsOrdered'
    BY Zenon, <1>4 DEF StartIsOrdered, NotStarting
  <2>4. ServedIsMarked'
    BY <1>1, <1>4, <2>1 DEF IndInv, ServedIsMarked, NotStarting, ConstantsOK
  <2>5. \A c \in Call : calls[c] = NoCall
    BY Zenon, <1>1 DEF IndInv, ConstantsOK
  <2>6. ASSUME NEW p \in Proof, accepted[p] > 0
        PROVE  accepted[p] = 1 /\ served'[p.run] = 1 /\ server' # p.run
    <3>1. accepted[p] = 1 /\ served[p.run] = 1 /\ p.run \in RunID
      BY Zenon, <2>6 DEF IndInv, AcceptedIsSpent, ConstantsOK
    <3> QED
      BY <3>1, <1>2, <1>4, <2>1
  <2> QED
    BY Zenon, <1>1, <1>4, <2>1, <2>2, <2>3, <2>4, <2>5, <2>6 DEF IndInv, AcceptedIsSpent
<1>5. ASSUME marker' = marker \ {s}, starting' = [starting EXCEPT !.at = "CLEAR"],
             UNCHANGED <<server, served, seenNonces>>
      PROVE  IndInv'
  <2>1. CallsAreBound' /\ ServerIsServed' /\ AcceptedAreSpent'
    BY Zenon, <1>1, <1>5, CallFrame DEF callState
  <2>2. TypeOK'
    BY Zenon, <1>1, <1>3, <1>5 DEF IndInv, TypeOK
  <2>3. StartIsOrdered'
    BY Zenon, <1>1, <1>3, <1>5 DEF StartIsOrdered
  <2>4. ServedIsMarked'
    BY Zenon, <1>1, <1>3, <1>5 DEF IndInv, ServedIsMarked
  <2> QED
    BY Zenon, <2>1, <2>2, <2>3, <2>4 DEF IndInv, CallsAreBound, ServerIsServed, AcceptedAreSpent
<1> QED
  BY Zenon, <1>4, <1>5 DEF Listen, Goto

\* A stop, a crash or a power failure: a served id was durable, so its mark is there
\* afterwards, and no call is left.
LEMMA DownKeeps ==
    ASSUME ConstantsOK, IndInv, Stop \/ Crash \/ PowerFailure
    PROVE  IndInv'
<1>1. /\ server' = None /\ starting' = NotStarting /\ \A c \in Call : calls'[c] = NoCall
      /\ UNCHANGED <<seenNonces, now, accepted, served>>
      /\ calls' \in [Call -> [proof : Proof \cup {None}]]
  BY DEF Stop, Crash, PowerFailure, Down, callState, IndInv, TypeOK, NoCall
<1>2. /\ marker' \subseteq RunID /\ durable' \subseteq RunID
      /\ marker \cap durable \subseteq marker' \cap durable'
  BY DEF Stop, Crash, PowerFailure, IndInv, TypeOK
<1>3. TypeOK'
  BY Zenon, <1>1, <1>2 DEF IndInv, TypeOK, NotStarting
<1>4. StartIsOrdered'
  BY Zenon, <1>1 DEF StartIsOrdered, NotStarting
<1>5. ServedIsMarked'
  BY Zenon, <1>1, <1>2 DEF IndInv, ServedIsMarked, NotStarting, ConstantsOK
<1>6. AcceptedAreSpent'
  BY Zenon, <1>1 DEF IndInv, AcceptedAreSpent, AcceptedIsSpent, ConstantsOK
<1> QED
  BY Zenon, <1>1, <1>3, <1>4, <1>5, <1>6 DEF IndInv, AcceptedAreSpent

\* The clock, and a call that passed the window and the signature.
LEMMA TickKeeps ==
    ASSUME ConstantsOK, IndInv, Tick
    PROVE  IndInv'
<1>1. /\ now' = now + 1 /\ now' \in 0 .. MaxTime /\ now \in Nat
      /\ UNCHANGED <<marker, durable, starting, server, seenNonces, calls, served, accepted>>
  BY DEF Tick, IndInv, TypeOK, ConstantsOK
<1>2. TypeOK' /\ StartIsOrdered' /\ ServedIsMarked'
  BY Zenon, <1>1 DEF IndInv, TypeOK, StartIsOrdered, ServedIsMarked
<1>3. ASSUME NEW p \in Proof, accepted[p] > 0
      PROVE  AcceptedIsSpent(p)'
  <2>1. AcceptedIsSpent(p) /\ Expires(p) \in Nat
    BY Zenon, <1>3, ExpiresIsTime DEF IndInv
  <2> QED
    BY <1>1, <2>1 DEF AcceptedIsSpent, Expires
<1> QED
  BY Zenon, <1>1, <1>2, <1>3 DEF IndInv

LEMMA AuthenticateKeeps ==
    ASSUME ConstantsOK, IndInv, NEW c \in Call, Authenticate(c)
    PROVE  IndInv'
<1>1. PICK p \in Proof : p.run = server /\ calls' = [calls EXCEPT ![c] = [proof |-> p]]
  BY Zenon DEF Authenticate
<1>2. UNCHANGED <<marker, durable, starting, server, seenNonces, now, served, accepted>>
  BY Zenon DEF Authenticate
<1>3. calls \in [Call -> [proof : Proof \cup {None}]]
  BY Zenon DEF IndInv, TypeOK
<1>4. TypeOK' /\ StartIsOrdered' /\ ServedIsMarked'
  BY Zenon, <1>1, <1>2, <1>3 DEF IndInv, TypeOK, StartIsOrdered, ServedIsMarked
<1>5. CallsAreBound'
  BY Zenon, <1>1, <1>2, <1>3 DEF IndInv, CallsAreBound
<1>6. AcceptedAreSpent'
  BY Zenon, <1>2 DEF IndInv, AcceptedAreSpent, AcceptedIsSpent, Expires
<1> QED
  BY Zenon, <1>2, <1>4, <1>5, <1>6 DEF IndInv, CallsAreBound, AcceptedAreSpent

\* markNonce: pruning forgets only expired nonces, so a proof of this server that is
\* still valid and was accepted is found, and refused.
LEMMA MarkNonceKeeps ==
    ASSUME ConstantsOK, IndInv, NEW c \in Call, MarkNonce(c)
    PROVE  IndInv'
<1> DEFINE p == calls[c].proof
<1>1. p \in Proof /\ p.run = server /\ server \in RunID /\ served[server] = 1
  BY DEF MarkNonce, IndInv, ConstantsOK
<1>2. /\ calls' = [calls EXCEPT ![c] = NoCall]
      /\ UNCHANGED <<marker, durable, starting, server, now, served>>
  BY Zenon DEF MarkNonce
<1>3. /\ DOMAIN Live = {k \in DOMAIN seenNonces : seenNonces[k] > now}
      /\ \A k \in DOMAIN Live : Live[k] = seenNonces[k] /\ Live[k] \in Nat /\ Live[k] > now
  BY Zenon DEF Live, Restrict, IndInv, TypeOK
<1>4. now \in Nat /\ accepted \in [Proof -> Nat] /\ calls \in [Call -> [proof : Proof \cup {None}]]
  BY DEF IndInv, TypeOK, ConstantsOK
<1>5. \A q \in Proof : Expires(q) \in Nat
  BY Zenon, ExpiresIsTime
\* A proof that counts as spent by the memory before is so by what pruning leaves.
<1>6. ASSUME NEW q \in Proof, accepted[q] > 0
      PROVE  /\ accepted[q] = 1 /\ served[q.run] = 1
             /\ \/ server # q.run
                \/ now >= Expires(q)
                \/ q.key \in DOMAIN Live /\ Live[q.key] >= Expires(q)
  <2>1. AcceptedIsSpent(q)
    BY Zenon, <1>6 DEF IndInv
  <2>2. \A k \in DOMAIN seenNonces : seenNonces[k] \in Nat
    BY Zenon DEF IndInv, TypeOK
  <2> QED
    BY <2>1, <2>2, <1>3, <1>4, <1>5 DEF AcceptedIsSpent
<1>7. /\ \A k \in DOMAIN seenNonces' : seenNonces'[k] \in Nat
      /\ accepted' \in [Proof -> Nat]
      /\ \A q \in Proof : accepted'[q] > 0 => AcceptedIsSpent(q)'
  <2>1. CASE p.key \in DOMAIN Live
    <3>1. seenNonces' = Live /\ accepted' = accepted
      BY Zenon, <2>1 DEF MarkNonce
    <3> QED
      BY Zenon, <3>1, <1>2, <1>3, <1>4, <1>6 DEF AcceptedIsSpent, Expires
  <2>2. CASE p.key \notin DOMAIN Live
    <3> DEFINE more == IF now < Expires(p) THEN 1 ELSE 0
    <3>1. /\ seenNonces' = [k \in DOMAIN Live \cup {p.key} |-> IF k = p.key THEN Expires(p) ELSE Live[k]]
          /\ accepted' = [accepted EXCEPT ![p] = @ + more]
      BY Zenon, <2>2 DEF MarkNonce
    <3>2. /\ DOMAIN seenNonces' = DOMAIN Live \cup {p.key} /\ seenNonces'[p.key] = Expires(p)
          /\ \A k \in DOMAIN Live : seenNonces'[k] = Live[k]
      BY Zenon, <3>1, <2>2
    <3>3. more \in 0 .. 1 /\ (now < Expires(p) <=> more = 1)
      OBVIOUS
    <3>4. /\ accepted' \in [Proof -> Nat] /\ accepted'[p] = accepted[p] + more
          /\ \A q \in Proof \ {p} : accepted'[q] = accepted[q]
      BY <3>1, <3>3, <1>1, <1>4
    <3>5. accepted[p] > 0 => accepted[p] = 1 /\ now >= Expires(p)
      BY Zenon, <1>1, <1>6, <2>2
    <3>6. \A k \in DOMAIN seenNonces' : seenNonces'[k] \in Nat
      BY Zenon, <3>2, <1>1, <1>3, <1>5
    <3>7. accepted'[p] > 0 => accepted'[p] = 1 /\ served'[p.run] = 1 /\ seenNonces'[p.key] >= Expires(p)
      BY <3>2, <3>3, <3>4, <3>5, <1>1, <1>2, <1>4, <1>5
    <3>8. \A q \in Proof : accepted'[q] > 0 => AcceptedIsSpent(q)'
      <4> SUFFICES ASSUME NEW q \in Proof, accepted'[q] > 0
                   PROVE  AcceptedIsSpent(q)'
        BY Zenon
      <4>1. CASE q = p
        BY Zenon, <4>1, <3>2, <3>7 DEF AcceptedIsSpent, Expires
      <4>2. CASE q # p
        <5>1. accepted'[q] = accepted[q] /\ accepted[q] > 0
          BY Zenon, <4>2, <3>4
        <5> QED
          BY Zenon, <5>1, <1>2, <1>6, <3>2 DEF AcceptedIsSpent, Expires
      <4> QED
        BY Zenon, <4>1, <4>2
    <3> QED
      BY Zenon, <3>4, <3>6, <3>8
  <2> QED
    BY Zenon, <2>1, <2>2
<1>8. calls' \in [Call -> [proof : Proof \cup {None}]] /\ CallsAreBound'
  BY Zenon, <1>2, <1>4 DEF IndInv, CallsAreBound, NoCall
<1>9. TypeOK' /\ StartIsOrdered' /\ ServedIsMarked'
  BY Zenon, <1>2, <1>7, <1>8 DEF IndInv, TypeOK, StartIsOrdered, ServedIsMarked
<1> QED
  BY Zenon, <1>2, <1>7, <1>8, <1>9 DEF IndInv, CallsAreBound

\* The inductive invariant: the mark of a served run is on the disk for good, and a
\* proof that was accepted is spent for as long as it is valid.
THEOREM Invariant ==
    ASSUME ConstantsOK
    PROVE  Spec => []IndInv
<1>1. Init => IndInv
  BY DEF Init, IndInv, TypeOK, StartIsOrdered, ServedIsMarked, NotStarting, NoCall, NoNonces, ConstantsOK
<1>2. IndInv /\ [Next]_vars => IndInv'
  <2> SUFFICES ASSUME IndInv, [Next]_vars
               PROVE  IndInv'
    BY Zenon
  <2>1. CASE Next
    BY Zenon, <2>1, MarkRunIDKeeps, SyncKeeps, ListenKeeps, DownKeeps, TickKeeps, AuthenticateKeeps, MarkNonceKeeps
    DEF Next
  <2>2. CASE UNCHANGED vars
    BY <2>2 DEF vars, IndInv, TypeOK, StartIsOrdered, ServedIsMarked, AcceptedIsSpent, Expires
  <2> QED
    BY Zenon, <2>1, <2>2
<1> QED
  BY <1>1, <1>2, PTL DEF Spec

\* A run id is served once on a VM, and a signed proof is good for one call, over
\* crashes and power failures (markRunID, markNonce).
THEOREM OneServerOneCall ==
    ASSUME ConstantsOK
    PROVE  Spec => []ProofsAreGoodOnce
<1>1. IndInv => ProofsAreGoodOnce
  <2> SUFFICES ASSUME IndInv
               PROVE  ProofsAreGoodOnce
    BY Zenon
  <2>1. RunIsServedOnce
    BY DEF IndInv, TypeOK, ServedIsMarked, RunIsServedOnce
  <2>2. ProofIsGoodOnce
    BY DEF IndInv, TypeOK, AcceptedIsSpent, ProofIsGoodOnce
  <2> QED
    BY Zenon, <2>1, <2>2 DEF ProofsAreGoodOnce
<1> QED
  BY <1>1, Invariant, PTL
=============================================================================
