--------------------------- MODULE RequesterProofs ---------------------------
(***************************************************************************)
(* What holds of Requester for every set of threads and repliers and every *)
(* bound: the types, the invariant that makes delivery correct, and the    *)
(* refinement of RpcCall.                                                  *)
(***************************************************************************)
EXTENDS Requester, TLAPS

(***************************************************************************)
(* Types.                                                                  *)
(***************************************************************************)
(* A caller past its write holds the identity of a request: TypeOK is not  *)
(* inductive without it, since id2id_map and dict are filled from there.   *)
HasWritten(c) == pc[c] \notin {"idle", "stamp", "write"}

TypeInv == TypeOK /\ \A c \in Callers : HasWritten(c) => identity[c] \in Requests

LEMMA LowRange ==
  /\ 0 \in RequestIds /\ \A i \in RequestIds : Low(i + 1) \in RequestIds
<1>1. SnValues \in Nat \ {0}
  BY RequesterAssumption DEF RequesterAssumption
<1> QED BY <1>1 DEF Low, RequestIds

LEMMA TypeInit == Init => TypeInv
<1> USE DEF Callers, Requests, Replies, implVars, ddsVars, callerVars, callVars
<1> SUFFICES ASSUME Init
             PROVE  TypeInv
  OBVIOUS
<1>1. DOMAIN id2id_map = {} /\ id2id_map \in [{} -> Requests]
  BY DEF Init
<1>2. id2id_map \in [DOMAIN id2id_map -> Requests] /\ DOMAIN id2id_map \subseteq RequestIds
  BY <1>1
<1>3. /\ writes \in 0..MaxRequests /\ identity \in [Callers -> 0..MaxRequests]
      /\ source \in [Requests -> 0..MaxRequests]
  BY RequesterAssumption DEF Init, RequesterAssumption
<1>4. QED
  BY <1>2, <1>3, LowRange DEF Init, TypeInv, TypeOK, HasWritten

LEMMA TypeStep == ASSUME TypeInv, [Next]_vars
                  PROVE  TypeInv'
<1> USE RequesterAssumption
       DEF TypeInv, TypeOK, HasWritten, RequesterAssumption, Goto,
           Callers, Requests, Replies, implVars, ddsVars, callerVars, callVars
<1>1. ASSUME NEW c \in Callers, NEW o \in {"sync", "async"}, ReadSn(c, o)
      PROVE  TypeInv'
  BY <1>1, LowRange DEF ReadSn
<1>2. ASSUME NEW c \in Callers, SendRaw(c)
      PROVE  TypeInv'
  BY <1>2 DEF SendRaw, WriteAs
<1>3. ASSUME NEW c \in Callers, StampSn(c)
      PROVE  TypeInv'
  BY <1>3 DEF StampSn
<1>4. ASSUME NEW c \in Callers, Write(c)
      PROVE  TypeInv'
  BY <1>4 DEF Write, WriteAs
<1>5. ASSUME NEW c \in Callers, StoreMapping(c)
      PROVE  TypeInv'
  <2>1. identity[c] \in Requests /\ requestId[c] \in RequestIds
    BY <1>5 DEF StoreMapping
  <2>2. DOMAIN id2id_map' = DOMAIN id2id_map \cup {requestId[c]}
    BY <1>5 DEF StoreMapping
  <2>3. DOMAIN id2id_map' \subseteq RequestIds /\ id2id_map' \in [DOMAIN id2id_map' -> Requests]
    BY <1>5, <2>1, <2>2 DEF StoreMapping, MappedIdentity
  <2>4. QED
    BY <1>5, <2>3 DEF StoreMapping
<1>6. ASSUME NEW c \in Callers, FindMapping(c) \/ WaitForReplies(c) \/ Retry(c)
      PROVE  TypeInv'
  BY <1>6 DEF FindMapping, WaitForReplies, Retry
<1>7. ASSUME NEW c \in Callers, TakeOwn(c)
      PROVE  TypeInv'
  <2>1. PICK q \in queue :
          /\ queue' = queue \ {q}
          /\ \/ UNCHANGED <<id2id_map, status, source>> /\ Goto(c, "failed")
             \/ /\ EraseMapping(c)
                /\ status' = [status EXCEPT ![identity[c]] = "value"]
                /\ source' = [source EXCEPT ![identity[c]] = q.req]
                /\ Goto(c, "idle")
    BY <1>7 DEF TakeOwn, Matching, Forget
  <2>2. q.req \in Requests /\ q.req \in 0..MaxRequests
    BY <2>1
  <2>3. DOMAIN id2id_map' \subseteq RequestIds /\ id2id_map' \in [DOMAIN id2id_map' -> Requests]
    BY <2>1 DEF EraseMapping, Restrict
  <2>4. /\ queue' \subseteq Replies
        /\ status' \in [Requests -> {"unsent", "pending", "value", "error", "abandoned"}]
        /\ source' \in [Requests -> 0..MaxRequests]
    BY <2>1, <2>2
  <2>5. /\ pc' \in [Callers -> {"idle", "stamp", "write", "map", "sent", "wait", "take",
                                "failed", "register", "spawn"}]
        /\ \A d \in Callers : HasWritten(d)' => HasWritten(d)
    BY <1>7, <2>1 DEF TakeOwn
  <2>6. QED
    BY <1>7, <2>3, <2>4, <2>5 DEF TakeOwn
<1>8. ASSUME NEW c \in Callers, TakeNothing(c)
      PROVE  TypeInv'
  BY <1>8 DEF TakeNothing, EraseMapping, Restrict
<1>9. ASSUME NEW c \in Callers, GiveUp(c)
      PROVE  TypeInv'
  BY <1>9 DEF GiveUp
<1>10. ASSUME NEW c \in Callers, RegisterPromise(c)
       PROVE  TypeInv'
  BY <1>10 DEF RegisterPromise, ModifyDict, Racing
<1>11. ASSUME NEW c \in Callers, SpawnReplyThread(c)
       PROVE  TypeInv'
  BY <1>11 DEF SpawnReplyThread
<1>12. ASSUME NEW c \in Callers, NEW enable \in BOOLEAN, ReceiveNondata(c, enable)
       PROVE  TypeInv'
  BY <1>12 DEF ReceiveNondata
<1>13. ASSUME NEW k \in Requests, ThreadWait(k)
       PROVE  TypeInv'
  BY <1>13 DEF ThreadWait
<1>14. ASSUME NEW k \in Requests, ThreadTake(k)
       PROVE  TypeInv'
  <2>1. source' = source \/ \E q \in queue : source' = [source EXCEPT ![k] = q.req]
    BY <1>14 DEF ThreadTake, Matching
  <2>2. source' \in [Requests -> 0..MaxRequests]
    BY <2>1
  <2>3. queue' \subseteq queue /\ thread' = [thread EXCEPT ![k] = "complete"]
    BY <1>14 DEF ThreadTake
  <2>4. QED
    BY <1>14, <2>2, <2>3 DEF ThreadTake
<1>15. ASSUME NEW k \in Requests, ThreadComplete(k)
       PROVE  TypeInv'
  BY <1>15 DEF ThreadComplete, Racing
<1>16. ASSUME NEW k \in Requests, ThreadErase(k)
       PROVE  TypeInv'
  BY <1>16 DEF ThreadErase, ModifyDict, Without, Racing
<1>17. ASSUME NEW r \in Repliers, NEW k \in Requests, Answer(r, k)
       PROVE  TypeInv'
  BY <1>17 DEF Answer
<1>18. CASE UNCHANGED vars
  BY <1>18 DEF vars
<1>19. QED
  BY <1>1, <1>2, <1>3, <1>4, <1>5, <1>6, <1>7, <1>8, <1>9, <1>10, <1>11, <1>12,
     <1>13, <1>14, <1>15, <1>16, <1>17, <1>18
     DEF Next, CallerStep, ThreadStep

(* Every variable keeps its type, whatever the threads do: in particular   *)
(* id2id_map never maps to an identity the writer does not hand out.       *)
THEOREM TypeCorrect == Spec => []TypeOK
<1>1. TypeInv => TypeOK
  BY DEF TypeInv
<1>2. QED
  BY <1>1, TypeInit, TypeStep, PTL DEF Spec
(***************************************************************************)
(* Why delivery is correct.  The parts of the inductive invariant:         *)
(*  - IssueInv: requests up to writes are issued, the others untouched;    *)
(*  - CallerInv: what a caller past its write knows of its request;        *)
(*  - MapInv: id2id_map holds undelivered requests of the sync caller, and *)
(*    its own mapping is the one it is going to look up;                   *)
(*  - ThreadInv: a reply thread serves an asynchronous request, finds the  *)
(*    reply it waited for, and completes the future once;                  *)
(*  - AnswerInv: replies come from answers and answers from requests.      *)
(***************************************************************************)
Receiving == {"sent", "wait", "take", "failed"}

IssueInv ==
  \A k \in Requests :
    /\ (kind[k] = "none") <=> (k > writes)
    /\ (status[k] = "unsent") <=> (k > writes)
    /\ k > writes => thread[k] = "none"

CallerInv ==
  \A c \in Callers :
    /\ pc[c] \in {"stamp", "write"} => op[c] \in {"sync", "async"}
    /\ op[c] = "sync" => c \in SyncCallers
    /\ pc[c] \in Receiving \cup {"map"} =>
         /\ op[c] = "sync"
         /\ kind[identity[c]] = "sync"
         /\ status[identity[c]] = "pending"
    /\ pc[c] \in {"register", "spawn"} =>
         /\ op[c] = "async"
         /\ kind[identity[c]] = "async"
         /\ status[identity[c]] = "pending"
         /\ thread[identity[c]] = "none"

UniqueInv ==
  \A c, d \in Callers :
    pc[c] \in {"register", "spawn"} /\ pc[d] \in {"register", "spawn"}
      /\ identity[c] = identity[d] => c = d

MapInv ==
  /\ MappingLive
  /\ \A r \in DOMAIN id2id_map : kind[id2id_map[r]] = "sync"
  /\ \A c \in Callers : \A r \in DOMAIN id2id_map :
       /\ pc[c] = "map" => id2id_map[r] # identity[c]
       /\ pc[c] \in Receiving => ((id2id_map[r] = identity[c]) <=> (r = requestId[c]))
  /\ \A c \in Callers : pc[c] \in {"wait", "take"} => requestId[c] \in DOMAIN id2id_map

ThreadInv ==
  \A k \in Requests :
    /\ thread[k] # "none" => kind[k] = "async"
    /\ thread[k] = "take" => Matching(k) # {}
    /\ thread[k] \in {"complete", "erase", "done"} => source[k] = k
    /\ kind[k] = "async" /\ thread[k] \notin {"erase", "done"} => status[k] = "pending"
    /\ status[k] # "error"

AnswerInv ==
  /\ \A q \in queue : <<q.req, q.from>> \in answered
  /\ \A p \in answered : p[1] <= writes
  /\ \A k \in Requests : source[k] # 0 => source[k] = k /\ \E r \in Repliers : <<k, r>> \in answered

Delivery == IssueInv /\ CallerInv /\ UniqueInv /\ MapInv /\ ThreadInv /\ AnswerInv

Inv == TypeInv /\ Delivery

LEMMA InvInit == Init => Inv
<1> SUFFICES ASSUME Init
             PROVE  Delivery
  BY TypeInit DEF Inv
<1> USE RequesterAssumption DEF RequesterAssumption, Init, Requests, Receiving
<1>1. IssueInv
  BY DEF IssueInv
<1>2. CallerInv /\ UniqueInv
  BY DEF CallerInv, UniqueInv
<1>3. MapInv
  BY DEF MapInv, MappingLive
<1>4. ThreadInv /\ AnswerInv
  BY DEF ThreadInv, AnswerInv
<1>5. QED
  BY <1>1, <1>2, <1>3, <1>4 DEF Delivery

(* A write issues the next identity and touches nothing older.             *)
LEMMA WriteFacts ==
  ASSUME Inv, NEW o \in {"sync", "async", "raw"}, WriteAs(o)
  PROVE  /\ writes + 1 \in Requests
         /\ kind' = [kind EXCEPT ![writes + 1] = o]
         /\ status' = [status EXCEPT ![writes + 1] = "pending"]
         /\ kind[writes + 1] = "none" /\ status[writes + 1] = "unsent"
         /\ thread[writes + 1] = "none" /\ source[writes + 1] = 0
         /\ IssueInv' /\ AnswerInv'
<1> USE RequesterAssumption DEF RequesterAssumption, Inv, Delivery, TypeInv, TypeOK, Requests
<1>1. /\ writes \in Nat /\ writes + 1 \in Requests /\ writes' = writes + 1
      /\ kind' = [kind EXCEPT ![writes + 1] = o]
      /\ status' = [status EXCEPT ![writes + 1] = "pending"]
      /\ UNCHANGED <<thread, source, queue, answered>>
  BY DEF WriteAs, implVars
<1>2. /\ kind[writes + 1] = "none" /\ status[writes + 1] = "unsent"
      /\ thread[writes + 1] = "none"
  BY <1>1 DEF IssueInv
<1>3. ASSUME NEW p \in answered
      PROVE  p[1] \in Nat /\ p[1] <= writes
  BY DEF AnswerInv
<1>4. source[writes + 1] = 0
  <2>1. SUFFICES ASSUME source[writes + 1] # 0
                 PROVE  FALSE
    OBVIOUS
  <2>2. PICK r \in Repliers : <<writes + 1, r>> \in answered
    BY <1>1, <2>1 DEF AnswerInv
  <2>3. QED
    BY <1>1, <1>3, <2>2
<1>5. IssueInv'
  <2> SUFFICES ASSUME NEW n \in Requests
               PROVE  /\ (kind'[n] = "none") <=> (n > writes')
                      /\ (status'[n] = "unsent") <=> (n > writes')
                      /\ n > writes' => thread'[n] = "none"
    BY DEF IssueInv
  <2>1. CASE n = writes + 1
    BY <1>1, <2>1
  <2>2. CASE n # writes + 1
    <3>1. n > writes' <=> n > writes
      BY <1>1, <2>2
    <3>2. QED
      BY <1>1, <2>2, <3>1 DEF IssueInv
  <2>3. QED
    BY <2>1, <2>2
<1>6. AnswerInv'
  <2>1. \A p \in answered : p[1] <= writes'
    BY <1>1, <1>3
  <2>2. QED
    BY <1>1, <2>1 DEF AnswerInv
<1>7. QED
  BY <1>1, <1>2, <1>4, <1>5, <1>6

LEMMA InvStep == ASSUME Inv, [Next]_vars
                 PROVE  Inv'
<1> USE RequesterAssumption
       DEF RequesterAssumption, Inv, Delivery, TypeInv, TypeOK, HasWritten, Goto,
           Receiving, implVars, ddsVars, callerVars, callVars
<1>0. TypeInv'
  BY TypeStep
<1> USE <1>0
<1>1. ASSUME NEW c \in Callers, NEW o \in {"sync", "async"}, ReadSn(c, o)
     PROVE  Delivery'
  <2>1. IssueInv' /\ AnswerInv'
    BY <1>1 DEF ReadSn, IssueInv, AnswerInv
  <2>2. CallerInv' /\ UniqueInv'
    BY <1>1 DEF ReadSn, CallerInv, UniqueInv
  <2>3. MapInv'
    BY <1>1 DEF ReadSn, CallerInv, MapInv, MappingLive
  <2>4. ThreadInv'
    BY <1>1 DEF ReadSn, ThreadInv, Matching
  <2>5. QED
    BY <2>1, <2>2, <2>3, <2>4
<1>2. ASSUME NEW c \in Callers, StampSn(c)
     PROVE  Delivery'
  <2>1. IssueInv' /\ AnswerInv'
    BY <1>2 DEF StampSn, IssueInv, AnswerInv
  <2>2. CallerInv' /\ UniqueInv'
    BY <1>2 DEF StampSn, CallerInv, UniqueInv
  <2>3. MapInv'
    BY <1>2 DEF StampSn, CallerInv, MapInv, MappingLive
  <2>4. ThreadInv'
    BY <1>2 DEF StampSn, ThreadInv, Matching
  <2>5. QED
    BY <2>1, <2>2, <2>3, <2>4
<1>3. ASSUME NEW c \in Callers, Write(c)
     PROVE  Delivery'
  <2>1. /\ writes + 1 \in Requests
        /\ kind[writes + 1] = "none" /\ thread[writes + 1] = "none"
        /\ IssueInv' /\ AnswerInv'
    <3>1. op[c] \in {"sync", "async"} /\ WriteAs(op[c])
      BY <1>3 DEF Write, CallerInv
    <3>2. QED
      BY <3>1, WriteFacts
  <2>2. CallerInv' /\ UniqueInv'
    BY <1>3, <2>1 DEF Write, WriteAs, CallerInv, UniqueInv
  <2>3. MapInv'
    BY <1>3, <2>1 DEF Write, WriteAs, CallerInv, MapInv, MappingLive
  <2>4. ThreadInv'
    BY <1>3, <2>1 DEF Write, WriteAs, ThreadInv, Matching
  <2>5. QED
    BY <2>1, <2>2, <2>3, <2>4
<1>4. ASSUME NEW c \in Callers, SendRaw(c)
     PROVE  Delivery'
  <2>1. /\ writes + 1 \in Requests
        /\ kind[writes + 1] = "none" /\ thread[writes + 1] = "none"
        /\ IssueInv' /\ AnswerInv'
    <3>1. WriteAs("raw")
      BY <1>4 DEF SendRaw
    <3>2. QED
      BY <3>1, WriteFacts
  <2>2. CallerInv' /\ UniqueInv'
    BY <1>4, <2>1 DEF SendRaw, WriteAs, CallerInv, UniqueInv
  <2>3. MapInv'
    BY <1>4, <2>1 DEF SendRaw, WriteAs, CallerInv, MapInv, MappingLive
  <2>4. ThreadInv'
    BY <1>4, <2>1 DEF SendRaw, WriteAs, ThreadInv, Matching
  <2>5. QED
    BY <2>1, <2>2, <2>3, <2>4
<1>5. ASSUME NEW c \in Callers, StoreMapping(c)
     PROVE  Delivery'
  <2>1. IssueInv' /\ AnswerInv'
    BY <1>5 DEF StoreMapping, IssueInv, AnswerInv
  <2>2. CallerInv' /\ UniqueInv'
    BY <1>5 DEF StoreMapping, CallerInv, UniqueInv
  <2>3. MapInv'
    BY <1>5 DEF StoreMapping, MappedIdentity, CallerInv, MapInv, MappingLive
  <2>4. ThreadInv'
    BY <1>5 DEF StoreMapping, ThreadInv, Matching
  <2>5. QED
    BY <2>1, <2>2, <2>3, <2>4
<1>6. ASSUME NEW c \in Callers, FindMapping(c)
     PROVE  Delivery'
  <2>1. IssueInv' /\ AnswerInv'
    BY <1>6 DEF FindMapping, IssueInv, AnswerInv
  <2>2. CallerInv' /\ UniqueInv'
    BY <1>6 DEF FindMapping, CallerInv, UniqueInv
  <2>3. MapInv'
    BY <1>6 DEF FindMapping, CallerInv, MapInv, MappingLive
  <2>4. ThreadInv'
    BY <1>6 DEF FindMapping, ThreadInv, Matching
  <2>5. QED
    BY <2>1, <2>2, <2>3, <2>4
<1>7. ASSUME NEW c \in Callers, WaitForReplies(c)
     PROVE  Delivery'
  <2>1. IssueInv' /\ AnswerInv'
    BY <1>7 DEF WaitForReplies, IssueInv, AnswerInv
  <2>2. CallerInv' /\ UniqueInv'
    BY <1>7 DEF WaitForReplies, CallerInv, UniqueInv
  <2>3. MapInv'
    BY <1>7 DEF WaitForReplies, CallerInv, MapInv, MappingLive
  <2>4. ThreadInv'
    BY <1>7 DEF WaitForReplies, ThreadInv, Matching
  <2>5. QED
    BY <2>1, <2>2, <2>3, <2>4
<1>8. ASSUME NEW c \in Callers, TakeOwn(c)
     PROVE  Delivery'
  <2>1. /\ c \in SyncCallers /\ identity[c] \in Requests /\ pc[c] = "take"
        /\ kind[identity[c]] = "sync" /\ status[identity[c]] = "pending"
        /\ requestId[c] \in DOMAIN id2id_map
        /\ id2id_map[requestId[c]] = identity[c]
        /\ \A d \in Callers \ {c} : pc[d] \notin Receiving \cup {"map"}
    BY <1>8 DEF TakeOwn, CallerInv, MapInv
  <2>2. PICK q \in queue :
          /\ q.req = identity[c] /\ <<identity[c], q.from>> \in answered
          /\ q.from \in Repliers /\ queue' = queue \ {q}
          /\ UNCHANGED <<writes, answered, op, requestId, identity, kind, thread>>
          /\ \/ UNCHANGED <<id2id_map, status, source>> /\ Goto(c, "failed")
             \/ /\ EraseMapping(c)
                /\ status' = [status EXCEPT ![identity[c]] = "value"]
                /\ source' = [source EXCEPT ![identity[c]] = q.req]
                /\ Goto(c, "idle")
    BY <1>8, <2>1 DEF TakeOwn, Matching, Forget, AnswerInv, Replies
  <2>3. IssueInv'
    BY <2>1, <2>2 DEF IssueInv
  <2>4. CallerInv'
    <3> SUFFICES ASSUME NEW d \in Callers
                 PROVE  /\ pc'[d] \in {"stamp", "write"} => op'[d] \in {"sync", "async"}
                        /\ op'[d] = "sync" => d \in SyncCallers
                        /\ pc'[d] \in Receiving \cup {"map"} =>
                             /\ op'[d] = "sync"
                             /\ kind'[identity'[d]] = "sync"
                             /\ status'[identity'[d]] = "pending"
                        /\ pc'[d] \in {"register", "spawn"} =>
                             /\ op'[d] = "async"
                             /\ kind'[identity'[d]] = "async"
                             /\ status'[identity'[d]] = "pending"
                             /\ thread'[identity'[d]] = "none"
      BY DEF CallerInv
    <3>1. CASE d = c
      BY <1>8, <2>1, <2>2, <3>1 DEF TakeOwn, CallerInv
    <3>2. CASE d # c
      BY <2>1, <2>2, <3>2 DEF CallerInv
    <3>3. QED
      BY <3>1, <3>2
  <2>5. UniqueInv'
    BY <2>1, <2>2 DEF UniqueInv
  <2>6. MapInv'
    <3>1. CASE UNCHANGED <<id2id_map, status, source>> /\ Goto(c, "failed")
      BY <2>1, <2>2, <3>1 DEF MapInv, MappingLive
    <3>2. CASE /\ EraseMapping(c)
               /\ status' = [status EXCEPT ![identity[c]] = "value"]
               /\ Goto(c, "idle")
      <4>1. /\ DOMAIN id2id_map' = DOMAIN id2id_map \ {requestId[c]}
            /\ \A r \in DOMAIN id2id_map' :
                 id2id_map'[r] = id2id_map[r] /\ id2id_map[r] # identity[c]
        BY <1>8, <2>1, <3>2 DEF TakeOwn, EraseMapping, Restrict, MapInv
      <4>2. \A d \in Callers : pc'[d] \notin Receiving \cup {"map"}
        BY <2>1, <3>2
      <4>3. QED
        BY <2>2, <3>2, <4>1, <4>2 DEF MapInv, MappingLive
    <3>3. QED
      BY <2>2, <3>1, <3>2
  <2>7. ThreadInv'
    BY <2>1, <2>2 DEF ThreadInv, Matching
  <2>8. AnswerInv'
    <3>1. \A p \in queue' : <<p.req, p.from>> \in answered'
      BY <2>2 DEF AnswerInv
    <3>2. ASSUME NEW n \in Requests, source'[n] # 0
          PROVE  source'[n] = n /\ \E r \in Repliers : <<n, r>> \in answered'
      <4>1. source'[n] = source[n] \/ (n = identity[c] /\ source'[n] = n)
        BY <2>1, <2>2
      <4>2. CASE n = identity[c] /\ source'[n] = n
        BY <2>2, <4>2
      <4>3. CASE source'[n] = source[n]
        <5>1. source[n] = n /\ \E r \in Repliers : <<n, r>> \in answered
          BY <3>2, <4>3 DEF AnswerInv
        <5>2. QED
          BY <2>2, <4>3, <5>1
      <4>4. QED
        BY <4>1, <4>2, <4>3
    <3>3. QED
      BY <2>2, <3>1, <3>2 DEF AnswerInv
  <2>9. QED
    BY <2>1, <2>2, <2>3, <2>4, <2>5, <2>6, <2>7, <2>8
<1>9. ASSUME NEW c \in Callers, TakeNothing(c)
     PROVE  Delivery'
  <2>1. IssueInv' /\ AnswerInv'
    BY <1>9 DEF TakeNothing, IssueInv, AnswerInv
  <2>2. CallerInv' /\ UniqueInv'
    BY <1>9 DEF TakeNothing, CallerInv, UniqueInv
  <2>3. MapInv'
    BY <1>9 DEF TakeNothing, EraseMapping, Restrict, CallerInv, MapInv, MappingLive
  <2>4. ThreadInv'
    BY <1>9 DEF TakeNothing, ThreadInv, Matching
  <2>5. QED
    BY <2>1, <2>2, <2>3, <2>4
<1>10. ASSUME NEW c \in Callers, Retry(c)
     PROVE  Delivery'
  <2>1. IssueInv' /\ AnswerInv'
    BY <1>10 DEF Retry, IssueInv, AnswerInv
  <2>2. CallerInv' /\ UniqueInv'
    BY <1>10 DEF Retry, CallerInv, UniqueInv
  <2>3. MapInv'
    BY <1>10 DEF Retry, CallerInv, MapInv, MappingLive
  <2>4. ThreadInv'
    BY <1>10 DEF Retry, ThreadInv, Matching
  <2>5. QED
    BY <2>1, <2>2, <2>3, <2>4
<1>11. ASSUME NEW c \in Callers, GiveUp(c)
     PROVE  Delivery'
  <2>1. IssueInv' /\ AnswerInv'
    <3>1. /\ identity[c] \in Requests /\ status[identity[c]] = "pending"
          /\ status' = [status EXCEPT ![identity[c]] = "abandoned"]
          /\ UNCHANGED <<kind, thread, source, writes, queue, answered>>
      BY <1>11 DEF GiveUp, CallerInv
    <3>2. \A k \in Requests : status'[k] = "unsent" <=> status[k] = "unsent"
      BY <3>1
    <3>3. QED
      BY <3>1, <3>2 DEF IssueInv, AnswerInv
  <2>2. CallerInv' /\ UniqueInv'
    BY <1>11 DEF GiveUp, CallerInv, UniqueInv
  <2>3. MapInv'
    BY <1>11 DEF GiveUp, CallerInv, MapInv, MappingLive
  <2>4. ThreadInv'
    BY <1>11 DEF GiveUp, CallerInv, ThreadInv, Matching
  <2>5. QED
    BY <2>1, <2>2, <2>3, <2>4
<1>12. ASSUME NEW c \in Callers, NEW enable \in BOOLEAN, ReceiveNondata(c, enable)
     PROVE  Delivery'
  <2>1. IssueInv' /\ AnswerInv'
    BY <1>12 DEF ReceiveNondata, IssueInv, AnswerInv
  <2>2. CallerInv' /\ UniqueInv'
    BY <1>12 DEF ReceiveNondata, CallerInv, UniqueInv
  <2>3. MapInv'
    BY <1>12 DEF ReceiveNondata, CallerInv, MapInv, MappingLive
  <2>4. ThreadInv'
    BY <1>12 DEF ReceiveNondata, ThreadInv, Matching
  <2>5. QED
    BY <2>1, <2>2, <2>3, <2>4
<1>13. ASSUME NEW c \in Callers, RegisterPromise(c)
     PROVE  Delivery'
  <2>1. IssueInv' /\ AnswerInv'
    BY <1>13 DEF RegisterPromise, IssueInv, AnswerInv
  <2>2. CallerInv' /\ UniqueInv'
    BY <1>13 DEF RegisterPromise, CallerInv, UniqueInv
  <2>3. MapInv'
    BY <1>13 DEF RegisterPromise, CallerInv, MapInv, MappingLive
  <2>4. ThreadInv'
    BY <1>13 DEF RegisterPromise, ThreadInv, Matching
  <2>5. QED
    BY <2>1, <2>2, <2>3, <2>4
<1>14. ASSUME NEW c \in Callers, SpawnReplyThread(c)
     PROVE  Delivery'
  <2>1. IssueInv'
    BY <1>14 DEF SpawnReplyThread, IssueInv, CallerInv
  <2>2. AnswerInv'
    BY <1>14 DEF SpawnReplyThread, AnswerInv
  <2>3. CallerInv' /\ UniqueInv'
    BY <1>14 DEF SpawnReplyThread, CallerInv, UniqueInv
  <2>4. MapInv'
    BY <1>14 DEF SpawnReplyThread, CallerInv, MapInv, MappingLive
  <2>5. ThreadInv'
    BY <1>14 DEF SpawnReplyThread, CallerInv, ThreadInv, Matching
  <2>6. QED
    BY <2>1, <2>2, <2>3, <2>4, <2>5
<1>15. ASSUME NEW k \in Requests, ThreadWait(k)
     PROVE  Delivery'
  <2>1. IssueInv'
    BY <1>15 DEF ThreadWait, IssueInv
  <2>2. AnswerInv'
    BY <1>15 DEF ThreadWait, AnswerInv
  <2>3. CallerInv' /\ UniqueInv'
    BY <1>15 DEF ThreadWait, CallerInv, UniqueInv
  <2>4. MapInv'
    BY <1>15 DEF ThreadWait, CallerInv, MapInv, MappingLive
  <2>5. ThreadInv'
    BY <1>15 DEF ThreadWait, ThreadInv, Matching
  <2>6. QED
    BY <2>1, <2>2, <2>3, <2>4, <2>5
<1>16. ASSUME NEW k \in Requests, ThreadTake(k)
     PROVE  Delivery'
  <2>1. kind[k] = "async"
    BY <1>16 DEF ThreadTake, ThreadInv
  <2>2. PICK q \in queue :
          /\ q.req = k /\ <<k, q.from>> \in answered /\ q.from \in Repliers
          /\ queue' = queue \ {q}
          /\ source' = [source EXCEPT ![k] = k]
    <3>1. PICK q \in Matching(k) :
            queue' = queue \ {q} /\ source' = [source EXCEPT ![k] = q.req]
      BY <1>16 DEF ThreadTake, ThreadInv
    <3>2. q \in queue /\ q.req = k /\ q.from \in Repliers
      BY <3>1 DEF Matching, Replies
    <3>3. <<k, q.from>> \in answered
      BY <3>2 DEF AnswerInv
    <3>4. QED
      BY <3>1, <3>2, <3>3
  <2>3. IssueInv' /\ CallerInv' /\ UniqueInv'
    BY <1>16, <2>1 DEF ThreadTake, IssueInv, CallerInv, UniqueInv
  <2>4. MapInv'
    BY <1>16, <2>1 DEF ThreadTake, CallerInv, MapInv, MappingLive
  <2>5. ThreadInv'
    BY <1>16, <2>1, <2>2 DEF ThreadTake, ThreadInv, Matching
  <2>6. AnswerInv'
    <3>1. \A p \in queue' : <<p.req, p.from>> \in answered'
      BY <1>16, <2>2 DEF ThreadTake, AnswerInv
    <3>2. ASSUME NEW n \in Requests, source'[n] # 0
          PROVE  source'[n] = n /\ \E r \in Repliers : <<n, r>> \in answered'
      <4>1. CASE n = k
        BY <1>16, <2>2, <4>1 DEF ThreadTake
      <4>2. CASE n # k
        <5>1. source'[n] = source[n] /\ answered' = answered
          BY <1>16, <2>2, <4>2 DEF ThreadTake
        <5>2. source[n] = n /\ \E r \in Repliers : <<n, r>> \in answered
          BY <3>2, <5>1 DEF AnswerInv
        <5>3. QED
          BY <5>1, <5>2
      <4>3. QED
        BY <4>1, <4>2
    <3>3. QED
      BY <1>16, <3>1, <3>2 DEF ThreadTake, AnswerInv
  <2>7. QED
    BY <2>1, <2>2, <2>3, <2>4, <2>5, <2>6
<1>17. ASSUME NEW k \in Requests, ThreadComplete(k)
     PROVE  Delivery'
  <2>1. kind[k] = "async" /\ status[k] = "pending" /\ source[k] = k
    BY <1>17 DEF ThreadComplete, ThreadInv
  <2>2. \/ UNCHANGED status
        \/ status' = [status EXCEPT ![k] = "value"]
    BY <1>17, <2>1 DEF ThreadComplete, Requests
  <2>3. IssueInv'
    BY <1>17, <2>1, <2>2 DEF ThreadComplete, IssueInv
  <2>4. AnswerInv'
    BY <1>17 DEF ThreadComplete, AnswerInv
  <2>5. CallerInv' /\ UniqueInv'
    BY <1>17, <2>1, <2>2 DEF ThreadComplete, CallerInv, UniqueInv
  <2>6. MapInv'
    BY <1>17, <2>1, <2>2 DEF ThreadComplete, CallerInv, MapInv, MappingLive
  <2>7. ThreadInv'
    BY <1>17, <2>1, <2>2 DEF ThreadComplete, ThreadInv, Matching
  <2>8. QED
    BY <2>1, <2>2, <2>3, <2>4, <2>5, <2>6, <2>7
<1>18. ASSUME NEW k \in Requests, ThreadErase(k)
     PROVE  Delivery'
  <2>1. IssueInv'
    BY <1>18 DEF ThreadErase, IssueInv
  <2>2. AnswerInv'
    BY <1>18 DEF ThreadErase, AnswerInv
  <2>3. CallerInv' /\ UniqueInv'
    BY <1>18 DEF ThreadErase, CallerInv, UniqueInv
  <2>4. MapInv'
    BY <1>18 DEF ThreadErase, CallerInv, MapInv, MappingLive
  <2>5. ThreadInv'
    BY <1>18 DEF ThreadErase, ThreadInv, Matching
  <2>6. QED
    BY <2>1, <2>2, <2>3, <2>4, <2>5
<1>19. ASSUME NEW r \in Repliers, NEW k \in Requests, Answer(r, k)
     PROVE  Delivery'
  <2>1. IssueInv' /\ CallerInv' /\ UniqueInv'
    BY <1>19 DEF Answer, IssueInv, CallerInv, UniqueInv
  <2>2. MapInv'
    BY <1>19 DEF Answer, CallerInv, MapInv, MappingLive
  <2>3. ThreadInv'
    BY <1>19 DEF Answer, ThreadInv, Matching
  <2>4. AnswerInv'
    <3>1. /\ answered' = answered \cup {<<k, r>>}
          /\ \A q \in queue' : q \in queue \/ (q.req = k /\ q.from = r)
          /\ k <= writes /\ UNCHANGED <<writes, source>>
      BY <1>19 DEF Answer, Requests
    <3>2. \A p \in answered' : p[1] <= writes'
      BY <3>1 DEF AnswerInv
    <3>3. QED
      BY <3>1, <3>2 DEF AnswerInv
  <2>5. QED
    BY <2>1, <2>2, <2>3, <2>4
<1>20. CASE UNCHANGED vars
  <2>1. IssueInv' /\ CallerInv' /\ UniqueInv'
    BY <1>20 DEF vars, IssueInv, CallerInv, UniqueInv
  <2>2. MapInv'
    BY <1>20 DEF vars, MapInv, MappingLive
  <2>3. ThreadInv' /\ AnswerInv'
    BY <1>20 DEF vars, ThreadInv, Matching, AnswerInv
  <2>4. QED
    BY <2>1, <2>2, <2>3
<1>21. QED
  BY <1>1, <1>2, <1>3, <1>4, <1>5, <1>6, <1>7, <1>8, <1>9, <1>10, <1>11, <1>12, <1>13, <1>14, <1>15, <1>16, <1>17, <1>18, <1>19, <1>20
     DEF Next, CallerStep, ThreadStep
(***************************************************************************)
(* The theorems about delivery.                                            *)
(***************************************************************************)
LEMMA Invariance == Spec => []Inv
<1>1. QED
  BY InvInit, InvStep, PTL DEF Spec

(* A caller or a future is only given the reply to its own request, for    *)
(* any number of threads stamping requests at once.                        *)
THEOREM CorrelatedHolds == Spec => []Correlated
<1>1. Inv => Correlated
  BY DEF Inv, Delivery, AnswerInv, Correlated
<1>2. QED
  BY <1>1, Invariance, PTL

(* No reply thread loses to another taker the reply it has waited for.     *)
THEOREM ReplyNeverStolenHolds == Spec => []ReplyNeverStolen
<1>1. Inv => ReplyNeverStolen
  BY DEF Inv, Delivery, ThreadInv, ReplyNeverStolen
<1>2. QED
  BY <1>1, Invariance, PTL

(* No mapping outlives the delivery of its request.                        *)
THEOREM MappingLiveHolds == Spec => []MappingLive
<1>1. Inv => MappingLive
  BY DEF Inv, Delivery, MapInv
<1>2. QED
  BY <1>1, Invariance, PTL

(***************************************************************************)
(* dict.  Stored(k): the promise of k was stored and not yet erased, which *)
(* is what dict should say.                                                *)
(***************************************************************************)
Registering(k) == \E c \in Callers : pc[c] = "register" /\ identity[c] = k
Stored(k) == kind[k] = "async" /\ thread[k] # "done" /\ ~Registering(k)

LEMMA DictSays ==
  ASSUME TypeInv
  PROVE  DictAccurate <=> (~raced => \A k \in Requests : k \in dict <=> Stored(k))
BY DEF DictAccurate, Stored, Registering, TypeInv, TypeOK

LEMMA DictSaysNext ==
  ASSUME TypeInv'
  PROVE  DictAccurate' <=> (~raced' => \A k \in Requests : k \in dict' <=> Stored(k)')
BY DEF DictAccurate, Stored, Registering, TypeInv, TypeOK

(* A step that does not touch dict and stores or erases no promise.        *)
LEMMA DictKept ==
  ASSUME Inv, TypeInv', DictAccurate, UNCHANGED <<dict, raced>>,
         \A k \in Requests : Stored(k)' <=> Stored(k)
  PROVE  DictAccurate'
<1>1. DictAccurate' <=> (~raced' => \A k \in Requests : k \in dict' <=> Stored(k)')
  BY DictSaysNext
<1>2. ~raced => \A k \in Requests : k \in dict <=> Stored(k)
  BY DictSays DEF Inv
<1> QED BY <1>1, <1>2

LEMMA DictInit == Init => DictAccurate
BY DEF Init, DictAccurate

LEMMA DictCaller ==
  ASSUME Inv, TypeInv', DictAccurate, NEW c \in Callers,
         \/ \E o \in {"sync", "async"} : ReadSn(c, o)
         \/ SendRaw(c) \/ CallerStep(c)
         \/ \E enable \in BOOLEAN : ReceiveNondata(c, enable)
  PROVE  DictAccurate'
<1> USE DEF Inv, TypeInv, TypeOK, Goto, implVars, ddsVars, callerVars, callVars
<1>0. c \in Callers
  OBVIOUS
<1>1. CASE SendRaw(c) \/ Write(c)
  <2>1. PICK o \in {"sync", "async", "raw"} :
          /\ WriteAs(o)
          /\ \/ UNCHANGED callerVars /\ o = "raw"
             \/ /\ identity' = [identity EXCEPT ![c] = writes + 1]
                /\ pc' = [pc EXCEPT ![c] = IF o = "sync" THEN "map" ELSE "register"]
                /\ pc[c] = "write" /\ o # "raw"
    BY <1>1 DEF SendRaw, Write, CallerInv, Delivery
  <2>2. PICK w \in Requests :
          /\ w = writes + 1 /\ kind[w] = "none" /\ kind' = [kind EXCEPT ![w] = o]
          /\ UNCHANGED <<thread, dict, raced>>
    BY <2>1, WriteFacts DEF WriteAs
  <2>3. ASSUME NEW k \in Requests, k # w PROVE Stored(k)' <=> Stored(k)
    BY <2>1, <2>2, <2>3 DEF Stored, Registering
  <2>4. ~Stored(w) /\ ~Stored(w)'
    BY <2>1, <2>2 DEF Stored, Registering
  <2> QED BY <2>2, <2>3, <2>4, DictKept
<1>2. CASE RegisterPromise(c)
  <2>0. /\ pc[c] = "register" /\ identity[c] \in Requests
        /\ kind[identity[c]] = "async" /\ thread[identity[c]] = "none"
    BY <1>2 DEF RegisterPromise, HasWritten, Delivery, CallerInv
  <2>1. PICK k \in Requests :
          /\ k = identity[c] /\ kind[k] = "async" /\ thread[k] = "none"
          /\ \A d \in Callers : pc[d] = "register" /\ identity[d] = k => d = c
    BY <2>0 DEF Delivery, UniqueInv
  <2>2. /\ ~raced' => dict' = dict \cup {k} /\ ~raced
        /\ pc[c] = "register" /\ pc' = [pc EXCEPT ![c] = "spawn"]
        /\ UNCHANGED <<kind, thread, identity>>
    BY <1>2, <2>1 DEF RegisterPromise, ModifyDict
  <2>3. Stored(k)'
    BY <2>1, <2>2 DEF Stored, Registering
  <2>4. ASSUME NEW l \in Requests, l # k PROVE Stored(l)' <=> Stored(l)
    BY <2>1, <2>2, <2>4 DEF Stored, Registering
  <2>5. DictAccurate' <=> (~raced' => \A l \in Requests : l \in dict' <=> Stored(l)')
    BY DictSaysNext
  <2>6. ~raced => \A l \in Requests : l \in dict <=> Stored(l)
    BY DictSays
  <2> QED BY <2>2, <2>3, <2>4, <2>5, <2>6
<1>3. CASE SpawnReplyThread(c)
  <2>1. /\ identity[c] \in Requests /\ thread[identity[c]] = "none"
        /\ pc[c] = "spawn" /\ pc' = [pc EXCEPT ![c] = "idle"]
        /\ thread' \in {thread, [thread EXCEPT ![identity[c]] = "wait"]}
        /\ UNCHANGED <<kind, identity, dict, raced>>
    BY <1>3 DEF SpawnReplyThread, HasWritten, Delivery, CallerInv
  <2>2. ASSUME NEW k \in Requests PROVE Stored(k)' <=> Stored(k)
    BY <2>1 DEF Stored, Registering
  <2> QED BY <2>1, <2>2, DictKept
<1>4. CASE \/ \E o \in {"sync", "async"} : ReadSn(c, o)
           \/ StampSn(c) \/ StoreMapping(c) \/ FindMapping(c) \/ WaitForReplies(c)
           \/ TakeOwn(c) \/ TakeNothing(c) \/ Retry(c) \/ GiveUp(c)
           \/ \E enable \in BOOLEAN : ReceiveNondata(c, enable)
  <2>1. /\ UNCHANGED <<kind, thread, identity, dict, raced>>
        /\ \/ pc' = pc
           \/ /\ pc[c] # "register"
              /\ \E l \in {"stamp", "write", "sent", "wait", "take", "failed", "idle"} :
                   pc' = [pc EXCEPT ![c] = l]
    BY <1>4 DEF ReadSn, StampSn, StoreMapping, FindMapping, WaitForReplies, TakeOwn, TakeNothing,
                Retry, GiveUp, ReceiveNondata
  <2>2. \A d \in Callers : pc'[d] = "register" <=> pc[d] = "register"
    BY <2>1
  <2>3. ASSUME NEW k \in Requests PROVE Stored(k)' <=> Stored(k)
    BY <2>1, <2>2 DEF Stored, Registering
  <2> QED BY <2>1, <2>3, DictKept
<1> QED BY <1>1, <1>2, <1>3, <1>4 DEF CallerStep

LEMMA DictThread ==
  ASSUME Inv, TypeInv', DictAccurate, NEW k \in Requests, ThreadStep(k)
  PROVE  DictAccurate'
<1> USE DEF Inv, TypeInv, TypeOK, implVars, ddsVars, callerVars, callVars
<1>1. thread[k] # "done" /\ UNCHANGED <<kind, pc, identity>>
  BY DEF ThreadStep, ThreadWait, ThreadTake, ThreadComplete, ThreadErase
<1>2. ASSUME NEW l \in Requests, thread'[l] = "done" <=> thread[l] = "done"
      PROVE  Stored(l)' <=> Stored(l)
  BY <1>1, <1>2 DEF Stored, Registering
<1>3. kind[k] = "async" /\ thread[k] # "none"
  BY DEF ThreadStep, ThreadWait, ThreadTake, ThreadComplete, ThreadErase, Delivery, ThreadInv
<1>4. Stored(k)
  BY <1>1, <1>3 DEF Stored, Registering, Delivery, CallerInv
<1>5. ~raced => \A l \in Requests : l \in dict <=> Stored(l)
  BY DictSays
<1>6. CASE ThreadErase(k)
  <2>1. /\ ~raced' => dict' = dict \ {k} /\ ~raced
        /\ thread' = [thread EXCEPT ![k] = "done"]
    BY <1>6 DEF ThreadErase, ModifyDict, Without
  <2>2. ~Stored(k)' /\ \A l \in Requests : l # k => (Stored(l)' <=> Stored(l))
    BY <1>1, <1>2, <2>1 DEF Stored
  <2>3. DictAccurate' <=> (~raced' => \A l \in Requests : l \in dict' <=> Stored(l)')
    BY DictSaysNext
  <2> QED BY <1>5, <2>1, <2>2, <2>3
<1>7. CASE ThreadWait(k) \/ ThreadTake(k) \/ ThreadComplete(k)
  <2>1. /\ \A l \in Requests : thread'[l] = "done" <=> thread[l] = "done"
        /\ ~raced' => UNCHANGED dict /\ ~raced
    BY <1>4, <1>5, <1>7 DEF ThreadWait, ThreadTake, ThreadComplete
  <2>2. \A l \in Requests : Stored(l)' <=> Stored(l)
    BY <1>2, <2>1
  <2>3. DictAccurate' <=> (~raced' => \A l \in Requests : l \in dict' <=> Stored(l)')
    BY DictSaysNext
  <2> QED BY <1>5, <2>1, <2>2, <2>3
<1> QED BY <1>6, <1>7 DEF ThreadStep

(* Up to the first race dict holds exactly the promises stored and not yet *)
(* erased: no thread erases or overwrites the promise of another, and each *)
(* finds its own.                                                          *)
THEOREM DictAccurateHolds == Spec => []DictAccurate
<1>1. ASSUME Inv, DictAccurate, [Next]_vars PROVE Inv' /\ DictAccurate'
  <2>1. Inv' /\ TypeInv'
    BY <1>1, InvStep DEF Inv
  <2>2. CASE UNCHANGED vars \/ \E r \in Repliers, k \in Requests : Answer(r, k)
    <3>1. UNCHANGED <<dict, raced, kind, thread, pc, identity>>
      BY <2>2 DEF Answer, vars, implVars, callerVars, callVars
    <3>2. \A l \in Requests : Stored(l)' <=> Stored(l)
      BY <3>1 DEF Stored, Registering
    <3> QED BY <1>1, <2>1, <3>1, <3>2, DictKept
  <2> QED BY <1>1, <2>1, <2>2, DictCaller, DictThread DEF Next
<1> QED BY <1>1, InvInit, DictInit, PTL DEF Spec

(***************************************************************************)
(* The retry loop of a client that makes blocking calls only, to a single  *)
(* replier.  With a second replier, a second kind of call or a caller that *)
(* gives up, NeverRefused does not hold: a reply nobody asks for is left   *)
(* in the reader, ends a wait, and the take after it erases the mapping.   *)
(*  - Asked: a reply in the reader is one somebody is asking for, and a    *)
(*    request nobody asks for any more has had its reply;                  *)
(*  - Blocking: there are neither futures nor reply threads.               *)
(***************************************************************************)
Alone ==
  /\ AsyncCallers = {} /\ RawCallers = {} /\ Impatient = {}
  /\ \A r, s \in Repliers : r = s

Asking(k) == \E c \in Callers : identity[c] = k /\ pc[c] \in Receiving \cup {"map"}

Asked ==
  /\ \A q \in queue : Asking(q.req)
  /\ \A p, q \in queue : p.req = q.req => p = q
  /\ \A k \in 1..writes : Asking(k) \/ \E r \in Repliers : <<k, r>> \in answered
  /\ \A c \in Callers : pc[c] = "take" => queue # {}

Blocking ==
  /\ \A c \in Callers : pc[c] \in {"stamp", "write"} => op[c] = "sync"
  /\ \A c \in Callers : pc[c] \notin {"register", "spawn"}
  /\ \A k \in Requests : thread[k] = "none"

LoopInv == NeverRefused /\ Asked /\ Blocking

LEMMA LoopInit == Init => LoopInv
BY DEF Init, LoopInv, NeverRefused, Asked, Blocking

LEMMA LoopStep ==
  ASSUME Alone, Inv, LoopInv, [Next]_vars
  PROVE  LoopInv'
<1> USE DEF Goto, Receiving, implVars, ddsVars, callerVars, callVars
<1>1. /\ \A c, d \in Callers : c = d
      /\ DOMAIN pc = Callers /\ DOMAIN identity = Callers /\ writes \in Nat
      /\ \A q \in queue : <<q.req, q.from>> \in answered /\ q.from \in Repliers
      /\ \A c \in Callers : pc[c] = "take" => id2id_map[requestId[c]] = identity[c]
  BY RequesterAssumption
     DEF RequesterAssumption, Alone, Callers, Inv, TypeInv, TypeOK, Replies, Delivery, AnswerInv, MapInv
<1>2. ASSUME NEW c \in Callers, NEW o \in {"sync", "async"}, ReadSn(c, o)
      PROVE  LoopInv'
  <2>1. /\ o = "sync" /\ pc[c] = "idle" /\ pc' = [pc EXCEPT ![c] = "stamp"]
        /\ op' = [op EXCEPT ![c] = o] /\ DOMAIN op = Callers
        /\ UNCHANGED <<queue, writes, answered, identity, id2id_map, thread>>
    BY <1>2 DEF ReadSn, Alone, Inv, TypeInv, TypeOK
  <2>2. NeverRefused' /\ Blocking'
    BY <1>1, <2>1 DEF LoopInv, NeverRefused, Blocking
  <2>3. ASSUME NEW k PROVE Asking(k)' <=> Asking(k)
    BY <1>1, <2>1 DEF Asking
  <2>4. \A d \in Callers : pc'[d] # "take"
    BY <1>1, <2>1
  <2>5. Asked'
    BY <2>1, <2>3, <2>4 DEF LoopInv, Asked
  <2> QED BY <2>2, <2>5 DEF LoopInv
<1>3. ASSUME NEW c \in Callers, StampSn(c)
      PROVE  LoopInv'
  BY <1>1, <1>3 DEF StampSn, LoopInv, NeverRefused, Asked, Asking, Blocking
<1>4. ASSUME NEW c \in Callers, Write(c)
      PROVE  LoopInv'
  <2>1. /\ pc[c] = "write" /\ op[c] = "sync" /\ pc' = [pc EXCEPT ![c] = "map"]
        /\ identity' = [identity EXCEPT ![c] = writes + 1] /\ writes' = writes + 1
        /\ UNCHANGED <<queue, answered, op, requestId, id2id_map, thread>>
    BY <1>4 DEF Write, WriteAs, LoopInv, Blocking
  <2>2. NeverRefused' /\ Blocking'
    BY <1>1, <2>1 DEF LoopInv, NeverRefused, Blocking
  <2>3. \A k : ~Asking(k)
    BY <1>1, <2>1 DEF Asking
  <2>4. queue = {} /\ \A d \in Callers : pc'[d] # "take"
    BY <1>1, <2>1, <2>3 DEF LoopInv, Asked
  <2>5. Asked'
    <3>1. identity'[c] = writes + 1 /\ pc'[c] = "map"
      BY <1>1, <2>1
    <3>2. ASSUME NEW k \in 1..writes'
          PROVE  Asking(k)' \/ \E r \in Repliers : <<k, r>> \in answered'
      <4>1. CASE k = writes + 1
        BY <3>1, <4>1 DEF Asking
      <4>2. CASE k \in 1..writes
        BY <2>1, <2>3, <4>2 DEF LoopInv, Asked
      <4> QED BY <1>1, <2>1, <4>1, <4>2
    <3> QED BY <2>1, <2>4, <3>2 DEF Asked
  <2> QED BY <2>2, <2>5 DEF LoopInv
<1>5. ASSUME NEW c \in Callers, StoreMapping(c)
      PROVE  LoopInv'
  <2>1. DOMAIN id2id_map' = DOMAIN id2id_map \cup {requestId[c]}
    BY <1>5 DEF StoreMapping
  <2> QED BY <1>1, <1>5, <2>1 DEF StoreMapping, LoopInv, NeverRefused, Asked, Asking, Blocking
<1>6. ASSUME NEW c \in Callers, FindMapping(c) \/ WaitForReplies(c) \/ Retry(c)
      PROVE  LoopInv'
  <2>1. /\ pc[c] \in Receiving
        /\ UNCHANGED <<queue, writes, answered, op, requestId, identity, id2id_map, thread>>
    BY <1>6 DEF FindMapping, WaitForReplies, Retry
  <2>2. PICK l \in Receiving : pc' = [pc EXCEPT ![c] = l] /\ (queue # {} \/ l # "take")
    <3>1. CASE FindMapping(c)
      BY <3>1 DEF FindMapping
    <3>2. CASE WaitForReplies(c)
      BY <3>2 DEF WaitForReplies
    <3>3. CASE Retry(c)
      BY <3>3 DEF Retry
    <3> QED BY <1>6, <3>1, <3>2, <3>3
  <2>3. NeverRefused' /\ Blocking'
    BY <1>1, <2>1, <2>2 DEF LoopInv, NeverRefused, Blocking
  <2>4. ASSUME NEW k PROVE Asking(k)' <=> Asking(k)
    BY <1>1, <2>1, <2>2 DEF Asking
  <2>5. \A d \in Callers : pc'[d] = "take" => queue' # {}
    BY <1>1, <2>1, <2>2 DEF LoopInv, Asked
  <2>6. Asked'
    BY <2>1, <2>4, <2>5 DEF LoopInv, Asked
  <2> QED BY <2>3, <2>6 DEF LoopInv
<1>7. ASSUME NEW c \in Callers, TakeOwn(c)
      PROVE  LoopInv'
  <2>1. pc[c] = "take" /\ UNCHANGED <<writes, answered, op, requestId, identity, thread>>
    BY <1>7 DEF TakeOwn
  <2>2. PICK q \in queue :
          /\ q.req = identity[c] /\ queue' = queue \ {q}
          /\ \/ pc' = [pc EXCEPT ![c] = "failed"] /\ UNCHANGED id2id_map
             \/ pc' = [pc EXCEPT ![c] = "idle"]
    BY <1>1, <1>7 DEF TakeOwn, Matching
  <2>3. queue' = {}
    <3>1. \A p \in queue : p.req = identity[c]
      BY <1>1 DEF LoopInv, Asked, Asking
    <3> QED BY <2>2, <3>1 DEF LoopInv, Asked
  <2>4. NeverRefused' /\ Blocking'
    BY <1>1, <2>1, <2>2 DEF LoopInv, NeverRefused, Blocking
  <2>5. \A k : Asking(k)' \/ ~Asking(k) \/ k = identity[c]
    BY <1>1, <2>1, <2>2 DEF Asking
  <2>6. \E r \in Repliers : <<identity[c], r>> \in answered
    BY <1>1, <2>2
  <2>7. Asked'
    BY <1>1, <2>1, <2>2, <2>3, <2>5, <2>6 DEF LoopInv, Asked
  <2> QED BY <2>4, <2>7 DEF LoopInv
(* The one reply that may be there is the one it asks for.                 *)
<1>8. ASSUME NEW c \in Callers, TakeNothing(c)
      PROVE  FALSE
  <2>1. pc[c] = "take" /\ {q \in queue : q.req = identity[c]} = {}
    BY <1>1, <1>8 DEF TakeNothing, Matching
  <2>2. PICK q \in queue : Asking(q.req)
    BY <2>1 DEF LoopInv, Asked
  <2> QED BY <1>1, <2>1, <2>2 DEF Asking
<1>9. ASSUME NEW c \in Callers, SendRaw(c) \/ GiveUp(c) \/ RegisterPromise(c) \/ SpawnReplyThread(c)
      PROVE  FALSE
  BY <1>9 DEF SendRaw, GiveUp, RegisterPromise, SpawnReplyThread, Alone, LoopInv, Blocking
<1>10. ASSUME NEW c \in Callers, NEW enable, ReceiveNondata(c, enable)
       PROVE  LoopInv'
  BY <1>10 DEF ReceiveNondata, LoopInv, NeverRefused, Asked, Asking, Blocking
<1>11. ASSUME NEW k \in Requests, ThreadStep(k)
       PROVE  FALSE
  BY <1>11 DEF ThreadStep, ThreadWait, ThreadTake, ThreadComplete, ThreadErase, LoopInv, Blocking
<1>12. ASSUME NEW r \in Repliers, NEW k \in Requests, Answer(r, k)
       PROVE  LoopInv'
  <2>1. /\ k \in 1..writes /\ <<k, r>> \notin answered /\ answered' = answered \cup {<<k, r>>}
        /\ UNCHANGED <<writes, pc, op, requestId, identity, id2id_map, thread>>
    BY <1>12 DEF Answer
  <2>2. PICK q : q.req = k /\ queue' = queue \cup {q}
    BY <1>12 DEF Answer
  <2>3. NeverRefused' /\ Blocking'
    BY <2>1 DEF LoopInv, NeverRefused, Blocking
  <2>4. \A l : Asking(l)' <=> Asking(l)
    BY <2>1 DEF Asking
  <2>5. Asking(k) /\ \A p \in queue : p.req # k
    BY <1>1, <2>1 DEF LoopInv, Asked, Alone
  <2>6. Asked'
    BY <2>1, <2>2, <2>4, <2>5 DEF LoopInv, Asked
  <2> QED BY <2>3, <2>6 DEF LoopInv
<1>13. CASE UNCHANGED vars
  BY <1>13 DEF vars, LoopInv, NeverRefused, Asked, Asking, Blocking
<1> QED BY <1>2, <1>3, <1>4, <1>5, <1>6, <1>7, <1>8, <1>9, <1>10, <1>11, <1>12, <1>13 DEF Next, CallerStep

(* receive_reply accepts every retry of the loop in robot_reqrep.cxx until *)
(* the reply is delivered, for any number of requests and timeouts: what   *)
(* LoopEnds rests on besides fairness.                                     *)
THEOREM NeverRefusedHolds ==
  ASSUME Alone
  PROVE  Spec => []NeverRefused
<1>1. Init => Inv /\ LoopInv
  BY InvInit, LoopInit
<1>2. Inv /\ LoopInv /\ [Next]_vars => Inv' /\ LoopInv'
  BY InvStep, LoopStep
<1>3. LoopInv => NeverRefused
  BY DEF LoopInv
<1> QED BY <1>1, <1>2, <1>3, PTL DEF Spec

(***************************************************************************)
(* Refinement: the requester implements the abstract call.                 *)
(***************************************************************************)
AbsAnswered == {k \in Requests : \E r \in Repliers : <<k, r>> \in answered}
AbsOutcome == [k \in Requests |-> Outcome(k)]
AbsValue == [k \in Requests |-> IF status[k] = "value" THEN source[k] ELSE 0]

LEMMA RefineInit == Init => Call!Init
<1> SUFFICES ASSUME Init
             PROVE  Call!Init
  OBVIOUS
<1>1. 1..writes = {}
  BY DEF Init
<1>2. AbsAnswered = {}
  BY DEF Init, AbsAnswered
<1>3. AbsOutcome = [k \in Requests |-> "open"] /\ AbsValue = [k \in Requests |-> 0]
  BY DEF Init, AbsOutcome, AbsValue, Outcome
<1>4. QED
  BY <1>1, <1>2, <1>3 DEF Call!Init, AbsAnswered, AbsOutcome, AbsValue

(* A step that ends the request k with its reply is the abstract Deliver.  *)
LEMMA RefineDeliver ==
  ASSUME Inv, NEW k \in Requests, status[k] = "pending", k \in AbsAnswered,
         status' = [status EXCEPT ![k] = "value"], source'[k] = k,
         \A n \in Requests \ {k} : source'[n] = source[n],
         UNCHANGED <<writes, answered>>
  PROVE  Call!Deliver(k)
<1> USE DEF Inv, TypeInv, TypeOK
<1>1. AbsOutcome[k] = "open"
  BY DEF AbsOutcome, Outcome
<1>2. AbsOutcome' = [AbsOutcome EXCEPT ![k] = "value"]
  BY DEF AbsOutcome, Outcome
<1>3. AbsValue' = [AbsValue EXCEPT ![k] = k]
  BY DEF AbsValue
<1>4. QED
  BY <1>1, <1>2, <1>3 DEF Call!Deliver, AbsAnswered, AbsOutcome, AbsValue

(* A step that changes neither what was issued or answered nor the end of  *)
(* a request is a stutter.                                                 *)
LEMMA RefineStutter ==
  ASSUME UNCHANGED <<writes, answered, status>>,
         \A k \in Requests : status[k] = "value" => source'[k] = source[k]
  PROVE  UNCHANGED Call!vars
BY DEF Call!vars, Outcome

(* A write is the abstract Issue of the next identity.                     *)
LEMMA RefineIssue ==
  ASSUME Inv, NEW o \in {"sync", "async", "raw"}, WriteAs(o)
  PROVE  Call!Issue(writes + 1) /\ writes + 1 \in Requests
<1>1. /\ writes \in Nat /\ writes' = writes + 1 /\ writes + 1 \in Requests
      /\ status[writes + 1] = "unsent"
      /\ status' = [status EXCEPT ![writes + 1] = "pending"]
      /\ UNCHANGED <<answered, source>>
  <2>1. writes + 1 \in Requests /\ status[writes + 1] = "unsent"
    BY WriteFacts
  <2>2. writes \in Nat
    BY RequesterAssumption DEF RequesterAssumption, Inv, TypeInv, TypeOK
  <2>3. QED
    BY <2>1, <2>2 DEF WriteAs
<1> USE DEF Inv, TypeInv, TypeOK
<1>2. writes + 1 \notin 1..writes /\ 1..writes' = (1..writes) \cup {writes + 1}
  BY <1>1
<1>3. AbsOutcome' = AbsOutcome
  BY <1>1 DEF AbsOutcome, Outcome
<1>4. AbsValue' = AbsValue
  BY <1>1 DEF AbsValue
<1>5. QED
  BY <1>1, <1>2, <1>3, <1>4 DEF Call!Issue, AbsOutcome, AbsValue

LEMMA RefineStep == ASSUME Inv, Inv', [Next]_vars
                    PROVE  [Call!Next]_Call!vars
<1> USE DEF implVars, ddsVars, callerVars, callVars
<1>1. ASSUME NEW c \in Callers, Write(c)
      PROVE  Call!Next
  <2>1. WriteAs(op[c]) /\ op[c] \in {"sync", "async", "raw"}
    BY <1>1 DEF Write, Inv, Delivery, CallerInv
  <2>2. QED
    BY <2>1, RefineIssue DEF Call!Next
<1>2. ASSUME NEW c \in Callers, SendRaw(c)
      PROVE  Call!Next
  BY <1>2, RefineIssue DEF SendRaw, Call!Next
<1>3. ASSUME NEW c \in Callers, TakeOwn(c)
      PROVE  [Call!Next]_Call!vars
  <2>1. /\ identity[c] \in Requests /\ status[identity[c]] = "pending"
        /\ id2id_map[requestId[c]] = identity[c]
    BY <1>3 DEF TakeOwn, Inv, Delivery, CallerInv, MapInv, TypeInv, HasWritten, Receiving
  <2>2. PICK q \in queue :
          /\ q.req = identity[c]
          /\ \/ UNCHANGED <<status, source>>
             \/ /\ status' = [status EXCEPT ![identity[c]] = "value"]
                /\ source' = [source EXCEPT ![identity[c]] = q.req]
    BY <1>3, <2>1 DEF TakeOwn, Matching
  <2>3. UNCHANGED <<writes, answered>>
    BY <1>3 DEF TakeOwn
  <2>4. CASE UNCHANGED <<status, source>>
    BY <2>3, <2>4, RefineStutter
  <2>5. CASE /\ status' = [status EXCEPT ![identity[c]] = "value"]
             /\ source' = [source EXCEPT ![identity[c]] = q.req]
    <3>1. PICK k \in Requests : k = identity[c]
      BY <2>1
    <3>2. k \in AbsAnswered
      BY <2>2, <3>1 DEF AbsAnswered, Inv, Delivery, AnswerInv, TypeInv, TypeOK, Replies
    <3>3. source'[k] = k /\ \A n \in Requests \ {k} : source'[n] = source[n]
      BY <2>2, <2>5, <3>1 DEF Inv, TypeInv, TypeOK
    <3>4. status[k] = "pending" /\ status' = [status EXCEPT ![k] = "value"]
      BY <2>1, <2>5, <3>1
    <3>5. Call!Deliver(k)
      BY <2>3, <3>2, <3>3, <3>4, RefineDeliver
    <3>6. QED
      BY <3>5 DEF Call!Next
  <2>6. QED
    BY <2>2, <2>4, <2>5
<1>4. ASSUME NEW c \in Callers, GiveUp(c)
      PROVE  Call!Next
  <2>1. /\ identity[c] \in Requests /\ status[identity[c]] = "pending"
        /\ status' = [status EXCEPT ![identity[c]] = "abandoned"]
        /\ UNCHANGED <<writes, answered, source>>
    BY <1>4 DEF GiveUp, Inv, Delivery, CallerInv, TypeInv, HasWritten, Receiving
  <2>2. identity[c] \in 1..writes
    BY <2>1, RequesterAssumption
       DEF Inv, Delivery, IssueInv, TypeInv, TypeOK, Requests, RequesterAssumption
  <2>3. AbsOutcome[identity[c]] = "open"
    BY <2>1 DEF AbsOutcome, Outcome
  <2>4. AbsOutcome' = [AbsOutcome EXCEPT ![identity[c]] = "failed"]
    BY <2>1 DEF AbsOutcome, Outcome, Inv, TypeInv, TypeOK
  <2>5. AbsValue' = AbsValue
    BY <2>1 DEF AbsValue, Inv, TypeInv, TypeOK
  <2>6. Call!Fail(identity[c])
    BY <2>1, <2>2, <2>3, <2>4, <2>5 DEF Call!Fail, AbsOutcome, AbsValue
  <2>7. QED
    BY <2>1, <2>6 DEF Call!Next
<1>5. ASSUME NEW k \in Requests, ThreadComplete(k)
      PROVE  [Call!Next]_Call!vars
  <2>1. /\ status[k] = "pending" /\ source[k] = k /\ k \in AbsAnswered
    BY <1>5, RequesterAssumption
       DEF ThreadComplete, Inv, Delivery, ThreadInv, AnswerInv, AbsAnswered, Requests
  <2>2. UNCHANGED <<writes, answered, source>>
    BY <1>5 DEF ThreadComplete
  <2>3. CASE UNCHANGED status
    BY <2>2, <2>3, RefineStutter
  <2>4. CASE status' = [status EXCEPT ![k] = "value"]
    <3>1. Call!Deliver(k)
      BY <2>1, <2>2, <2>4, RefineDeliver
    <3>2. QED
      BY <3>1 DEF Call!Next
  <2>5. QED
    BY <1>5, <2>1, <2>3, <2>4, RequesterAssumption DEF ThreadComplete, Requests
<1>6. ASSUME NEW k \in Requests, ThreadTake(k)
      PROVE  [Call!Next]_Call!vars
  <2>1. status[k] = "pending" /\ UNCHANGED <<writes, answered, status>>
    BY <1>6 DEF ThreadTake, Inv, Delivery, ThreadInv
  <2>2. \A n \in Requests : status[n] = "value" => source'[n] = source[n]
    BY <1>6, <2>1 DEF ThreadTake, Inv, TypeInv, TypeOK
  <2>3. QED
    BY <2>1, <2>2, RefineStutter
<1>7. ASSUME NEW r \in Repliers, NEW k \in Requests, Answer(r, k)
      PROVE  Call!Next
  <2>1. k \in 1..writes /\ UNCHANGED <<writes, status, source>>
    BY <1>7 DEF Answer
  <2>2. AbsAnswered' = AbsAnswered \cup {k}
    BY <1>7 DEF Answer, AbsAnswered
  <2>3. AbsOutcome' = AbsOutcome /\ AbsValue' = AbsValue
    BY <2>1 DEF AbsOutcome, AbsValue, Outcome
  <2>4. Call!Answer(k)
    BY <2>1, <2>2, <2>3 DEF Call!Answer, AbsAnswered, AbsOutcome, AbsValue
  <2>5. QED
    BY <2>4 DEF Call!Next
<1>8. ASSUME NEW c \in Callers, NEW o \in {"sync", "async"}, ReadSn(c, o)
      PROVE  UNCHANGED Call!vars
  BY <1>8, RefineStutter DEF ReadSn
<1>9. ASSUME NEW c \in Callers,
             \/ StampSn(c) \/ StoreMapping(c) \/ FindMapping(c) \/ WaitForReplies(c)
             \/ TakeNothing(c) \/ Retry(c) \/ RegisterPromise(c) \/ SpawnReplyThread(c)
      PROVE  UNCHANGED Call!vars
  <2>1. UNCHANGED <<writes, answered, status, source>>
    BY <1>9 DEF StampSn, StoreMapping, FindMapping, WaitForReplies, TakeNothing, Retry,
                RegisterPromise, SpawnReplyThread
  <2>2. QED
    BY <2>1, RefineStutter
<1>10. ASSUME NEW c \in Callers, NEW enable \in BOOLEAN, ReceiveNondata(c, enable)
       PROVE  UNCHANGED Call!vars
  BY <1>10, RefineStutter DEF ReceiveNondata
<1>11. ASSUME NEW k \in Requests, ThreadWait(k) \/ ThreadErase(k)
       PROVE  UNCHANGED Call!vars
  BY <1>11, RefineStutter DEF ThreadWait, ThreadErase
<1>12. CASE UNCHANGED vars
  BY <1>12, RefineStutter DEF vars
<1>13. QED
  BY <1>1, <1>2, <1>3, <1>4, <1>5, <1>6, <1>7, <1>8, <1>9, <1>10, <1>11, <1>12
     DEF Next, CallerStep, ThreadStep

(* Whatever the interleaving, requests end at most once and only with      *)
(* their own answer.                                                       *)
THEOREM RequesterImplementsCall == Spec => ImplementsCall
<1>1. QED
  BY Invariance, RefineInit, RefineStep, PTL DEF Spec, ImplementsCall, Call!Spec
==============================================================================
