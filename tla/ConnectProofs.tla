--------------------------- MODULE ConnectProofs ---------------------------
(***************************************************************************)
(* Connect's inductive invariant, for any number of administrators, keys   *)
(* and endpoints, and what follows from it.  Two more are built on it:     *)
(* EndpointInv, where no request dies and the cap is not reached, and      *)
(* KeyInv, for one administrator at a time, where no exchange is lost.     *)
(***************************************************************************)
EXTENDS Connect, TLAPS

-----------------------------------------------------------------------------
(* Types.                                                                   *)

\* A request that is not idle has all the fields of one.
LEMMA ActiveJob ==
    ASSUME NEW w \in Worker, TypeOK, job[w].step # "idle"
    PROVE  job[w] \in Active
  BY DEF TypeOK, Job, Idle

\* The record a consent writes is a record.
LEMMA RecordOps ==
    ASSUME NEW rec \in Record, NEW k \in Key \cup {None}, NEW plane \in Plane \cup {None}
    PROVE  WithKey(rec, k, plane) \in Record
  BY DEF Record, WithKey

\* What the end of a request commits has the types of TypeOK.
LEMMA CommitType ==
    ASSUME NEW w \in Worker, NEW rec \in Record, TypeOK, job[w].step # "idle", Commit(w, rec)
    PROVE  /\ prov' \in Record
           /\ lock' \in Worker \cup {None}
           /\ client' \in [id : 0..MaxClient, completed : BOOLEAN]
           /\ job' \in [Worker -> Job]
<1>1. job[w].marks \in BOOLEAN
  BY ActiveJob DEF Active
<1> QED
  BY <1>1 DEF TypeOK, Commit, Job

\* So has what a rollback leaves.
LEMMA RollbackType ==
    ASSUME NEW w \in Worker, TypeOK, Rollback(w)
    PROVE  /\ prov' \in Record
           /\ lock' \in Worker \cup {None}
           /\ client' \in [id : 0..MaxClient, completed : BOOLEAN]
           /\ job' \in [Worker -> Job]
  BY DEF TypeOK, Rollback, Job

\* Nor does it matter how a request fails.
LEMMA FailType ==
    ASSUME NEW w \in Worker, NEW rec \in Record, NEW step \in {"account", "permissions", "webhook"},
           TypeOK, job[w].step # "idle", Fail(w, rec, step)
    PROVE  /\ prov' \in Record
           /\ lock' \in Worker \cup {None}
           /\ client' \in [id : 0..MaxClient, completed : BOOLEAN]
           /\ job' \in [Worker -> Job]
<1>1. job[w].before \in Record
  BY ActiveJob DEF Active
<1>2. Failed(w, rec, step) \in Record
  BY <1>1 DEF Failed, Record
<1> QED
  BY <1>2, CommitType, RollbackType DEF Fail

\* What the platform does has the types of TypeOK.
LEMMA PlatformType ==
    ASSUME TypeOK
    PROVE  /\ \A k \in Key, p \in Plane, id \in 0..MaxClient : IssueKey(k, p, id) =>
                 issued' \in [Key -> [status : {"none", "active", "retired"}, plane : Plane,
                                      client : 0..MaxClient]]
           /\ \A o \in Op, e \in Endpoint, p \in Plane : Created(o, e, p) =>
                 /\ endpoint' \in
                        [Endpoint -> [status : {"none", "alive", "deleted"}, plane : Plane]]
                 /\ answer' \in [Op -> [Plane -> Endpoint \cup {None, Rejected}]]
           /\ \A o \in Op, p \in Plane : Refused(o, p) =>
                 answer' \in [Op -> [Plane -> Endpoint \cup {None, Rejected}]]
           /\ \A D : Delete(D) =>
                 endpoint' \in [Endpoint -> [status : {"none", "alive", "deleted"}, plane : Plane]]
<1>1. ASSUME NEW k \in Key, NEW p \in Plane, NEW id \in 0..MaxClient, IssueKey(k, p, id)
      PROVE  issued' \in [Key -> [status : {"none", "active", "retired"}, plane : Plane,
                                  client : 0..MaxClient]]
  BY <1>1 DEF TypeOK, IssueKey
<1>2. ASSUME NEW o \in Op, NEW e \in Endpoint, NEW p \in Plane, Created(o, e, p)
      PROVE  /\ endpoint' \in [Endpoint -> [status : {"none", "alive", "deleted"}, plane : Plane]]
             /\ answer' \in [Op -> [Plane -> Endpoint \cup {None, Rejected}]]
  BY <1>2 DEF TypeOK, Created
<1>3. ASSUME NEW o \in Op, NEW p \in Plane, Refused(o, p)
      PROVE  answer' \in [Op -> [Plane -> Endpoint \cup {None, Rejected}]]
  BY <1>3 DEF TypeOK, Refused
<1>4. ASSUME NEW D, Delete(D)
      PROVE  endpoint' \in [Endpoint -> [status : {"none", "alive", "deleted"}, plane : Plane]]
  BY <1>4 DEF TypeOK, Delete
<1> QED
  BY <1>1, <1>2, <1>3, <1>4


\* A request moves on.
LEMMA MoveType ==
    ASSUME NEW w \in Worker, NEW j \in Active, TypeOK, job' = [job EXCEPT ![w] = j]
    PROVE  job' \in [Worker -> Job]
  BY DEF TypeOK, Job

LEMMA HandshakeType ==
    ASSUME NEW w \in Worker, IInv, Connecting(w)
    PROVE  TypeOK'
<1>1. CASE \E plane \in Plane : Start(w, plane)
  <2>1. PICK plane \in Plane, c \in EnsuredClient :
            /\ client' = c
            /\ flow' = [flow EXCEPT ![w] = [plane |-> plane, client |-> c.id]]
    BY <1>1 DEF Start
  <2>2. c \in [id : 1..MaxClient, completed : BOOLEAN]
    <3>1. c.id \in 1..MaxClient
      BY DEF EnsuredClient
    <3>2. CASE c = client
      BY <3>1, <3>2 DEF IInv, TypeOK
    <3>3. CASE c = [id |-> client.id + 1, completed |-> FALSE]
      BY <3>1, <3>3
    <3> QED
      BY <3>2, <3>3 DEF EnsuredClient
  <2>3. client' \in [id : 0..MaxClient, completed : BOOLEAN]
    BY <2>1, <2>2
  <2>4. [plane |-> plane, client |-> c.id] \in [plane : Plane, client : 1..MaxClient]
    BY <2>2
  <2>5. flow' \in [Worker -> [plane : Plane, client : 1..MaxClient] \cup {None}]
    BY <2>1, <2>4 DEF IInv, TypeOK
  <2> QED
    BY <1>1, <2>3, <2>5 DEF IInv, TypeOK, Start, platform
<1>2. CASE Callback(w)
  <2>1. flow[w] \in [plane : Plane, client : 1..MaxClient]
    BY <1>2 DEF IInv, TypeOK, Callback
  <2>2. Request("callback", "exchanging", flow[w].plane, flow[w].client) \in Active
    BY <2>1, ConnectAssumption DEF Request, Active, Record, Blank
  <2> QED
    BY <1>2, <2>2, MoveType DEF IInv, TypeOK, Callback, platform
<1>3. CASE CallbackRefused(w)
  BY <1>3 DEF IInv, TypeOK, CallbackRefused, platform, Record
<1>4. CASE Exchange(w)
  <2>0. job[w] \in Active /\ job[w].plane \in Plane
    BY <1>4, ActiveJob DEF Exchange, IInv, RequestInv, ConsentOk
  <2>1. PICK k \in Key :
            /\ IssueKey(k, job[w].plane, job[w].client)
            /\ job' = [job EXCEPT ![w].step = "locking", ![w].key = k,
                                  ![w].marks = (client.id = job[w].client)]
    BY <1>4 DEF Exchange
  <2>2. [job[w] EXCEPT !.step = "locking", !.key = k, !.marks = (client.id = job[w].client)]
            \in Active
    BY <2>0 DEF Active
  <2>3. job' \in [Worker -> Job]
    BY <2>1, <2>2 DEF IInv, TypeOK, Job
  <2>4. job[w].client \in 0..MaxClient
    BY <2>0 DEF Active
  <2> QED
    <3>1. TypeOK
      BY DEF IInv
    <3>2. issued' \in [Key -> [status : {"none", "active", "retired"}, plane : Plane,
                               client : 0..MaxClient]]
      BY <2>0, <2>1, <2>4, <3>1, PlatformType
    <3>3. UNCHANGED <<endpoint, answer, prov, lock, client, flow, validated>>
      BY <1>4, <2>1 DEF Exchange, IssueKey
    <3> QED
      BY <2>3, <3>1, <3>2, <3>3 DEF TypeOK
<1>5. CASE ExchangeFails(w)
  <2>0. job[w] \in Active /\ job[w].plane \in Plane
    BY <1>5, ActiveJob DEF ExchangeFails, IInv, RequestInv, ConsentOk
  <2>1. [job[w] EXCEPT !.step = "failing"] \in Active
    BY <2>0 DEF Active
  <2>2. job' \in [Worker -> Job]
    BY <1>5, <2>1 DEF IInv, TypeOK, Job, ExchangeFails
  <2>3. job[w].client \in 0..MaxClient
    BY <2>0 DEF Active
  <2> QED
    <3>1. TypeOK
      BY DEF IInv
    <3>2. issued' \in [Key -> [status : {"none", "active", "retired"}, plane : Plane,
                               client : 0..MaxClient]]
      <4>1. CASE UNCHANGED platform
        BY <3>1, <4>1 DEF platform, TypeOK
      <4>2. CASE \E k \in Key : IssueKey(k, job[w].plane, job[w].client)
        BY <2>0, <2>3, <3>1, <4>2, PlatformType
      <4> QED
        BY <1>5, <4>1, <4>2 DEF ExchangeFails
    <3>3. UNCHANGED <<endpoint, answer, prov, lock, client, flow, validated>>
      BY <1>5 DEF ExchangeFails, IssueKey, platform
    <3> QED
      BY <2>2, <3>1, <3>2, <3>3 DEF TypeOK
<1>6. CASE RecordError(w)
  <2>1. [prov EXCEPT !.error = TRUE] \in Record
    BY DEF IInv, TypeOK, Record
  <2> QED
    BY <1>6, <2>1, CommitType DEF IInv, TypeOK, RecordError, platform
<1> QED
  BY <1>1, <1>2, <1>3, <1>4, <1>5, <1>6 DEF Connecting

\* The platform only answers a key it knows.
LEMMA WorkingKey ==
    ASSUME NEW k \in Key \cup {None}, TypeOK, Works(k)
    PROVE  k \in Key /\ PlaneOf(k) \in Plane /\ issued[k].status # "none"
  BY DEF TypeOK, Works, PlaneOf

LEMMA ProvisioningType ==
    ASSUME NEW w \in Worker, IInv, Provisioning(w)
    PROVE  TypeOK'
<1>0. TypeOK
  BY DEF IInv
<1>j. ASSUME job[w].step # "idle"
      PROVE  /\ job[w] \in Active
             /\ job[w].key \in Key \cup {None} /\ job[w].draft \in Record
             /\ job[w].plane \in Plane \cup {None}
  BY <1>0, <1>j, ActiveJob DEF Active
<1>1. CASE LockProvider(w)
  <2>0. job[w] \in Active
    BY <1>1, <1>j DEF LockProvider
  <2> DEFINE k == IF job[w].kind = "callback" THEN job[w].key ELSE prov.key
             s == IF job[w].kind = "reconfigure" THEN "creating" ELSE "account"
             d == IF job[w].kind = "callback" /\ PlaneOf(prov.key) = job[w].plane
                  THEN WithKey(prov, k, job[w].plane) ELSE prov
  <2>1. k \in Key \cup {None}
    BY <1>0, <2>0 DEF TypeOK, Record, Active
  <2>2. d \in Record
    <3>1. WithKey(prov, k, job[w].plane) \in Record
      BY <1>0, <2>0, <2>1, RecordOps DEF TypeOK, Active
    <3> QED
      BY <1>0, <3>1 DEF TypeOK
  <2>3. [job[w] EXCEPT !.step = s, !.key = k, !.before = prov, !.draft = d] \in Active
    BY <1>0, <2>0, <2>1, <2>2 DEF TypeOK, Active
  <2>4. job' = [job EXCEPT ![w] =
                    [job[w] EXCEPT !.step = s, !.key = k, !.before = prov, !.draft = d]]
    BY <1>1 DEF LockProvider
  <2>5. job' \in [Worker -> Job]
    BY <1>0, <2>3, <2>4, MoveType
  <2> QED
    BY <1>0, <1>1, <2>5 DEF TypeOK, LockProvider, platform
<1>2. CASE LockRefused(w)
  <2>0. job[w] \in Active
    BY <1>2, <1>j DEF LockRefused
  <2>1. CASE job' = [job EXCEPT ![w].step = "failing"] /\ UNCHANGED <<prov, lock, client>>
    <3>1. [job[w] EXCEPT !.step = "failing"] \in Active
      BY <2>0 DEF Active
    <3>2. job' = [job EXCEPT ![w] = [job[w] EXCEPT !.step = "failing"]]
      BY <2>1
    <3>3. job' \in [Worker -> Job]
      BY <1>0, <3>1, <3>2, MoveType
    <3> QED
      BY <1>0, <1>2, <2>1, <3>3 DEF TypeOK, LockRefused, platform
  <2>2. CASE Rollback(w)
    BY <1>0, <1>2, <2>2, RollbackType DEF TypeOK, LockRefused, platform
  <2> QED
    BY <1>2, <2>1, <2>2 DEF LockRefused
<1>3. CASE AccountUnread(w)
  BY <1>0, <1>3, <1>j, FailType DEF TypeOK, AccountUnread, platform
<1>4. CASE AccountRefused(w)
  BY <1>0, <1>4, <1>j, FailType DEF TypeOK, AccountRefused, platform
<1>5. CASE AccountAccepted(w)
  <2>0. job[w] \in Active /\ job[w].key \in Key
    BY <1>0, <1>5, <1>j, WorkingKey DEF AccountAccepted
  <2> DEFINE d == IF job[w].kind = "callback"
                  THEN WithKey(job[w].draft, job[w].key, job[w].plane) ELSE job[w].draft
  <2>1. d \in Record
    <3>1. WithKey(job[w].draft, job[w].key, job[w].plane) \in Record
      BY <2>0, RecordOps DEF Active
    <3> QED
      BY <2>0, <3>1 DEF Active
  <2>2. [job[w] EXCEPT !.step = "creating", !.draft = d] \in Active
    BY <2>0, <2>1 DEF Active
  <2>3. job' = [job EXCEPT ![w] = [job[w] EXCEPT !.step = "creating", !.draft = d]]
    BY <1>5 DEF AccountAccepted
  <2>4. job' \in [Worker -> Job]
    BY <1>0, <2>2, <2>3, MoveType
  <2> QED
    BY <1>0, <1>5, <2>0, <2>4 DEF TypeOK, AccountAccepted, platform
<1>6. CASE CreateAnswered(w)
  <2>1. PICK o \in Op, e \in Endpoint :
            /\ Works(job[w].key)
            /\ Created(o, e, PlaneOf(job[w].key))
            /\ job' = [job EXCEPT ![w].step = "cleaning", ![w].draft.op = o,
                                  ![w].draft.secret = e, ![w].draft.endpoint = e]
            /\ UNCHANGED <<prov, lock, client, flow, validated>>
    BY <1>6 DEF CreateAnswered
  <2>2. job[w] \in Active /\ PlaneOf(job[w].key) \in Plane
    BY <1>0, <1>6, <1>j, <2>1, WorkingKey DEF CreateAnswered, Creates
  <2>3. [job[w].draft EXCEPT !.op = o, !.secret = e, !.endpoint = e] \in Record
    BY <2>2 DEF Active, Record
  <2>4. [job[w] EXCEPT !.step = "cleaning",
                       !.draft = [job[w].draft EXCEPT !.op = o, !.secret = e, !.endpoint = e]]
            \in Active
    BY <2>2, <2>3 DEF Active
  <2>5. job' = [job EXCEPT ![w] = [job[w] EXCEPT !.step = "cleaning",
                    !.draft = [job[w].draft EXCEPT !.op = o, !.secret = e, !.endpoint = e]]]
    BY <1>0, <2>1, <2>2 DEF TypeOK, Active, Record
  <2>6. job' \in [Worker -> Job]
    BY <1>0, <2>4, <2>5, MoveType
  <2>7. /\ endpoint' \in [Endpoint -> [status : {"none", "alive", "deleted"}, plane : Plane]]
        /\ answer' \in [Op -> [Plane -> Endpoint \cup {None, Rejected}]]
    BY <1>0, <2>1, <2>2, PlatformType
  <2>8. UNCHANGED issued
    BY <2>1 DEF Created
  <2> QED
    BY <1>0, <2>1, <2>6, <2>7, <2>8 DEF TypeOK
<1>7. CASE CreateFails(w)
  <2>1. PICK o \in Op :
            /\ Creates(w, o)
            /\ \/ UNCHANGED platform
               \/ /\ Works(job[w].key)
                  /\ \/ Refused(o, PlaneOf(job[w].key))
                     \/ \E e \in Endpoint : Created(o, e, PlaneOf(job[w].key))
            /\ Fail(w, [job[w].draft EXCEPT !.op = o], "webhook")
            /\ UNCHANGED <<flow, validated>>
    BY <1>7 DEF CreateFails
  <2>2. job[w] \in Active /\ job[w].step # "idle"
    BY <1>j, <2>1 DEF Creates
  <2>3. [job[w].draft EXCEPT !.op = o] \in Record
    BY <2>2 DEF Active, Record
  <2>4. /\ prov' \in Record
        /\ lock' \in Worker \cup {None}
        /\ client' \in [id : 0..MaxClient, completed : BOOLEAN]
        /\ job' \in [Worker -> Job]
    BY <1>0, <2>1, <2>2, <2>3, FailType
  <2>5. /\ issued' = issued
        /\ endpoint' \in [Endpoint -> [status : {"none", "alive", "deleted"}, plane : Plane]]
        /\ answer' \in [Op -> [Plane -> Endpoint \cup {None, Rejected}]]
    <3>1. CASE UNCHANGED platform
      BY <1>0, <3>1 DEF TypeOK, platform
    <3>2. CASE Works(job[w].key) /\ Refused(o, PlaneOf(job[w].key))
      <4>1. PlaneOf(job[w].key) \in Plane
        BY <1>0, <2>2, <3>2, WorkingKey DEF Active
      <4> QED
        BY <1>0, <3>2, <4>1, PlatformType DEF TypeOK, Refused
    <3>3. CASE Works(job[w].key) /\ \E e \in Endpoint : Created(o, e, PlaneOf(job[w].key))
      <4>1. PlaneOf(job[w].key) \in Plane
        BY <1>0, <2>2, <3>3, WorkingKey DEF Active
      <4> QED
        BY <1>0, <3>3, <4>1, PlatformType DEF Created
    <3> QED
      BY <2>1, <3>1, <3>2, <3>3
  <2> QED
    BY <1>0, <2>1, <2>4, <2>5 DEF TypeOK
<1>8. CASE CreateCapped(w)
  <2>1. PICK o \in Op :
            /\ Works(job[w].key)
            /\ Refused(o, PlaneOf(job[w].key))
            /\ job' = [job EXCEPT ![w].step = "freeing", ![w].draft.op = o]
            /\ UNCHANGED <<prov, lock, client, flow, validated>>
    BY <1>8 DEF CreateCapped
  <2>2. job[w] \in Active /\ PlaneOf(job[w].key) \in Plane
    BY <1>0, <1>8, <1>j, <2>1, WorkingKey DEF CreateCapped, Creates
  <2>3. [job[w] EXCEPT !.step = "freeing", !.draft = [job[w].draft EXCEPT !.op = o]] \in Active
    BY <2>2 DEF Active, Record
  <2>4. job' = [job EXCEPT ![w] = [job[w] EXCEPT !.step = "freeing",
                                       !.draft = [job[w].draft EXCEPT !.op = o]]]
    BY <1>0, <2>1, <2>2 DEF TypeOK, Active, Record
  <2>5. job' \in [Worker -> Job]
    BY <1>0, <2>3, <2>4, MoveType
  <2>6. answer' \in [Op -> [Plane -> Endpoint \cup {None, Rejected}]]
    BY <1>0, <2>1, <2>2, PlatformType
  <2> QED
    BY <1>0, <2>1, <2>5, <2>6 DEF TypeOK, Refused
<1>9. CASE FreeSlot(w) \/ Cleanup(w)
  <2>0. job[w] \in Active
    BY <1>9, <1>j DEF FreeSlot, Cleanup
  <2>1. PICK s \in {"recreating", "finishing"} : job' = [job EXCEPT ![w].step = s]
    BY <1>9 DEF FreeSlot, Cleanup
  <2>2. [job[w] EXCEPT !.step = s] \in Active
    BY <2>0 DEF Active
  <2>3. job' = [job EXCEPT ![w] = [job[w] EXCEPT !.step = s]]
    BY <2>1
  <2>4. job' \in [Worker -> Job]
    BY <1>0, <2>2, <2>3, MoveType
  <2>5. \E D : Delete(D)
    BY <1>9 DEF FreeSlot, Cleanup
  <2>6. endpoint' \in [Endpoint -> [status : {"none", "alive", "deleted"}, plane : Plane]]
    BY <1>0, <2>5, PlatformType
  <2>7. UNCHANGED <<issued, answer>>
    BY <2>5 DEF Delete
  <2> QED
    BY <1>0, <1>9, <2>4, <2>6, <2>7 DEF TypeOK, FreeSlot, Cleanup
<1>10. CASE Finish(w)
  <2>0. job[w] \in Active /\ job[w].step # "idle"
    BY <1>10, <1>j DEF Finish
  <2>1. PICK rec \in Record : Commit(w, rec)
    <3>1. [job[w].draft EXCEPT !.published = (job[w].plane = "live"),
                               !.step = None, !.error = FALSE] \in Record
      <4>1. job[w].draft \in Record
        BY <2>0 DEF Active
      <4>2. (job[w].plane = "live") \in BOOLEAN
        OBVIOUS
      <4> QED
        BY <4>1, <4>2 DEF Record
    <3>2. job[w].draft \in Record
      BY <2>0 DEF Active
    <3>3. \/ Commit(w, job[w].draft)
          \/ Commit(w, [job[w].draft EXCEPT !.published = (job[w].plane = "live"),
                                            !.step = None, !.error = FALSE])
      BY <1>10 DEF Finish
    <3> QED
      BY <3>1, <3>2, <3>3
  <2> QED
    BY <1>0, <1>10, <2>0, <2>1, CommitType DEF TypeOK, Finish, platform
<1> QED
  BY <1>1, <1>2, <1>3, <1>4, <1>5, <1>6, <1>7, <1>8, <1>9, <1>10 DEF Provisioning

\* The requests a button begins with.
LEMMA RequestType ==
    ASSUME NEW kind \in {"setup", "reconfigure", "disconnect"},
           NEW step \in {"locking", "clearing"}, NEW plane \in Plane \cup {None}
    PROVE  Request(kind, step, plane, 0) \in Active
  BY ConnectAssumption DEF Request, Active, Record, Blank

LEMMA ButtonType ==
    ASSUME NEW w \in Worker, IInv,
           \/ CompleteSetup(w) \/ ReconfigureWebhook(w)
           \/ DisconnectStart(w) \/ DisconnectClear(w)
           \/ Crash(w)
    PROVE  TypeOK'
<1>0. TypeOK
  BY DEF IInv
<1>1. CASE CompleteSetup(w)
  <2>1. PlaneOf(prov.key) \in Plane \cup {None}
    BY <1>0 DEF TypeOK, Record, PlaneOf
  <2> QED
    BY <1>0, <1>1, <2>1, RequestType, MoveType DEF TypeOK, CompleteSetup, platform
<1>2. CASE ReconfigureWebhook(w)
  BY <1>0, <1>2, RequestType, MoveType DEF TypeOK, ReconfigureWebhook, platform
<1>3. CASE DisconnectStart(w)
  BY <1>0, <1>3, RequestType, MoveType, PlatformType DEF TypeOK, DisconnectStart, Delete
<1>4. CASE DisconnectClear(w)
  <2>1. Blank \in Record
    BY DEF Blank, Record
  <2> QED
    BY <1>0, <1>4, <2>1, CommitType DEF TypeOK, DisconnectClear, platform
<1>5. CASE Crash(w)
  BY <1>0, <1>5, RollbackType DEF TypeOK, Crash, platform
<1> QED
  BY <1>1, <1>2, <1>3, <1>4, <1>5

LEMMA FormType ==
    ASSUME NEW state \in {"disabled", "test", "enabled"}, NEW published \in BOOLEAN,
           TypeOK, SaveForm(state, published)
    PROVE  TypeOK'
<1>1. prov' \in Record
  BY DEF TypeOK, SaveForm, Record
<1> QED
  BY <1>1 DEF TypeOK, SaveForm, platform

-----------------------------------------------------------------------------
(* What no step undoes.                                                     *)

\* Keys and endpoints that exist do not vanish nor change plane, and a key
\* found good stays so.
Grows ==
    /\ \A k \in Key : issued[k].status # "none" =>
          issued'[k].status # "none" /\ issued'[k].plane = issued[k].plane
    /\ \A e \in Endpoint : endpoint[e].status # "none" =>
          endpoint'[e].status # "none" /\ endpoint'[e].plane = endpoint[e].plane
    /\ validated \subseteq validated'

PlatformKeeps == Grows /\ AnswerInv'

\* Steps that do not ask the platform, and what each of its own does, leave keys,
\* endpoints and answers that are there.
LEMMA IdlePlatform ==
    ASSUME AnswerInv, UNCHANGED platform, validated \subseteq validated'
    PROVE  PlatformKeeps
  BY DEF AnswerInv, KnownEndpoint, platform, PlatformKeeps, Grows

LEMMA BusyPlatform ==
    ASSUME TypeOK, AnswerInv, UNCHANGED validated,
           \/ \E k \in Key, p \in Plane, id \in 0..MaxClient : IssueKey(k, p, id)
           \/ \E o \in Op, e \in Endpoint, p \in Plane : Created(o, e, p)
           \/ \E o \in Op, p \in Plane : Refused(o, p)
           \/ \E D : Delete(D)
    PROVE  PlatformKeeps
<1>1. ASSUME NEW k \in Key, NEW p \in Plane, NEW id \in 0..MaxClient, IssueKey(k, p, id)
      PROVE  PlatformKeeps
  <2>1. \A j \in Key : issued[j].status # "none" =>
            issued'[j].status # "none" /\ issued'[j].plane = issued[j].plane
    BY <1>1 DEF TypeOK, IssueKey
  <2> QED
    BY <1>1, <2>1 DEF PlatformKeeps, Grows, AnswerInv, KnownEndpoint, IssueKey
<1>2. ASSUME NEW o \in Op, NEW e \in Endpoint, NEW p \in Plane, Created(o, e, p)
      PROVE  PlatformKeeps
  <2>1. KnownEndpoint(e, p)'
    BY <1>2 DEF TypeOK, AnswerInv, KnownEndpoint, Created, NextEndpoint
  <2>2. Grows
    BY <1>2 DEF Grows, TypeOK, Created, NextEndpoint
  <2>3. AnswerInv'
    BY <1>2, <2>1, <2>2 DEF Grows, TypeOK, AnswerInv, KnownEndpoint, Created
  <2> QED
    BY <2>2, <2>3 DEF PlatformKeeps
<1>3. ASSUME NEW o \in Op, NEW p \in Plane, Refused(o, p)
      PROVE  PlatformKeeps
  <2>1. Rejected \notin Endpoint
    BY ConnectAssumption DEF Rejected
  <2> QED
    BY <1>3, <2>1 DEF PlatformKeeps, Grows, TypeOK, AnswerInv, KnownEndpoint, Refused
<1>4. ASSUME NEW D, Delete(D)
      PROVE  PlatformKeeps
  BY <1>4 DEF PlatformKeeps, Grows, TypeOK, AnswerInv, KnownEndpoint, Delete
<1> QED
  BY <1>1, <1>2, <1>3, <1>4

\* A record that satisfies the invariant.
RecordOk(rec) ==
    /\ rec.key # None => KnownKey(rec.key)
    /\ rec.endpoint # None => endpoint[rec.endpoint].status # "none"
    /\ StateFits(rec)
    /\ rec.secret = rec.endpoint
    /\ rec.key # None /\ rec.step = None =>
          /\ rec.key \in validated
          /\ rec.endpoint # None
          /\ endpoint[rec.endpoint].plane = PlaneOf(rec.key)

\* The record on file is a good one, and the parts of the invariant make it up.
LEMMA ProvOk ==
    /\ IInv => RecordOk(prov)
    /\ TypeOK' /\ LockInv' /\ AnswerInv' /\ RequestInv' /\ RecordOk(prov)' => IInv'
  BY DEF IInv, RecordOk, ProvInv, StateFitsKey, SecretOfEndpoint, GateMeansSetUp

\* A good record stays one as keys and endpoints appear.
LEMMA RecordStays ==
    ASSUME NEW rec \in Record, RecordOk(rec), Grows
    PROVE  RecordOk(rec)'
  BY DEF RecordOk, Grows, Record, KnownKey, StateFits, PlaneOf

\* A request is not disturbed by the steps of others that leave the record.
LEMMA Steady ==
    ASSUME NEW v \in Worker, IInv, Grows, prov' = prov, job'[v] = job[v]
    PROVE  ConsentOk(v)' /\ DraftOk(v)'
<1>1. ConsentOk(v) /\ DraftOk(v)
  BY DEF IInv, RequestInv
<1>2. ConsentOk(v)'
  BY <1>1 DEF ConsentOk, Grows, KnownKey, PlaneOf
<1>3. ASSUME Locked(v)
      PROVE  DraftOk(v)'
  <2>1. job[v] \in Active
    BY <1>3, ActiveJob DEF IInv, Locked
  <2>2. job[v].before = prov /\ KnownKey(job[v].key)
    BY <1>1, <1>3 DEF DraftOk
  <2>3. PlaneOf(job[v].key)' = PlaneOf(job[v].key)
    BY <2>2, ConnectAssumption DEF PlaneOf, KnownKey, Grows
  <2>4. PlaneOf(job[v].before.key)' = PlaneOf(job[v].before.key)
    BY <2>2 DEF PlaneOf, KnownKey, Grows, IInv, ProvInv
  <2>5. Intended(v)' = Intended(v)
    BY <2>4 DEF Intended, SamePlane, WithKey
  <2> QED
    BY <1>1, <1>3, <2>3, <2>5 DEF DraftOk, Locked, Grows, KnownKey, KnownEndpoint, WithoutEndpoint
<1> QED
  BY <1>2, <1>3 DEF DraftOk, Locked

-----------------------------------------------------------------------------
(* How a request's step, its end and its failure keep the invariant.        *)

\* A step of w that leaves the record.
LEMMA MoveKeeps ==
    ASSUME NEW w \in Worker, IInv, TypeOK', PlatformKeeps, prov' = prov,
           \A v \in Worker \ {w} : job'[v] = job[v],
           LockInv', ConsentOk(w)', DraftOk(w)'
    PROVE  IInv'
<1>1. RecordOk(prov)'
  <2>1. prov \in Record /\ RecordOk(prov)
    BY ProvOk DEF IInv, TypeOK
  <2> QED
    BY <2>1 DEF PlatformKeeps, Grows, RecordOk, Record, KnownKey, StateFits, PlaneOf
<1>2. RequestInv'
  <2>1. ASSUME NEW v \in Worker
        PROVE  ConsentOk(v)' /\ DraftOk(v)'
    BY Steady DEF PlatformKeeps
  <2> QED
    BY <2>1 DEF RequestInv
<1> QED
  BY <1>1, <1>2, ProvOk DEF PlatformKeeps

\* The record is written when nobody else holds it, so no draft is stale.
LEMMA WriteKeeps ==
    ASSUME NEW w \in Worker, NEW rec \in Record, IInv, TypeOK', PlatformKeeps,
           prov' = rec, lock \in {None, w}, lock' = None,
           \A v \in Worker \ {w} : job'[v] = job[v],
           job'[w] = Idle \/ (job'[w] = job[w] /\ lock = None),
           RecordOk(rec)
    PROVE  IInv'
<1>1. \A v \in Worker : ~Locked(v)'
  BY ConnectAssumption DEF IInv, LockInv, Locked, Idle
<1>2. LockInv'
  BY <1>1, ConnectAssumption DEF LockInv
<1>3. RecordOk(prov)'
  BY DEF PlatformKeeps, Grows, RecordOk, Record, KnownKey, StateFits, PlaneOf
<1>4. ASSUME NEW v \in Worker
      PROVE  ConsentOk(v)'
  <2>1. ConsentOk(v)
    BY DEF IInv, RequestInv
  <2>2. CASE job'[v] = Idle
    BY <2>2 DEF ConsentOk, Idle
  <2>3. CASE job'[v] = job[v]
    BY <2>1, <2>3 DEF ConsentOk, PlatformKeeps, Grows, KnownKey, PlaneOf
  <2> QED
    BY <2>2, <2>3
<1>5. RequestInv'
  BY <1>1, <1>4 DEF RequestInv, DraftOk
<1> QED
  BY <1>2, <1>3, <1>5, ProvOk DEF PlatformKeeps

\* Committing a good record, or rolling back, ends a request well.
LEMMA CommitKeeps ==
    ASSUME NEW w \in Worker, NEW rec \in Record, IInv, TypeOK', PlatformKeeps,
           Commit(w, rec), RecordOk(rec)
    PROVE  IInv'
  BY WriteKeeps DEF Commit, IInv, TypeOK

LEMMA RollbackKeeps ==
    ASSUME NEW w \in Worker, IInv, TypeOK', PlatformKeeps, Rollback(w)
    PROVE  IInv'
<1>1. /\ prov' = prov
      /\ job'[w] = Idle
      /\ \A v \in Worker \ {w} : job'[v] = job[v]
  BY DEF Rollback, IInv, TypeOK
<1>2. LockInv'
  BY <1>1, ConnectAssumption DEF Rollback, IInv, LockInv, Locked, Idle
<1>3. ConsentOk(w)' /\ DraftOk(w)'
  BY <1>1 DEF ConsentOk, DraftOk, Locked, Idle
<1> QED
  BY <1>1, <1>2, <1>3, MoveKeeps

\* Records that differ in their endpoint only agree on the rest.
LEMMA FieldsAgree ==
    ASSUME NEW a \in Record, NEW b \in Record, WithoutEndpoint(a) = WithoutEndpoint(b)
    PROVE  /\ a.key = b.key /\ a.state = b.state /\ a.published = b.published
           /\ a.step = b.step /\ a.error = b.error
<1> DEFINE x == WithoutEndpoint(a)
           y == WithoutEndpoint(b)
<1>1. x.key = a.key /\ x.state = a.state /\ x.published = a.published
      /\ x.step = a.step /\ x.error = a.error
  BY DEF WithoutEndpoint, Record
<1>2. y.key = b.key /\ y.state = b.state /\ y.published = b.published
      /\ y.step = b.step /\ y.error = b.error
  BY DEF WithoutEndpoint, Record
<1> QED
  BY <1>1, <1>2

\* A failure commits the connection as it was, or the new key of a connected
\* plane with a flag, which keeps the setup gate shut.
LEMMA FailKeeps ==
    ASSUME NEW w \in Worker, NEW rec \in Record, NEW step \in {"account", "permissions", "webhook"},
           IInv, TypeOK', PlatformKeeps, Fail(w, rec, step),
           job[w].step \in {"account", "creating", "recreating"},
           WithoutEndpoint(rec) = WithoutEndpoint(job[w].draft),
           rec.secret = job[w].draft.secret, rec.endpoint = job[w].draft.endpoint
    PROVE  IInv'
<1>1. CASE job[w].kind # "callback"
  BY <1>1, RollbackKeeps DEF Fail
<1>2. CASE job[w].kind = "callback"
  <2> DEFINE new == Failed(w, rec, step)
  <2>0. job[w] \in Active /\ prov \in Record
    BY ActiveJob DEF IInv, TypeOK
  <2>1. new \in Record
    BY <2>0 DEF Failed, Active, Record
  <2>2. /\ KnownKey(job[w].key)
        /\ job[w].before = prov
        /\ job[w].plane = PlaneOf(job[w].key)
        /\ WithoutEndpoint(job[w].draft) = WithoutEndpoint(Intended(w))
        /\ job[w].draft.secret = prov.secret
        /\ job[w].draft.endpoint = prov.endpoint
    BY <1>2 DEF IInv, RequestInv, ConsentOk, DraftOk, Locked
  <2>3. WithoutEndpoint(rec) = WithoutEndpoint(Intended(w))
    BY <2>2
  <2>4. RecordOk(prov)
    BY ProvOk
  <2>5. ASSUME SamePlane(w)
        PROVE  RecordOk(new)
    <3>1. WithoutEndpoint(rec) = WithoutEndpoint(WithKey(prov, job[w].key, job[w].plane))
      BY <1>2, <2>3, <2>5 DEF Intended
    <3>2. /\ rec.key = job[w].key
          /\ rec.state = IF job[w].plane = "live" THEN "enabled" ELSE "test"
      <4> DEFINE with == WithKey(prov, job[w].key, job[w].plane)
      <4>1. with \in Record
        BY <2>0, RecordOps DEF Active
      <4>2. with.key = job[w].key
            /\ with.state = IF job[w].plane = "live" THEN "enabled" ELSE "test"
        BY <2>0 DEF WithKey, Record
      <4>3. rec.key = with.key /\ rec.state = with.state
        BY <3>1, <4>1, FieldsAgree
      <4> QED
        BY <4>2, <4>3
    <3>3. /\ new.key = job[w].key
          /\ new.state = IF job[w].plane = "live" THEN "enabled" ELSE "test"
          /\ new.secret = prov.secret /\ new.endpoint = prov.endpoint
          /\ new.step = step
      BY <2>2, <2>5, <3>2 DEF Failed, Record
    <3>4. StateFits(new)
      <4>1. job[w].plane \in {"live", "test"} /\ job[w].key # None
        BY <2>2, ConnectAssumption DEF IInv, TypeOK, PlaneOf, KnownKey, Plane
      <4> QED
        BY <2>2, <3>3, <4>1 DEF StateFits
    <3>5. step # None
      BY ConnectAssumption
    <3> HIDE DEF new
    <3> QED
      BY <2>2, <2>4, <3>3, <3>4, <3>5 DEF RecordOk, StateFits, KnownKey, PlaneOf
  <2>6. ASSUME ~SamePlane(w)
        PROVE  RecordOk(new)
    <3>1. /\ new.key = prov.key /\ new.state = prov.state
          /\ new.secret = prov.secret /\ new.endpoint = prov.endpoint
      BY <2>2, <2>6 DEF Failed, Record
    <3>2. new.step = rec.step
      BY <2>6 DEF Failed, Record
    <3>3. rec.step = prov.step
      <4> DEFINE with == WithKey(prov, job[w].key, job[w].plane)
      <4>1. with \in Record
        BY <2>0, RecordOps DEF Active
      <4>2. with.step = prov.step
        BY <2>0 DEF WithKey, Record
      <4>3. Intended(w) = prov \/ Intended(w) = with
        BY DEF Intended
      <4> QED
        BY <2>0, <2>3, <4>1, <4>2, <4>3, FieldsAgree
    <3> HIDE DEF new
    <3> QED
      BY <2>4, <3>1, <3>2, <3>3 DEF RecordOk, StateFits, KnownKey, PlaneOf
  <2> QED
    BY <1>2, <2>1, <2>5, <2>6, CommitKeeps DEF Fail
<1> QED
  BY <1>1, <1>2

\* A step of the request that holds the lock, or of one that does not, leaves it.
LEMMA SameLock ==
    ASSUME NEW w \in Worker, IInv, lock' = lock, Locked(w)' <=> Locked(w),
           \A v \in Worker \ {w} : job'[v] = job[v]
    PROVE  LockInv'
  BY DEF IInv, LockInv, Locked

\* Flagging an error leaves a record good.
LEMMA ErrorOk ==
    ASSUME NEW rec \in Record, RecordOk(rec)
    PROVE  /\ [rec EXCEPT !.error = TRUE] \in Record
           /\ RecordOk([rec EXCEPT !.error = TRUE])
<1> DEFINE new == [rec EXCEPT !.error = TRUE]
<1>1. new \in Record
  BY DEF Record
<1>2. /\ new.key = rec.key /\ new.state = rec.state /\ new.step = rec.step
      /\ new.secret = rec.secret /\ new.endpoint = rec.endpoint
  BY DEF Record
<1> HIDE DEF new
<1>3. RecordOk(new)
  BY <1>2 DEF RecordOk, StateFits, KnownKey, PlaneOf
<1> QED
  BY <1>1, <1>3 DEF new

-----------------------------------------------------------------------------
(* The actions.                                                             *)

LEMMA HandshakeKeeps ==
    ASSUME NEW w \in Worker, IInv, Connecting(w)
    PROVE  IInv'
<1>0. TypeOK /\ TypeOK' /\ AnswerInv /\ RecordOk(prov) /\ prov \in Record
  BY HandshakeType, ProvOk DEF IInv, TypeOK
<1>1. CASE \E plane \in Plane : Start(w, plane)
  <2>1. /\ UNCHANGED <<prov, lock, job, platform, validated>>
    BY <1>1 DEF Start
  <2>2. PlatformKeeps
    BY <1>0, <2>1, IdlePlatform
  <2>3. LockInv'
    BY <2>1, SameLock DEF Locked
  <2>4. ConsentOk(w)' /\ DraftOk(w)'
    BY <2>1, <2>2, Steady DEF PlatformKeeps
  <2> QED
    BY <1>0, <2>1, <2>2, <2>3, <2>4, MoveKeeps
<1>2. CASE Callback(w)
  <2>1. UNCHANGED <<prov, lock, platform, validated>>
    BY <1>2 DEF Callback
  <2>2. /\ job'[w].step = "exchanging" /\ job'[w].plane \in Plane
        /\ \A v \in Worker \ {w} : job'[v] = job[v]
    BY <1>0, <1>2, ConnectAssumption DEF Callback, Request, TypeOK
  <2>3. PlatformKeeps
    BY <1>0, <2>1, IdlePlatform
  <2>4. LockInv'
    BY <1>2, <2>1, <2>2, SameLock DEF Locked, Callback, Idle
  <2>5. ConsentOk(w)' /\ DraftOk(w)'
    BY <2>2 DEF ConsentOk, DraftOk, Locked
  <2> QED
    BY <1>0, <2>1, <2>2, <2>3, <2>4, <2>5, MoveKeeps
<1>3. CASE CallbackRefused(w)
  <2>1. /\ lock = None /\ prov' = [prov EXCEPT !.error = TRUE]
        /\ UNCHANGED <<lock, job, platform, validated>>
    BY <1>3 DEF CallbackRefused
  <2>2. PlatformKeeps
    BY <1>0, <2>1, IdlePlatform
  <2> QED
    BY <1>0, <2>1, <2>2, ErrorOk, WriteKeeps
<1>4. CASE Exchange(w)
  <2>1. PICK k \in Key :
            /\ IssueKey(k, job[w].plane, job[w].client)
            /\ job' = [job EXCEPT ![w].step = "locking", ![w].key = k,
                                  ![w].marks = (client.id = job[w].client)]
    BY <1>4 DEF Exchange
  <2>2. job[w] \in Active /\ job[w].plane \in Plane /\ job[w].client \in 0..MaxClient
    BY <1>0, <1>4, ActiveJob DEF Exchange, IInv, RequestInv, ConsentOk, Active
  <2>3. /\ job'[w].step = "locking" /\ job'[w].key = k /\ job'[w].plane = job[w].plane
        /\ \A v \in Worker \ {w} : job'[v] = job[v]
    BY <1>0, <2>1, <2>2 DEF TypeOK, Active
  <2>4. /\ UNCHANGED <<prov, lock, validated>>
    BY <1>4 DEF Exchange
  <2>5. PlatformKeeps
    BY <1>0, <2>1, <2>2, <2>4, BusyPlatform
  <2>6. LockInv'
    BY <1>4, <2>3, <2>4, SameLock DEF Locked, Exchange
  <2>7. issued'[k].status # "none" /\ issued'[k].plane = job[w].plane
    BY <1>0, <2>1 DEF TypeOK, IssueKey
  <2>8. ConsentOk(w)' /\ DraftOk(w)'
    BY <2>3, <2>7, ConnectAssumption DEF ConsentOk, DraftOk, Locked, KnownKey, PlaneOf
  <2> QED
    BY <1>0, <2>3, <2>4, <2>5, <2>6, <2>8, MoveKeeps
<1>5. CASE ExchangeFails(w)
  <2>1. job[w] \in Active /\ job[w].plane \in Plane /\ job[w].client \in 0..MaxClient
    BY <1>0, <1>5, ActiveJob DEF ExchangeFails, IInv, RequestInv, ConsentOk, Active
  <2>2. /\ job'[w].step = "failing"
        /\ \A v \in Worker \ {w} : job'[v] = job[v]
        /\ UNCHANGED <<prov, lock, validated>>
    BY <1>0, <1>5, <2>1 DEF TypeOK, Active, ExchangeFails
  <2>3. PlatformKeeps
    <3>1. CASE UNCHANGED platform
      BY <1>0, <2>2, <3>1, IdlePlatform
    <3>2. CASE \E k \in Key : IssueKey(k, job[w].plane, job[w].client)
      BY <1>0, <2>1, <2>2, <3>2, BusyPlatform
    <3> QED
      BY <1>5, <3>1, <3>2 DEF ExchangeFails
  <2>4. LockInv'
    BY <1>5, <2>2, SameLock DEF Locked, ExchangeFails
  <2>5. ConsentOk(w)' /\ DraftOk(w)'
    BY <2>2 DEF ConsentOk, DraftOk, Locked
  <2> QED
    BY <1>0, <2>2, <2>3, <2>4, <2>5, MoveKeeps
<1>6. CASE RecordError(w)
  <2>1. Commit(w, [prov EXCEPT !.error = TRUE]) /\ UNCHANGED <<platform, validated>>
    BY <1>6 DEF RecordError
  <2>2. PlatformKeeps
    BY <1>0, <2>1, IdlePlatform
  <2> QED
    BY <1>0, <2>1, <2>2, ErrorOk, CommitKeeps
<1> QED
  BY <1>1, <1>2, <1>3, <1>4, <1>5, <1>6 DEF Connecting

\* Taking the row copies a good record into the draft.
LEMMA LockKeeps ==
    ASSUME NEW w \in Worker, IInv, TypeOK', LockProvider(w)
    PROVE  IInv'
<1>0. TypeOK /\ AnswerInv /\ RecordOk(prov) /\ prov \in Record
  BY ProvOk DEF IInv, TypeOK
<1>1. job[w] \in Active
  BY <1>0, ActiveJob DEF LockProvider
<1> DEFINE k == IF job[w].kind = "callback" THEN job[w].key ELSE prov.key
<1>2. /\ lock = None /\ lock' = w
      /\ UNCHANGED <<prov, platform, validated>>
      /\ k # None /\ job[w].step = "locking"
  BY DEF LockProvider
<1>3. /\ job'[w].step = IF job[w].kind = "reconfigure" THEN "creating" ELSE "account"
      /\ job'[w].key = k
      /\ job'[w].before = prov
      /\ job'[w].draft = IF job[w].kind = "callback" /\ PlaneOf(prov.key) = job[w].plane
                         THEN WithKey(prov, k, job[w].plane) ELSE prov
      /\ job'[w].kind = job[w].kind /\ job'[w].plane = job[w].plane
      /\ \A v \in Worker \ {w} : job'[v] = job[v]
  BY <1>0, <1>1 DEF LockProvider, TypeOK, Active
<1>4. PlatformKeeps
  BY <1>0, <1>2, IdlePlatform
<1>5. LockInv'
  BY <1>2, <1>3, ConnectAssumption DEF IInv, LockInv, Locked
<1>6. ConsentOk(w)
  BY DEF IInv, RequestInv
<1>7. UNCHANGED <<issued, endpoint, validated>>
  BY <1>2 DEF platform
<1>8. ConsentOk(w)'
  BY <1>2, <1>3, <1>6, <1>7 DEF ConsentOk, KnownKey, PlaneOf
<1>9. DraftOk(w)'
  <2>1. KnownKey(k)
    BY <1>0, <1>2, <1>6 DEF ConsentOk, RecordOk, KnownKey
  <2>2. SamePlane(w)' <=> PlaneOf(prov.key) = job[w].plane
    BY <1>2, <1>3, <1>7 DEF SamePlane, PlaneOf
  <2>3. job'[w].draft = Intended(w)'
    BY <1>2, <1>3, <2>2 DEF Intended, WithKey
  <2>4. job'[w].draft.secret = prov.secret /\ job'[w].draft.endpoint = prov.endpoint
    BY <1>0, <1>3 DEF WithKey, Record
  <2> QED
    BY <1>2, <1>3, <1>7, <2>1, <2>3, <2>4 DEF DraftOk, Locked, KnownKey
<1> QED
  BY <1>2, <1>3, <1>4, <1>5, <1>8, <1>9, MoveKeeps

\* What a locked request knows.
LEMMA LockedFacts ==
    ASSUME NEW w \in Worker, IInv, Locked(w)
    PROVE  /\ job[w] \in Active /\ job[w].draft \in Record /\ lock = w
           /\ KnownKey(job[w].key) /\ job[w].before = prov
           /\ WithoutEndpoint(job[w].draft) = WithoutEndpoint(Intended(w))
           /\ job[w].kind = "callback" => job[w].plane = PlaneOf(job[w].key)
           /\ job[w].kind # "callback" => job[w].key = prov.key
<1>1. job[w] \in Active
  BY ActiveJob DEF IInv, Locked
<1> QED
  BY <1>1 DEF IInv, LockInv, RequestInv, ConsentOk, DraftOk, Locked, Active

\* A step under the lock changes neither the record nor the request's aim.
LEMMA LockedMove ==
    ASSUME NEW w \in Worker, IInv, TypeOK', PlatformKeeps, Locked(w), Locked(w)',
           prov' = prov, lock' = lock,
           \A v \in Worker \ {w} : job'[v] = job[v],
           job'[w].kind = job[w].kind, job'[w].plane = job[w].plane, job'[w].key = job[w].key,
           job'[w].before = job[w].before, job'[w].step # "account",
           WithoutEndpoint(job[w].draft)' = WithoutEndpoint(Intended(w))',
           IF job'[w].step \in {"cleaning", "finishing"}
           THEN /\ job'[w].draft.secret = job'[w].draft.endpoint
                /\ KnownEndpoint(job[w].draft.endpoint, PlaneOf(job[w].key))'
           ELSE job'[w].draft.secret = prov.secret /\ job'[w].draft.endpoint = prov.endpoint,
           job[w].kind = "reconfigure" \/ job[w].key \in validated'
    PROVE  IInv'
<1>1. LockInv'
  BY SameLock
<1>2. KnownKey(job[w].key)'
  BY LockedFacts DEF PlatformKeeps, Grows, KnownKey
<1>3. ConsentOk(w)'
  BY <1>2, LockedFacts, ConnectAssumption
  DEF PlatformKeeps, Grows, KnownKey, PlaneOf, ConsentOk, Locked
<1>4. job'[w].before = prov' /\ (job'[w].kind # "callback" => job'[w].key = prov'.key)
  BY LockedFacts
<1>5. DraftOk(w)'
  BY <1>2, <1>4 DEF DraftOk
<1> QED
  BY <1>1, <1>3, <1>5, MoveKeeps

\* Once the account is accepted, the aim does not change.
LEMMA SameAim ==
    ASSUME NEW w \in Worker, IInv, Locked(w), job[w].step # "account", job'[w].step # "account",
           prov' = prov, job'[w].kind = job[w].kind, job'[w].plane = job[w].plane,
           job'[w].key = job[w].key,
           WithoutEndpoint(job'[w].draft) = WithoutEndpoint(job[w].draft)
    PROVE  WithoutEndpoint(job[w].draft)' = WithoutEndpoint(Intended(w))'
<1>1. Intended(w)' = Intended(w)
  BY DEF Intended, WithKey
<1> QED
  BY <1>1, LockedFacts DEF WithoutEndpoint

\* Records are equal when their fields are.
LEMMA SameRecord ==
    ASSUME NEW a \in Record, NEW b \in Record,
           a.key = b.key, a.state = b.state, a.published = b.published,
           a.secret = b.secret, a.endpoint = b.endpoint, a.op = b.op,
           a.step = b.step, a.error = b.error
    PROVE  a = b
  BY DEF Record

\* Taking a key looks at nothing else of the record.
LEMMA SameWithKey ==
    ASSUME NEW a \in Record, NEW b \in Record,
           NEW k \in Key \cup {None}, NEW plane \in Plane \cup {None},
           a.published = b.published, a.step = b.step, a.error = b.error
    PROVE  WithoutEndpoint(WithKey(a, k, plane)) = WithoutEndpoint(WithKey(b, k, plane))
<1> DEFINE x == WithoutEndpoint(WithKey(a, k, plane))
           y == WithoutEndpoint(WithKey(b, k, plane))
<1>1. x \in Record /\ y \in Record
  <2>1. WithKey(a, k, plane) \in Record /\ WithKey(b, k, plane) \in Record
    BY RecordOps
  <2> QED
    BY <2>1 DEF WithoutEndpoint, Record
<1>2. /\ x.key = y.key /\ x.state = y.state /\ x.published = y.published
      /\ x.secret = y.secret /\ x.endpoint = y.endpoint /\ x.op = y.op
      /\ x.step = y.step /\ x.error = y.error
  BY DEF WithoutEndpoint, WithKey, Record
<1> QED
  BY <1>1, <1>2, SameRecord

LEMMA AccountKeeps ==
    ASSUME NEW w \in Worker, IInv, TypeOK',
           AccountUnread(w) \/ AccountRefused(w) \/ AccountAccepted(w)
    PROVE  IInv'
<1>0. TypeOK /\ AnswerInv /\ Locked(w) /\ job[w].step = "account"
  BY DEF IInv, AccountUnread, AccountRefused, AccountAccepted, Locked
<1>1. PlatformKeeps
  BY <1>0, IdlePlatform DEF AccountUnread, AccountRefused, AccountAccepted
<1>2. job[w] \in Active /\ job[w].draft \in Record
  BY <1>0, LockedFacts
<1>3. CASE AccountUnread(w) \/ AccountRefused(w)
  <2>1. PICK step \in {"account", "permissions"} : Fail(w, job[w].draft, step)
    BY <1>3 DEF AccountUnread, AccountRefused
  <2> QED
    BY <1>0, <1>1, <1>2, <2>1, FailKeeps
<1>4. CASE AccountAccepted(w)
  <2>1. /\ UNCHANGED <<prov, lock>>
        /\ validated' = validated \cup {job[w].key}
        /\ job'[w].step = "creating"
        /\ job'[w].draft = IF job[w].kind = "callback"
                           THEN WithKey(job[w].draft, job[w].key, job[w].plane)
                           ELSE job[w].draft
        /\ job'[w].kind = job[w].kind /\ job'[w].plane = job[w].plane
        /\ job'[w].key = job[w].key /\ job'[w].before = job[w].before
        /\ \A v \in Worker \ {w} : job'[v] = job[v]
    BY <1>0, <1>2, <1>4 DEF AccountAccepted, TypeOK, Active
  <2>2. /\ WithoutEndpoint(job[w].draft) = WithoutEndpoint(Intended(w))
        /\ job[w].draft.secret = prov.secret /\ job[w].draft.endpoint = prov.endpoint
    BY <1>0 DEF IInv, RequestInv, DraftOk
  <2>3. Locked(w)'
    BY <2>1 DEF Locked
  <2>4. job'[w].draft.secret = prov.secret /\ job'[w].draft.endpoint = prov.endpoint
    BY <1>2, <2>1, <2>2 DEF WithKey, Record
  <2>5. WithoutEndpoint(job[w].draft)' = WithoutEndpoint(Intended(w))'
    <3>1. CASE job[w].kind # "callback"
      BY <2>1, <2>2, <3>1 DEF Intended, WithoutEndpoint
    <3>2. CASE job[w].kind = "callback"
      <4> DEFINE with == WithKey(prov, job[w].key, job[w].plane)
      <4>1. Intended(w)' = with
        BY <2>1, <3>2 DEF Intended, WithKey
      <4>2. Intended(w) = prov \/ Intended(w) = with
        BY DEF Intended
      <4>3. prov \in Record /\ with \in Record
        BY <1>0, <1>2, RecordOps DEF TypeOK, Active
      <4>4. WithoutEndpoint(WithKey(job[w].draft, job[w].key, job[w].plane)) = WithoutEndpoint(with)
        <5>1. WithoutEndpoint(job[w].draft) \in {WithoutEndpoint(prov), WithoutEndpoint(with)}
          BY <2>2, <4>2
        <5>2. with.published = prov.published /\ with.step = prov.step /\ with.error = prov.error
          BY <4>3 DEF WithKey, Record
        <5>3. /\ job[w].draft.published = prov.published
              /\ job[w].draft.step = prov.step /\ job[w].draft.error = prov.error
          BY <1>2, <4>3, <5>1, <5>2, FieldsAgree
        <5> QED
          BY <1>2, <2>2, <4>3, <5>3, SameWithKey DEF Active
      <4> QED
        BY <2>1, <3>2, <4>1, <4>4 DEF WithoutEndpoint
    <3> QED
      BY <3>1, <3>2
  <2> QED
    BY <1>0, <1>1, <2>1, <2>3, <2>4, <2>5, LockedMove
<1> QED
  BY <1>3, <1>4

LEMMA CreateAnsweredKeeps ==
    ASSUME NEW w \in Worker, IInv, TypeOK', CreateAnswered(w)
    PROVE  IInv'
<1>0. TypeOK /\ AnswerInv
  BY DEF IInv
<1>1. PICK o \in Op, e \in Endpoint :
          /\ Creates(w, o)
          /\ Works(job[w].key)
          /\ Created(o, e, PlaneOf(job[w].key))
          /\ job' = [job EXCEPT ![w].step = "cleaning", ![w].draft.op = o,
                                ![w].draft.secret = e, ![w].draft.endpoint = e]
          /\ UNCHANGED <<prov, lock, client, flow, validated>>
  BY DEF CreateAnswered
<1>2. Locked(w) /\ job[w].step # "account"
  BY <1>1 DEF Creates, Locked
<1>3. job[w] \in Active /\ job[w].draft \in Record
  BY <1>2, LockedFacts
<1>4. PlaneOf(job[w].key) \in Plane
  BY <1>0, <1>1, <1>3, WorkingKey DEF Active
<1>5. PlatformKeeps
  BY <1>0, <1>1, <1>4, BusyPlatform
<1>6. /\ job'[w].step = "cleaning"
      /\ job'[w].draft = [job[w].draft EXCEPT !.op = o, !.secret = e, !.endpoint = e]
      /\ job'[w].kind = job[w].kind /\ job'[w].plane = job[w].plane
      /\ job'[w].key = job[w].key /\ job'[w].before = job[w].before
      /\ \A v \in Worker \ {w} : job'[v] = job[v]
  BY <1>0, <1>1, <1>3 DEF TypeOK, Active, Record
<1>7. job'[w].draft.secret = e /\ job'[w].draft.endpoint = e
  BY <1>3, <1>6 DEF Record
<1>8. KnownEndpoint(e, PlaneOf(job[w].key))'
  <2>1. PlaneOf(job[w].key)' = PlaneOf(job[w].key)
    BY <1>1, <1>6 DEF PlaneOf, Created
  <2>2. endpoint'[e].status # "none" /\ endpoint'[e].plane = PlaneOf(job[w].key)
    BY <1>0, <1>1, <1>4 DEF TypeOK, AnswerInv, KnownEndpoint, Created, NextEndpoint
  <2> QED
    BY <2>1, <2>2 DEF KnownEndpoint
<1>9. WithoutEndpoint(job'[w].draft) = WithoutEndpoint(job[w].draft)
  <2> DEFINE new == [job[w].draft EXCEPT !.op = o, !.secret = e, !.endpoint = e]
  <2>1. WithoutEndpoint(new) \in Record /\ WithoutEndpoint(job[w].draft) \in Record
    BY <1>3 DEF WithoutEndpoint, Record
  <2>2. WithoutEndpoint(new) = WithoutEndpoint(job[w].draft)
    BY <1>3, <2>1, SameRecord DEF WithoutEndpoint, Record
  <2> QED
    BY <1>6, <2>2
<1>10. job[w].kind = "reconfigure" \/ job[w].key \in validated'
  BY <1>1, <1>2 DEF IInv, RequestInv, DraftOk
<1>11. WithoutEndpoint(job[w].draft)' = WithoutEndpoint(Intended(w))'
  BY <1>1, <1>2, <1>6, <1>9, SameAim
<1>12. Locked(w)'
  BY <1>6 DEF Locked
<1>13. KnownEndpoint(job[w].draft.endpoint, PlaneOf(job[w].key))'
  BY <1>7, <1>8 DEF KnownEndpoint
<1> QED
  BY <1>1, <1>2, <1>5, <1>6, <1>7, <1>10, <1>11, <1>12, <1>13, LockedMove

LEMMA CreateFailsKeeps ==
    ASSUME NEW w \in Worker, IInv, TypeOK', CreateFails(w)
    PROVE  IInv'
<1>0. TypeOK /\ AnswerInv
  BY DEF IInv
<1>1. PICK o \in Op :
          /\ Creates(w, o)
          /\ \/ UNCHANGED platform
             \/ /\ Works(job[w].key)
                /\ \/ Refused(o, PlaneOf(job[w].key))
                   \/ \E e \in Endpoint : Created(o, e, PlaneOf(job[w].key))
          /\ Fail(w, [job[w].draft EXCEPT !.op = o], "webhook")
          /\ UNCHANGED <<flow, validated>>
  BY DEF CreateFails
<1>2. Locked(w) /\ job[w].step \in {"creating", "recreating"}
  BY <1>1 DEF Creates, Locked
<1>3. job[w] \in Active /\ job[w].draft \in Record
  BY <1>2, LockedFacts
<1>4. PlatformKeeps
  <2>1. CASE UNCHANGED platform
    BY <1>0, <1>1, <2>1, IdlePlatform
  <2>2. CASE Works(job[w].key) /\ Refused(o, PlaneOf(job[w].key))
    BY <1>0, <1>1, <1>3, <2>2, WorkingKey, BusyPlatform DEF Active
  <2>3. CASE Works(job[w].key) /\ \E e \in Endpoint : Created(o, e, PlaneOf(job[w].key))
    BY <1>0, <1>1, <1>3, <2>3, WorkingKey, BusyPlatform DEF Active
  <2> QED
    BY <1>1, <2>1, <2>2, <2>3
<1> DEFINE new == [job[w].draft EXCEPT !.op = o]
<1>5. /\ new \in Record
      /\ new.secret = job[w].draft.secret /\ new.endpoint = job[w].draft.endpoint
  BY <1>3 DEF Record
<1>6. WithoutEndpoint(new) = WithoutEndpoint(job[w].draft)
  <2>1. WithoutEndpoint(new) \in Record /\ WithoutEndpoint(job[w].draft) \in Record
    BY <1>3 DEF WithoutEndpoint, Record
  <2> QED
    BY <1>3, <2>1, SameRecord DEF WithoutEndpoint, Record
<1> QED
  BY <1>1, <1>2, <1>4, <1>5, <1>6, FailKeeps

\* The steps of ensure_endpoint that leave the secret and the endpoint alone
\* before one is created, and those after.
LEMMA CleaningKeeps ==
    ASSUME NEW w \in Worker, IInv, TypeOK', CreateCapped(w) \/ FreeSlot(w) \/ Cleanup(w)
    PROVE  IInv'
<1>0. TypeOK /\ AnswerInv
  BY DEF IInv
<1>1. Locked(w) /\ job[w].step # "account" /\ UNCHANGED <<prov, lock, validated>>
  BY DEF CreateCapped, FreeSlot, Cleanup, Creates, Locked
<1>2. job[w] \in Active /\ job[w].draft \in Record
  BY <1>1, LockedFacts
<1>3. PlatformKeeps
  <2>1. CASE CreateCapped(w)
    <3>1. PICK o \in Op : Works(job[w].key) /\ Refused(o, PlaneOf(job[w].key))
      BY <2>1 DEF CreateCapped
    <3>2. PlaneOf(job[w].key) \in Plane
      BY <1>0, <1>2, <3>1, WorkingKey DEF Active
    <3>3. \E p \in Plane : Refused(o, p)
      BY <3>1, <3>2
    <3>4. UNCHANGED validated
      BY <1>1
    <3> QED
      BY <1>0, <3>3, <3>4, BusyPlatform
  <2>2. CASE FreeSlot(w) \/ Cleanup(w)
    <3>1. \E D : Delete(D)
      BY <2>2 DEF FreeSlot, Cleanup
    <3> QED
      BY <1>0, <1>1, <3>1, BusyPlatform
  <2> QED
    BY <2>1, <2>2
<1>4. /\ \/ job[w].step = "creating" /\ job'[w].step = "freeing"
         \/ job[w].step = "freeing" /\ job'[w].step = "recreating"
         \/ job[w].step = "cleaning" /\ job'[w].step = "finishing"
      /\ job'[w].kind = job[w].kind /\ job'[w].plane = job[w].plane
      /\ job'[w].key = job[w].key /\ job'[w].before = job[w].before
      /\ \A v \in Worker \ {w} : job'[v] = job[v]
  BY <1>0, <1>2 DEF CreateCapped, FreeSlot, Cleanup, TypeOK, Active
<1>5. \/ job'[w].draft = job[w].draft
      \/ \E o \in Op : job'[w].draft = [job[w].draft EXCEPT !.op = o]
  BY <1>0, <1>2 DEF CreateCapped, FreeSlot, Cleanup, TypeOK, Active
<1>6. /\ job'[w].draft.secret = job[w].draft.secret
      /\ job'[w].draft.endpoint = job[w].draft.endpoint
  BY <1>2, <1>5 DEF Record
<1>7. WithoutEndpoint(job'[w].draft) = WithoutEndpoint(job[w].draft)
  <2>1. ASSUME NEW o \in Op
        PROVE  WithoutEndpoint([job[w].draft EXCEPT !.op = o]) = WithoutEndpoint(job[w].draft)
    <3> DEFINE new == [job[w].draft EXCEPT !.op = o]
    <3>1. WithoutEndpoint(new) \in Record /\ WithoutEndpoint(job[w].draft) \in Record
      BY <1>2 DEF WithoutEndpoint, Record
    <3> QED
      BY <1>2, <3>1, SameRecord DEF WithoutEndpoint, Record
  <2> QED
    BY <1>5, <2>1 DEF WithoutEndpoint
<1>8. WithoutEndpoint(job[w].draft)' = WithoutEndpoint(Intended(w))'
  BY <1>1, <1>4, <1>7, SameAim
<1>9. Locked(w)' /\ job'[w].step # "account"
  BY <1>4 DEF Locked
<1>10. DraftOk(w)
  BY DEF IInv, RequestInv
<1>11. job[w].kind = "reconfigure" \/ job[w].key \in validated'
  BY <1>1, <1>10 DEF DraftOk
<1>12. CASE job[w].step = "cleaning"
  <2>1. KnownEndpoint(job[w].draft.endpoint, PlaneOf(job[w].key))
        /\ job[w].draft.secret = job[w].draft.endpoint
    BY <1>1, <1>10, <1>12 DEF DraftOk
  <2>2. PlaneOf(job[w].key)' = PlaneOf(job[w].key)
    BY <1>1, <1>3, <1>4, LockedFacts DEF PlatformKeeps, Grows, KnownKey, PlaneOf
  <2>3. KnownEndpoint(job[w].draft.endpoint, PlaneOf(job[w].key))'
    BY <1>3, <1>6, <2>1, <2>2 DEF PlatformKeeps, Grows, KnownEndpoint
  <2> QED
    BY <1>1, <1>3, <1>4, <1>6, <1>8, <1>9, <1>11, <1>12, <2>1, <2>3, LockedMove
<1>13. CASE job[w].step # "cleaning"
  <2>1. job[w].draft.secret = prov.secret /\ job[w].draft.endpoint = prov.endpoint
    BY <1>1, <1>4, <1>10, <1>13 DEF DraftOk
  <2> QED
    BY <1>1, <1>3, <1>4, <1>6, <1>8, <1>9, <1>11, <1>13, <2>1, LockedMove
<1> QED
  BY <1>12, <1>13

LEMMA FinishKeeps ==
    ASSUME NEW w \in Worker, IInv, TypeOK', Finish(w)
    PROVE  IInv'
<1>0. TypeOK /\ AnswerInv /\ RecordOk(prov) /\ prov \in Record
  BY ProvOk DEF IInv, TypeOK
<1>1. /\ Locked(w) /\ job[w].step = "finishing"
      /\ UNCHANGED <<platform, validated>>
  BY DEF Finish, Locked
<1>2. PlatformKeeps
  BY <1>0, <1>1, IdlePlatform
<1>3. /\ job[w] \in Active /\ job[w].draft \in Record
      /\ KnownKey(job[w].key)
      /\ WithoutEndpoint(job[w].draft) = WithoutEndpoint(Intended(w))
      /\ job[w].kind = "callback" => job[w].plane = PlaneOf(job[w].key)
      /\ job[w].kind # "callback" => job[w].key = prov.key
  BY <1>1, LockedFacts
<1>4. /\ job[w].draft.secret = job[w].draft.endpoint
      /\ KnownEndpoint(job[w].draft.endpoint, PlaneOf(job[w].key))
      /\ job[w].kind = "reconfigure" \/ job[w].key \in validated
  BY <1>1 DEF IInv, RequestInv, DraftOk
<1>5. /\ job[w].draft.key = job[w].key
      /\ job[w].draft.state = IF job[w].kind # "callback" THEN prov.state
                              ELSE IF job[w].plane = "live" THEN "enabled" ELSE "test"
      /\ job[w].draft.step = prov.step
  <2> DEFINE with == WithKey(prov, job[w].key, job[w].plane)
  <2>1. with \in Record
    BY <1>0, <1>3, RecordOps DEF Active
  <2>2. /\ with.key = job[w].key /\ with.step = prov.step
        /\ with.state = IF job[w].plane = "live" THEN "enabled" ELSE "test"
    BY <1>0 DEF WithKey, Record
  <2>3. Intended(w) = IF job[w].kind = "callback" THEN with ELSE prov
    BY <1>1 DEF Intended
  <2>4. CASE job[w].kind = "callback"
    BY <1>3, <2>1, <2>2, <2>3, <2>4, FieldsAgree
  <2>5. CASE job[w].kind # "callback"
    BY <1>0, <1>3, <2>3, <2>5, FieldsAgree
  <2> QED
    BY <2>4, <2>5
<1>6. job[w].kind = "callback" => job[w].plane \in {"live", "test"}
  BY <1>0, <1>3, ConnectAssumption DEF TypeOK, PlaneOf, KnownKey, Plane
<1>7. job[w].key # None /\ job[w].draft.endpoint # None
  BY <1>3, <1>4, ConnectAssumption DEF KnownKey, KnownEndpoint
<1>8. StateFits(job[w].draft)
  BY <1>0, <1>3, <1>5, <1>6, <1>7 DEF StateFits, RecordOk, PlaneOf
<1>9. CASE job[w].kind = "reconfigure"
  <2>1. Commit(w, job[w].draft)
    BY <1>9 DEF Finish
  <2>2. RecordOk(job[w].draft)
    BY <1>0, <1>3, <1>4, <1>5, <1>7, <1>8, <1>9 DEF RecordOk, KnownKey, KnownEndpoint, PlaneOf
  <2> QED
    BY <1>2, <1>3, <2>1, <2>2, CommitKeeps
<1>10. CASE job[w].kind # "reconfigure"
  <2> DEFINE new == [job[w].draft EXCEPT !.published = (job[w].plane = "live"),
                                         !.step = None, !.error = FALSE]
  <2>1. Commit(w, new)
    BY <1>10 DEF Finish
  <2>2. new \in Record
    <3>1. (job[w].plane = "live") \in BOOLEAN
      OBVIOUS
    <3> QED
      BY <1>3, <3>1 DEF Record
  <2>3. /\ new.key = job[w].draft.key /\ new.state = job[w].draft.state
        /\ new.secret = job[w].draft.secret /\ new.endpoint = job[w].draft.endpoint
    BY <1>3 DEF Record
  <2> HIDE DEF new
  <2>4. RecordOk(new)
    BY <1>3, <1>4, <1>5, <1>7, <1>8, <1>10, <2>3
    DEF RecordOk, StateFits, KnownKey, KnownEndpoint, PlaneOf
  <2> QED
    BY <1>2, <2>1, <2>2, <2>4, CommitKeeps
<1> QED
  BY <1>9, <1>10

LEMMA ButtonKeeps ==
    ASSUME NEW w \in Worker, IInv, TypeOK',
           \/ CompleteSetup(w) \/ ReconfigureWebhook(w) \/ DisconnectStart(w)
           \/ LockRefused(w) \/ DisconnectClear(w) \/ Crash(w)
    PROVE  IInv'
<1>0. TypeOK /\ AnswerInv
  BY DEF IInv
<1>1. PlatformKeeps
  <2>1. CASE UNCHANGED <<platform, validated>>
    BY <1>0, <2>1, IdlePlatform
  <2>2. CASE DisconnectStart(w)
    BY <1>0, <2>2, BusyPlatform DEF DisconnectStart
  <2> QED
    BY <2>1, <2>2
    DEF CompleteSetup, ReconfigureWebhook, LockRefused, DisconnectClear, Crash
<1>2. ASSUME NEW step \in {"locking", "clearing", "failing"},
             job'[w].step = step, job'[w].kind = "callback" => step = "failing",
             \A v \in Worker \ {w} : job'[v] = job[v],
             ~Locked(w), UNCHANGED <<prov, lock>>
      PROVE  IInv'
  <2>1. LockInv'
    BY <1>2, SameLock DEF Locked
  <2>2. ConsentOk(w)' /\ DraftOk(w)'
    BY <1>2 DEF ConsentOk, DraftOk, Locked
  <2> QED
    BY <1>1, <1>2, <2>1, <2>2, MoveKeeps
<1>3. CASE CompleteSetup(w) \/ ReconfigureWebhook(w) \/ DisconnectStart(w)
  <2>1. /\ job'[w].step \in {"locking", "clearing"} /\ job'[w].kind # "callback"
        /\ \A v \in Worker \ {w} : job'[v] = job[v]
        /\ UNCHANGED <<prov, lock>>
    BY <1>0, <1>3 DEF CompleteSetup, ReconfigureWebhook, DisconnectStart, Request, TypeOK
  <2>2. ~Locked(w)
    BY <1>3 DEF CompleteSetup, ReconfigureWebhook, DisconnectStart, Locked, Idle
  <2> QED
    BY <1>2, <2>1, <2>2
<1>4. CASE LockRefused(w)
  <2>1. CASE job' = [job EXCEPT ![w].step = "failing"] /\ UNCHANGED <<prov, lock, client>>
    <3>1. job[w] \in Active /\ ~Locked(w)
      BY <1>0, <1>4, ActiveJob DEF LockRefused, Locked
    <3>2. job'[w].step = "failing" /\ \A v \in Worker \ {w} : job'[v] = job[v]
      BY <1>0, <2>1, <3>1 DEF TypeOK, Active
    <3> QED
      BY <1>2, <2>1, <3>1, <3>2
  <2>2. CASE Rollback(w)
    BY <1>1, <2>2, RollbackKeeps
  <2> QED
    BY <1>4, <2>1, <2>2 DEF LockRefused
<1>5. CASE DisconnectClear(w)
  <2>1. Blank \in Record /\ RecordOk(Blank)
    BY DEF Blank, Record, RecordOk, StateFits
  <2> QED
    BY <1>1, <1>5, <2>1, CommitKeeps DEF DisconnectClear
<1>6. CASE Crash(w)
  BY <1>1, <1>6, RollbackKeeps DEF Crash
<1> QED
  BY <1>3, <1>4, <1>5, <1>6

LEMMA FormKeeps ==
    ASSUME NEW state \in {"disabled", "test", "enabled"}, NEW published \in BOOLEAN,
           IInv, SaveForm(state, published)
    PROVE  IInv'
<1> DEFINE new == [prov EXCEPT !.state = state, !.published = published]
<1>0. TypeOK /\ AnswerInv /\ RecordOk(prov) /\ prov \in Record
  BY ProvOk DEF IInv, TypeOK
<1>t. TypeOK'
  BY <1>0, FormType
<1>1. /\ lock = None /\ prov' = new /\ StateFits(prov')
      /\ UNCHANGED <<lock, job, platform, validated>>
  BY DEF SaveForm
<1>2. PlatformKeeps
  BY <1>0, <1>1, IdlePlatform
<1>3. /\ new \in Record
      /\ new.key = prov.key /\ new.secret = prov.secret /\ new.endpoint = prov.endpoint
      /\ new.step = prov.step
  BY <1>0 DEF Record
<1>4. StateFits(new)
  BY <1>1, <1>2, <1>3 DEF StateFits, PlaneOf, platform
<1> HIDE DEF new
<1>5. RecordOk(new)
  BY <1>0, <1>3, <1>4 DEF RecordOk, StateFits, KnownKey, PlaneOf
<1>6. CASE Worker = {}
  <2>1. LockInv' /\ RequestInv'
    BY <1>6 DEF LockInv, RequestInv
  <2>2. RecordOk(prov)'
    BY <1>1, <1>5 DEF RecordOk, StateFits, KnownKey, PlaneOf, platform
  <2> QED
    BY <1>2, <1>t, <2>1, <2>2, ProvOk DEF PlatformKeeps
<1>7. CASE \E w \in Worker : TRUE
  BY <1>1, <1>2, <1>3, <1>5, <1>7, <1>t, WriteKeeps
<1> QED
  BY <1>6, <1>7

LEMMA ProvisioningKeeps ==
    ASSUME NEW w \in Worker, IInv, Provisioning(w)
    PROVE  IInv'
  BY ProvisioningType, LockKeeps, ButtonKeeps, AccountKeeps, CreateAnsweredKeeps,
     CreateFailsKeeps, CleaningKeeps, FinishKeeps
  DEF Provisioning

\* When nothing happens, nothing changes.
LEMMA StutterKeeps ==
    ASSUME IInv, UNCHANGED vars
    PROVE  IInv'
<1>1. TypeOK'
  BY DEF vars, IInv, TypeOK
<1>2. LockInv'
  BY DEF vars, IInv, LockInv, Locked
<1>3. PlatformKeeps
  BY IdlePlatform DEF vars, platform, IInv
<1>4. RequestInv'
  BY <1>3, Steady DEF vars, RequestInv, PlatformKeeps
<1>5. RecordOk(prov)'
  BY ProvOk DEF vars, RecordOk, StateFits, KnownKey, PlaneOf
<1> QED
  BY <1>1, <1>2, <1>3, <1>4, <1>5, ProvOk DEF PlatformKeeps

LEMMA InitOk == Init => IInv
<1> SUFFICES ASSUME Init PROVE IInv
  OBVIOUS
<1>1. Blank \in Record /\ RecordOk(Blank)
  BY DEF Blank, Record, RecordOk, StateFits
<1>2. TypeOK
  BY <1>1, ConnectAssumption DEF Init, TypeOK, Job, Plane
<1>3. LockInv /\ RequestInv
  BY ConnectAssumption DEF Init, LockInv, Locked, RequestInv, ConsentOk, DraftOk, Idle
<1>4. AnswerInv
  BY ConnectAssumption DEF Init, AnswerInv
<1>5. ProvInv /\ StateFitsKey /\ SecretOfEndpoint /\ GateMeansSetUp
  BY DEF Init, Blank, ProvInv, StateFitsKey, StateFits, SecretOfEndpoint, GateMeansSetUp
<1> QED
  BY <1>2, <1>3, <1>4, <1>5 DEF IInv

LEMMA NextKeeps == IInv /\ [Next]_vars => IInv'
<1> SUFFICES ASSUME IInv, [Next]_vars PROVE IInv'
  OBVIOUS
<1>1. ASSUME NEW w \in Worker, Connecting(w) \/ Provisioning(w)
      PROVE  IInv'
  BY <1>1, HandshakeKeeps, ProvisioningKeeps
<1>2. ASSUME NEW w \in Worker,
             \/ CompleteSetup(w) \/ ReconfigureWebhook(w)
             \/ DisconnectStart(w) \/ DisconnectClear(w)
             \/ Crash(w)
      PROVE  IInv'
  BY <1>2, ButtonType, ButtonKeeps
<1>3. ASSUME NEW state \in {"disabled", "test", "enabled"}, NEW published \in BOOLEAN,
             SaveForm(state, published)
      PROVE  IInv'
  BY <1>3, FormKeeps
<1>4. CASE UNCHANGED vars
  BY <1>4, StutterKeeps
<1> QED
  BY <1>1, <1>2, <1>3, <1>4 DEF Next

-----------------------------------------------------------------------------
(* The theorems.                                                            *)

\* Every reachable state satisfies the inductive invariant.
THEOREM ConnectInvariance == Spec => []IInv
  BY InitOk, NextKeeps, PTL DEF Spec

\* Every variable keeps its type: a record in particular has a known state and
\* one of the three steps complete_setup can start again from.
THEOREM ConnectTypeCorrect == Spec => []TypeOK
<1>1. IInv => TypeOK
  BY DEF IInv
<1> QED
  BY <1>1, ConnectInvariance, PTL

\* Whatever fails, is refused or dies, the committed state agrees with the
\* plane of the committed key, as _check_xpay_state_matches_connection demands.
THEOREM StateFits_Always == Spec => []StateFitsKey
<1>1. IInv => StateFitsKey
  BY DEF IInv
<1> QED
  BY <1>1, ConnectInvariance, PTL

\* The webhook secret on record is the one of the endpoint on record: an event
\* of that endpoint can be verified.
THEOREM SecretOfEndpoint_Always == Spec => []SecretOfEndpoint
<1>1. IInv => SecretOfEndpoint
  BY DEF IInv
<1> QED
  BY <1>1, ConnectInvariance, PTL

\* _xpay_require_setup_complete lets money move only with a key found good and
\* an endpoint of its plane.
THEOREM GateMeansSetUp_Always == Spec => []GateMeansSetUp
<1>1. IInv => GateMeansSetUp
  BY DEF IInv
<1> QED
  BY <1>1, ConnectInvariance, PTL

\* The connection of a record is all but its flags.
LEMMA SameFields ==
    ASSUME NEW a \in Record, NEW b \in Record,
           a.key = b.key, a.state = b.state, a.published = b.published,
           a.secret = b.secret, a.endpoint = b.endpoint, a.step = b.step
    PROVE  SameConnection(a, b)
<1> DEFINE x == [a EXCEPT !.op = None, !.error = FALSE]
           y == [b EXCEPT !.op = None, !.error = FALSE]
<1>1. x \in Record /\ y \in Record
  BY DEF Record
<1>2. /\ x.key = y.key /\ x.state = y.state /\ x.published = y.published
      /\ x.secret = y.secret /\ x.endpoint = y.endpoint /\ x.op = y.op
      /\ x.step = y.step /\ x.error = y.error
  BY DEF Record
<1> QED
  BY <1>1, <1>2, SameRecord DEF SameConnection

\* Flagging an error leaves the connection as it was.
LEMMA OnlyError ==
    ASSUME NEW rec \in Record
    PROVE  SameConnection(rec, [rec EXCEPT !.error = TRUE])
<1> DEFINE new == [rec EXCEPT !.error = TRUE]
<1>1. new \in Record
  BY DEF Record
<1>2. /\ rec.key = new.key /\ rec.state = new.state /\ rec.published = new.published
      /\ rec.secret = new.secret /\ rec.endpoint = new.endpoint /\ rec.step = new.step
  BY DEF Record
<1> HIDE DEF new
<1> QED
  BY <1>1, <1>2, SameFields DEF new

\* What a draft has of the committed record, whatever it aims at.
LEMMA DraftFields ==
    ASSUME NEW w \in Worker, IInv, Locked(w)
    PROVE  /\ job[w].draft.published = prov.published
           /\ job[w].draft.step = prov.step /\ job[w].draft.error = prov.error
<1> DEFINE with == WithKey(prov, job[w].key, job[w].plane)
<1>1. /\ job[w] \in Active /\ job[w].draft \in Record /\ prov \in Record
      /\ WithoutEndpoint(job[w].draft) = WithoutEndpoint(Intended(w))
  BY LockedFacts DEF IInv, TypeOK
<1>2. with \in Record
  BY <1>1, RecordOps DEF Active
<1>3. with.published = prov.published /\ with.step = prov.step /\ with.error = prov.error
  BY <1>1 DEF WithKey, Record
<1>4. Intended(w) = prov \/ Intended(w) = with
  BY DEF Intended
<1> QED
  BY <1>1, <1>2, <1>3, <1>4, FieldsAgree

\* A provisioning that fails with an error on record has left the connection as
\* the request found it.
LEMMA FailLeaves ==
    ASSUME NEW w \in Worker, NEW rec \in Record, NEW step, IInv, IInv', Locked(w),
           job[w].step \in {"account", "creating", "recreating"},
           Fail(w, rec, step), ~prov.error, prov'.error,
           rec.published = job[w].draft.published, rec.step = job[w].draft.step,
           rec.error = job[w].draft.error,
           rec.secret = job[w].draft.secret, rec.endpoint = job[w].draft.endpoint
    PROVE  SameConnection(prov, prov')
<1>1. CASE job[w].kind # "callback"
  BY <1>1 DEF Fail, Rollback
<1>2. CASE job[w].kind = "callback"
  <2>1. prov' = Failed(w, rec, step)
    BY <1>2 DEF Fail, Commit
  <2>2. /\ job[w].before = prov
        /\ job[w].draft.secret = prov.secret /\ job[w].draft.endpoint = prov.endpoint
    BY DEF IInv, RequestInv, DraftOk
  <2>3. CASE SamePlane(w)
    BY <2>1, <2>3, DraftFields DEF Failed, Record
  <2>4. CASE ~SamePlane(w)
    <3>1. /\ prov'.key = prov.key /\ prov'.state = prov.state
          /\ prov'.published = prov.published /\ prov'.step = prov.step
          /\ prov'.secret = prov.secret /\ prov'.endpoint = prov.endpoint
      BY <2>1, <2>2, <2>4, DraftFields DEF Failed, Record
    <3>2. prov \in Record /\ prov' \in Record
      BY DEF IInv, TypeOK
    <3> QED
      BY <3>1, <3>2, SameFields
  <2> QED
    BY <2>3, <2>4
<1> QED
  BY <1>1, <1>2

\* Whatever step puts an error on record leaves the connection.
LEMMA FailureStep ==
    ASSUME IInv, IInv', Next, ~prov.error, prov'.error
    PROVE  SameConnection(prov, prov')
<1>0. prov \in Record /\ prov' \in Record
  BY DEF IInv, TypeOK
<1>1. CASE prov' = prov
  BY <1>1 DEF SameConnection
<1>2. CASE prov' = [prov EXCEPT !.error = TRUE]
  BY <1>0, <1>2, OnlyError
<1>3. ASSUME NEW w \in Worker, AccountUnread(w) \/ AccountRefused(w)
      PROVE  SameConnection(prov, prov')
  <2>1. Locked(w) /\ job[w].step = "account"
    BY <1>3 DEF AccountUnread, AccountRefused, Locked
  <2>2. PICK step \in {"account", "permissions"} : Fail(w, job[w].draft, step)
    BY <1>3 DEF AccountUnread, AccountRefused
  <2> QED
    BY <2>1, <2>2, LockedFacts, FailLeaves
<1>4. ASSUME NEW w \in Worker, CreateFails(w)
      PROVE  SameConnection(prov, prov')
  <2>1. PICK o \in Op : Creates(w, o) /\ Fail(w, [job[w].draft EXCEPT !.op = o], "webhook")
    BY <1>4 DEF CreateFails
  <2>2. Locked(w) /\ job[w].step \in {"creating", "recreating"}
    BY <2>1 DEF Creates, Locked
  <2>3. job[w].draft \in Record
    BY <2>2, LockedFacts
  <2> DEFINE new == [job[w].draft EXCEPT !.op = o]
  <2>4. /\ new \in Record
        /\ new.published = job[w].draft.published /\ new.step = job[w].draft.step
        /\ new.error = job[w].draft.error
        /\ new.secret = job[w].draft.secret /\ new.endpoint = job[w].draft.endpoint
    BY <2>3 DEF Record
  <2> QED
    BY <2>1, <2>2, <2>4, FailLeaves
<1>5. ASSUME NEW w \in Worker, Finish(w)
      PROVE  FALSE
  <2>1. Locked(w)
    BY <1>5 DEF Finish, Locked
  <2>2. job[w].draft \in Record /\ job[w].draft.error = prov.error
    BY <2>1, LockedFacts, DraftFields
  <2> QED
    BY <1>5, <2>2 DEF Finish, Commit, Record
<1>6. ASSUME NEW w \in Worker, DisconnectClear(w)
      PROVE  FALSE
  BY <1>6 DEF DisconnectClear, Commit, Blank
<1>7. ASSUME NEW state \in {"disabled", "test", "enabled"}, NEW published \in BOOLEAN,
             SaveForm(state, published)
      PROVE  FALSE
  BY <1>0, <1>7 DEF SaveForm, Record
<1>8. ASSUME NEW w \in Worker,
             \/ \E plane \in Plane : Start(w, plane)
             \/ Callback(w) \/ CallbackRefused(w)
             \/ Exchange(w) \/ ExchangeFails(w) \/ RecordError(w)
             \/ LockProvider(w) \/ LockRefused(w) \/ AccountAccepted(w)
             \/ CreateAnswered(w) \/ CreateCapped(w) \/ FreeSlot(w) \/ Cleanup(w)
             \/ CompleteSetup(w) \/ ReconfigureWebhook(w) \/ DisconnectStart(w) \/ Crash(w)
      PROVE  prov' = prov \/ prov' = [prov EXCEPT !.error = TRUE]
  BY <1>8
  DEF Start, Callback, CallbackRefused, Exchange, ExchangeFails, RecordError, LockProvider,
      LockRefused, AccountAccepted, CreateAnswered, CreateCapped, FreeSlot, Cleanup,
      CompleteSetup, ReconfigureWebhook, DisconnectStart, Crash, Commit, Rollback
<1> QED
  BY <1>1, <1>2, <1>3, <1>4, <1>5, <1>6, <1>7, <1>8 DEF Next, Connecting, Provisioning

\* A consent that is reported as failed leaves the connection it was to replace
\* exactly as it was: key, state, endpoint, secret and flags.
THEOREM FailureKeepsConnection_Always == Spec => FailureKeepsConnection
<1>1. IInv /\ IInv' /\ [Next]_vars =>
          [prov'.error /\ ~prov.error => SameConnection(prov, prov')]_vars
  BY FailureStep DEF vars
<1> QED
  BY <1>1, ConnectInvariance, PTL DEF Spec, FailureKeepsConnection

-----------------------------------------------------------------------------
(* The endpoint on record is delivered to, where no request dies and the    *)
(* platform's cap is not reached: whatever the platform answers twice and   *)
(* whichever requests overlap.                                              *)

Alive(e) == e \in Endpoint /\ endpoint[e].status = "alive"

Clearing == \E w \in Worker : job[w].step = "clearing"
Finishing == \E w \in Worker : job[w].step = "finishing"

\* An endpoint on record is only deleted by a request that then replaces it.
RecordedAlive == prov.endpoint # None => Alive(prov.endpoint) \/ Clearing \/ Finishing

\* An operation that can be sent again is answered with a live endpoint.
ReplayAlive ==
    prov.endpoint = None /\ prov.op # None =>
        \A p \in Plane :
            answer[prov.op][p] \in Endpoint => Alive(answer[prov.op][p]) \/ Finishing

\* A request sends the operation on record or a new one, and what it is
\* answered is not the endpoint it replaces.
EndpointJob(w) ==
    /\ job[w].step \notin {"freeing", "recreating"}
    /\ job[w].step \in {"account", "creating"} => job[w].draft.op = prov.op
    /\ job[w].step \in {"cleaning", "finishing"} =>
          /\ Alive(job[w].draft.endpoint)
          /\ job[w].draft.endpoint # prov.endpoint

EndpointInv == RecordedAlive /\ ReplayAlive /\ \A w \in Worker : EndpointJob(w)

\* One request holds the record.
LEMMA OneHolder ==
    ASSUME NEW w \in Worker, IInv, Locked(w)
    PROVE  lock = w /\ \A v \in Worker \ {w} : ~Locked(v)
  BY DEF IInv, LockInv

\* A step that leaves the endpoint on record, its operation and the answers,
\* and deletes nothing.
LEMMA EndpointStays ==
    ASSUME NEW w \in Worker, IInv, EndpointInv,
           \A v \in Worker \ {w} : job'[v] = job[v],
           prov'.endpoint = prov.endpoint, prov'.op = prov.op, answer' = answer,
           \A e \in Endpoint : Alive(e) => Alive(e)',
           job[w].step \notin {"clearing", "finishing"},
           EndpointJob(w)'
    PROVE  EndpointInv'
<1>1. (Clearing => Clearing') /\ (Finishing => Finishing')
  BY DEF Clearing, Finishing
<1>2. RecordedAlive'
  BY <1>1 DEF EndpointInv, RecordedAlive, Alive
<1>3. ReplayAlive'
  BY <1>1 DEF EndpointInv, ReplayAlive, Alive
<1>4. ASSUME NEW v \in Worker \ {w}
      PROVE  EndpointJob(v)'
  BY <1>4 DEF EndpointInv, EndpointJob, Alive
<1> QED
  BY <1>2, <1>3, <1>4 DEF EndpointInv

\* What the end of a request that failed leaves of the endpoint on record.
LEMMA FailedEndpoint ==
    ASSUME NEW w \in Worker, NEW rec \in Record, NEW step, TypeOK, Fail(w, rec, step)
    PROVE  /\ job'[w] = Idle
           /\ \A v \in Worker \ {w} : job'[v] = job[v]
           /\ \/ prov'.endpoint = rec.endpoint /\ prov'.op = rec.op
              \/ prov' = prov
<1>1. CASE job[w].kind = "callback"
  <2>1. prov' = Failed(w, rec, step) /\ job' = [job EXCEPT ![w] = Idle]
    BY <1>1 DEF Fail, Commit
  <2>2. Failed(w, rec, step).endpoint = rec.endpoint /\ Failed(w, rec, step).op = rec.op
    BY DEF Failed, Record
  <2> QED
    BY <2>1, <2>2 DEF TypeOK
<1>2. CASE job[w].kind # "callback"
  BY <1>2 DEF Fail, Rollback, TypeOK
<1> QED
  BY <1>1, <1>2

\* The handshake and the taking of the row touch no endpoint.
LEMMA EndpointHandshake ==
    ASSUME NEW w \in Worker, IInv, EndpointInv,
           \/ Connecting(w)
           \/ CompleteSetup(w) \/ ReconfigureWebhook(w) \/ LockRefused(w) \/ LockProvider(w)
    PROVE  EndpointInv'
<1>0. TypeOK /\ prov \in Record
  BY DEF IInv, TypeOK
<1>1. /\ UNCHANGED <<endpoint, answer>>
      /\ \A v \in Worker \ {w} : job'[v] = job[v]
  BY <1>0
  DEF Connecting, Start, Callback, CallbackRefused, Exchange, ExchangeFails, RecordError, IssueKey,
      CompleteSetup, ReconfigureWebhook, LockRefused, LockProvider, Commit, Rollback, platform,
      TypeOK
<1>2. job[w].step \in {"idle", "exchanging", "failing", "locking"}
  <2>1. job[w] = Idle => job[w].step = "idle"
    BY DEF Idle
  <2> QED
    BY <2>1
    DEF Connecting, Start, Callback, CallbackRefused, Exchange, ExchangeFails, RecordError,
        CompleteSetup, ReconfigureWebhook, LockRefused, LockProvider
<1>3. \A e \in Endpoint : Alive(e) => Alive(e)'
  BY <1>1 DEF Alive
<1>4. prov'.endpoint = prov.endpoint /\ prov'.op = prov.op
  <2>1. prov' = prov \/ prov' = [prov EXCEPT !.error = TRUE]
    BY DEF Connecting, Start, Callback, CallbackRefused, Exchange, ExchangeFails, RecordError,
        CompleteSetup, ReconfigureWebhook, LockRefused, LockProvider, Commit, Rollback
  <2> QED
    BY <1>0, <2>1 DEF Record
<1>5. CASE LockProvider(w)
  <2>1. job[w] \in Active /\ job'[w].step \in {"account", "creating"}
    BY <1>0, <1>5, ActiveJob DEF LockProvider, TypeOK, Active
  <2>2. job'[w].draft.op = prov.op
    BY <1>0, <1>5, <2>1 DEF LockProvider, TypeOK, Active, WithKey, Record
  <2> QED
    BY <1>1, <1>2, <1>3, <1>4, <2>1, <2>2, EndpointStays DEF EndpointJob
<1>6. CASE ~LockProvider(w)
  <2>1. job'[w].step \in {"idle", "exchanging", "failing", "locking"}
    <3>1. CASE job[w] = Idle
      BY <1>0, <1>6, <3>1
      DEF Connecting, Start, Callback, CallbackRefused, Exchange, ExchangeFails, RecordError,
          CompleteSetup, ReconfigureWebhook, LockRefused, Request, Idle, TypeOK
    <3>2. CASE job[w] # Idle
      <4>1. job[w] \in Active
        BY <1>0, <3>2 DEF TypeOK, Job
      <4>2. CASE job'[w] = Idle
        BY <4>2 DEF Idle
      <4>3. CASE Exchange(w) \/ ExchangeFails(w)
        <5>1. CASE ExchangeFails(w)
          BY <1>0, <4>1, <5>1 DEF ExchangeFails, TypeOK, Active
        <5>2. CASE Exchange(w)
          <6>1. PICK k \in Key :
                    job' = [job EXCEPT ![w].step = "locking", ![w].key = k,
                                       ![w].marks = (client.id = job[w].client)]
            BY <5>2 DEF Exchange
          <6> QED
            BY <1>0, <4>1, <6>1 DEF TypeOK, Active
        <5> QED
          BY <4>3, <5>1, <5>2
      <4>4. CASE RecordError(w) \/ LockRefused(w)
        <5>1. job'[w] = Idle \/ job' = [job EXCEPT ![w].step = "failing"]
          <6>1. job \in [Worker -> Job]
            BY <1>0 DEF TypeOK
          <6>2. RecordError(w) => job' = [job EXCEPT ![w] = Idle]
            BY DEF RecordError, Commit
          <6>3. LockRefused(w) => \/ job' = [job EXCEPT ![w] = Idle]
                                  \/ job' = [job EXCEPT ![w].step = "failing"]
            BY DEF LockRefused, Rollback
          <6> QED
            BY <4>4, <6>1, <6>2, <6>3
        <5> QED
          BY <1>0, <4>1, <4>2, <5>1 DEF TypeOK, Active
      <4> QED
        BY <1>6, <3>2, <4>3, <4>4
        DEF Connecting, Start, Callback, CallbackRefused, CompleteSetup, ReconfigureWebhook
    <3> QED
      BY <3>1, <3>2
  <2>2. EndpointJob(w)'
    BY <2>1 DEF EndpointJob
  <2> QED
    BY <1>1, <1>2, <1>3, <1>4, <2>2, EndpointStays
<1> QED
  BY <1>5, <1>6

\* Reading the account leaves the endpoint on record and its operation.
LEMMA EndpointAccount ==
    ASSUME NEW w \in Worker, IInv, EndpointInv,
           AccountUnread(w) \/ AccountRefused(w) \/ AccountAccepted(w)
    PROVE  EndpointInv'
<1>0. TypeOK /\ job[w].step = "account" /\ UNCHANGED <<endpoint, answer>>
  BY DEF IInv, AccountUnread, AccountRefused, AccountAccepted, platform
<1>1. /\ job[w] \in Active /\ job[w].draft \in Record
      /\ job[w].draft.op = prov.op /\ job[w].draft.endpoint = prov.endpoint
  <2>1. Locked(w)
    BY <1>0 DEF Locked
  <2> QED
    BY <1>0, <2>1, LockedFacts, ActiveJob
    DEF EndpointInv, EndpointJob, IInv, RequestInv, DraftOk, Active
<1>2. \A e \in Endpoint : Alive(e) => Alive(e)'
  BY <1>0 DEF Alive
<1>3. ASSUME NEW step, Fail(w, job[w].draft, step)
      PROVE  EndpointInv'
  <2>1. /\ job'[w] = Idle
        /\ \A v \in Worker \ {w} : job'[v] = job[v]
        /\ prov'.endpoint = prov.endpoint /\ prov'.op = prov.op
    BY <1>0, <1>1, <1>3, FailedEndpoint
  <2>2. EndpointJob(w)'
    BY <2>1 DEF EndpointJob, Idle
  <2> QED
    BY <1>0, <1>2, <2>1, <2>2, EndpointStays
<1>4. CASE AccountAccepted(w)
  <2>1. job'[w].step = "creating" /\ prov' = prov /\ \A v \in Worker \ {w} : job'[v] = job[v]
    BY <1>0, <1>1, <1>4 DEF AccountAccepted, TypeOK, Active
  <2>2. job'[w].draft.op = prov.op
    BY <1>0, <1>1, <1>4 DEF AccountAccepted, TypeOK, Active, WithKey, Record
  <2>3. EndpointJob(w)'
    BY <2>1, <2>2 DEF EndpointJob
  <2> QED
    BY <1>0, <1>2, <2>1, <2>3, EndpointStays
<1> QED
  BY <1>3, <1>4 DEF AccountUnread, AccountRefused

\* What a create is answered: a live endpoint, and not the one on record.
LEMMA CreateAnswers ==
    ASSUME NEW w \in Worker, NEW o \in Op, NEW e \in Endpoint, IInv, EndpointInv,
           Creates(w, o), Works(job[w].key), Created(o, e, PlaneOf(job[w].key))
    PROVE  Alive(e)' /\ e # prov.endpoint
<1>0. TypeOK /\ job[w].step = "creating"
  BY DEF IInv, EndpointInv, EndpointJob, Creates
<1>1. Locked(w)
  BY <1>0 DEF Locked
<1>2. /\ job[w] \in Active /\ PlaneOf(job[w].key) \in Plane
      /\ job[w].draft.op = prov.op /\ job[w].draft.endpoint = prov.endpoint
  BY <1>0, <1>1, LockedFacts, WorkingKey
  DEF Active, EndpointInv, EndpointJob, IInv, RequestInv, DraftOk
<1>3. CASE answer[o][PlaneOf(job[w].key)] = None
  BY <1>0, <1>2, <1>3, ConnectAssumption
  DEF Created, NextEndpoint, Alive, TypeOK, IInv, ProvInv
<1>4. CASE answer[o][PlaneOf(job[w].key)] # None
  <2>1. answer[o][PlaneOf(job[w].key)] = e /\ UNCHANGED endpoint
    BY <1>4 DEF Created
  <2>2. ~Unused(o)
    BY <1>2, <1>4 DEF Unused
  <2>3. o = prov.op /\ prov.op # None /\ prov.endpoint = None
    BY <1>2, <2>2, <1>0 DEF Creates, OpFor
  <2>4. ~Finishing
    BY <1>0, <1>1, OneHolder DEF Finishing, Locked
  <2>5. Alive(e)
    BY <1>2, <2>1, <2>3, <2>4 DEF EndpointInv, ReplayAlive
  <2> QED
    BY <2>1, <2>3, <2>5, ConnectAssumption DEF Alive
<1> QED
  BY <1>3, <1>4

\* A create deletes nothing.
LEMMA CreateSpares ==
    ASSUME NEW o \in Op, NEW e \in Endpoint, NEW p \in Plane, TypeOK, Created(o, e, p)
    PROVE  \A f \in Endpoint : Alive(f) => Alive(f)'
  BY DEF TypeOK, Created, NextEndpoint, Alive

\* What a create is answered is live and not the endpoint it replaces: the
\* operation on record was never answered with that one, and a new one makes its own.
LEMMA EndpointCreateAnswered ==
    ASSUME NEW w \in Worker, IInv, EndpointInv, CreateAnswered(w)
    PROVE  EndpointInv'
<1>0. TypeOK
  BY DEF IInv
<1>1. PICK o \in Op, e \in Endpoint :
          /\ Creates(w, o)
          /\ Works(job[w].key)
          /\ Created(o, e, PlaneOf(job[w].key))
          /\ job' = [job EXCEPT ![w].step = "cleaning", ![w].draft.op = o,
                                ![w].draft.secret = e, ![w].draft.endpoint = e]
          /\ UNCHANGED <<prov, lock, client, flow, validated>>
  BY DEF CreateAnswered
<1>2. Locked(w) /\ job[w].step = "creating"
  BY <1>1 DEF Creates, Locked, EndpointInv, EndpointJob
<1>3. /\ job[w] \in Active /\ PlaneOf(job[w].key) \in Plane
      /\ job[w].draft.op = prov.op /\ job[w].draft.endpoint = prov.endpoint
  BY <1>0, <1>1, <1>2, LockedFacts, WorkingKey
  DEF Active, EndpointInv, EndpointJob, IInv, RequestInv, DraftOk
<1>4. Alive(e)' /\ e # prov.endpoint /\ \A f \in Endpoint : Alive(f) => Alive(f)'
  BY <1>0, <1>1, <1>3, CreateAnswers, CreateSpares
<1>5. /\ job'[w].step = "cleaning" /\ job'[w].draft.endpoint = e
      /\ \A v \in Worker \ {w} : job'[v] = job[v]
  BY <1>0, <1>1, <1>3 DEF TypeOK, Active, Record
<1>6. EndpointJob(w)'
  BY <1>1, <1>4, <1>5 DEF EndpointJob, Alive
<1>7. ASSUME NEW v \in Worker \ {w}
      PROVE  EndpointJob(v)'
  BY <1>1, <1>4, <1>5 DEF EndpointInv, EndpointJob, Alive
<1>8. (Clearing => Clearing') /\ ~Finishing
  BY <1>2, <1>5, OneHolder DEF Clearing, Finishing, Locked
<1>9. RecordedAlive'
  BY <1>1, <1>4, <1>8 DEF EndpointInv, RecordedAlive, Alive
<1>10. ReplayAlive'
  <2> SUFFICES ASSUME prov.endpoint = None, prov.op # None, NEW p \in Plane,
                      answer'[prov.op][p] \in Endpoint
               PROVE  Alive(answer[prov.op][p])'
    BY <1>1 DEF ReplayAlive
  <2>1. prov.op \in Op
    BY <1>0 DEF TypeOK, Record
  <2>2. CASE answer'[prov.op][p] = answer[prov.op][p]
    BY <1>1, <1>4, <1>8, <2>1, <2>2 DEF EndpointInv, ReplayAlive, Alive
  <2>3. CASE answer'[prov.op][p] # answer[prov.op][p]
    <3>1. answer'[prov.op][p] = e
      BY <1>0, <1>1, <1>3, <2>1, <2>3 DEF Created, TypeOK
    <3> QED
      BY <1>1, <1>4, <3>1 DEF Alive
  <2> QED
    BY <2>2, <2>3
<1> QED
  BY <1>6, <1>7, <1>9, <1>10 DEF EndpointInv

\* A create that fails leaves the endpoint on record.
LEMMA EndpointCreateFails ==
    ASSUME NEW w \in Worker, IInv, EndpointInv, CreateFails(w)
    PROVE  EndpointInv'
<1>0. TypeOK
  BY DEF IInv
<1>1. PICK o \in Op :
          /\ Creates(w, o)
          /\ \/ UNCHANGED platform
             \/ /\ Works(job[w].key)
                /\ \/ Refused(o, PlaneOf(job[w].key))
                   \/ \E e \in Endpoint : Created(o, e, PlaneOf(job[w].key))
          /\ Fail(w, [job[w].draft EXCEPT !.op = o], "webhook")
  BY DEF CreateFails
<1>2. Locked(w) /\ job[w].step = "creating"
  BY <1>1 DEF Creates, Locked, EndpointInv, EndpointJob
<1>3. /\ job[w] \in Active /\ job[w].draft \in Record
      /\ job[w].draft.op = prov.op /\ job[w].draft.endpoint = prov.endpoint
  BY <1>2, LockedFacts DEF EndpointInv, EndpointJob, IInv, RequestInv, DraftOk
<1>4. Works(job[w].key) => PlaneOf(job[w].key) \in Plane
  BY <1>0, <1>3, WorkingKey DEF Active
<1> DEFINE new == [job[w].draft EXCEPT !.op = o]
<1>5. new \in Record /\ new.op = o /\ new.endpoint = prov.endpoint
  BY <1>3 DEF Record
<1>6. Fail(w, new, "webhook")
  BY <1>1
<1> HIDE DEF new
<1>7. /\ job'[w] = Idle
      /\ \A v \in Worker \ {w} : job'[v] = job[v]
      /\ prov'.endpoint = prov.endpoint /\ (prov'.op = o \/ prov'.op = prov.op)
  BY <1>0, <1>5, <1>6, FailedEndpoint
<1>8. \A f \in Endpoint : Alive(f) => Alive(f)'
  BY <1>0, <1>1, <1>4, CreateSpares DEF platform, Refused, Alive
<1>9. (Clearing => Clearing') /\ ~Finishing
  BY <1>2, <1>7, OneHolder DEF Clearing, Finishing, Locked
<1>10. EndpointJob(w)'
  BY <1>7 DEF EndpointJob, Idle
<1>11. ASSUME NEW v \in Worker \ {w}
       PROVE  EndpointJob(v)'
  <2>1. ~Locked(v)
    BY <1>2, OneHolder
  <2> QED
    BY <1>7, <2>1 DEF EndpointInv, EndpointJob, Locked
<1>12. RecordedAlive'
  BY <1>7, <1>8, <1>9 DEF EndpointInv, RecordedAlive, Alive
<1>13. ReplayAlive'
  <2> SUFFICES ASSUME prov.endpoint = None, prov'.op # None, NEW p \in Plane,
                      answer'[prov'.op][p] \in Endpoint
               PROVE  Alive(answer[prov.op][p])'
    BY <1>7 DEF ReplayAlive
  <2>1. prov'.op \in Op
    BY <1>0, <1>7 DEF TypeOK, Record
  <2>2. CASE answer'[prov'.op][p] = answer[prov'.op][p]
    <3>1. prov'.op = prov.op
      <4>1. answer[prov'.op][p] # None
        BY <2>2, ConnectAssumption
      <4>2. ~Unused(prov'.op)
        BY <4>1 DEF Unused
      <4> QED
        BY <1>1, <1>2, <1>3, <1>7, <4>2 DEF Creates, OpFor
    <3> QED
      BY <1>8, <1>9, <2>2, <3>1 DEF EndpointInv, ReplayAlive, Alive
  <2>3. CASE answer'[prov'.op][p] # answer[prov'.op][p]
    <3>1. PICK e \in Endpoint : Works(job[w].key) /\ Created(o, e, PlaneOf(job[w].key))
      <4>1. CASE UNCHANGED platform
        BY <2>3, <4>1 DEF platform
      <4>2. CASE Works(job[w].key) /\ Refused(o, PlaneOf(job[w].key))
        <5>1. /\ answer \in [Op -> [Plane -> Endpoint \cup {None, Rejected}]]
              /\ answer' = [answer EXCEPT ![o][PlaneOf(job[w].key)] = Rejected]
              /\ PlaneOf(job[w].key) \in Plane
          BY <1>0, <1>4, <4>2 DEF Refused, TypeOK
        <5>2. answer'[prov'.op][p] = Rejected
          BY <2>1, <2>3, <5>1
        <5> QED
          BY <5>2, ConnectAssumption DEF Rejected
      <4> QED
        BY <1>1, <4>1, <4>2
    <3>2. /\ answer \in [Op -> [Plane -> Endpoint \cup {None, Rejected}]]
          /\ answer' = [answer EXCEPT ![o][PlaneOf(job[w].key)] = e]
          /\ PlaneOf(job[w].key) \in Plane
      BY <1>0, <1>4, <3>1 DEF Created, TypeOK
    <3>3. answer'[prov'.op][p] = e
      BY <2>1, <2>3, <3>2
    <3> QED
      BY <1>1, <3>1, <3>3, CreateAnswers DEF Alive
  <2> QED
    BY <2>2, <2>3
<1> QED
  BY <1>10, <1>11, <1>12, <1>13 DEF EndpointInv

\* Deleting spares what is not asked for.
LEMMA DeleteSpares ==
    ASSUME NEW D, NEW e \in Endpoint, TypeOK, Delete(D), Alive(e), e \notin D
    PROVE  Alive(e)'
  BY DEF TypeOK, Delete, Alive

\* The cleanup deletes what is not in the draft, and Finish then stores the draft.
LEMMA EndpointCleanup ==
    ASSUME NEW w \in Worker, IInv, EndpointInv, Cleanup(w)
    PROVE  EndpointInv'
<1>0. TypeOK /\ prov \in Record /\ job[w].step = "cleaning"
  BY DEF IInv, TypeOK, Cleanup
<1>1. Locked(w)
  BY <1>0 DEF Locked
<1>2. /\ job[w] \in Active /\ job[w].before = prov
      /\ Alive(job[w].draft.endpoint) /\ job[w].draft.endpoint # prov.endpoint
  BY <1>0, <1>1, LockedFacts DEF EndpointInv, EndpointJob
<1>3. PICK D : Delete(D) /\ job[w].draft.endpoint \notin D
  <2> DEFINE others   == Deletable(job[w].key, Own(PlaneOf(job[w].key)) \ {job[w].draft.endpoint})
             deleter  == IF job[w].kind = "callback" /\ ~SamePlane(w)
                         THEN job[w].before.key ELSE job[w].key
             previous == IF job[w].kind = "setup" THEN {}
                         ELSE Deletable(deleter, {job[w].before.endpoint})
  <2>1. PICK D \in SUBSET (others \cup previous) : Delete(D)
    BY DEF Cleanup
  <2>2. job[w].draft.endpoint \notin others
    BY DEF Deletable
  <2>3. job[w].draft.endpoint \notin previous
    BY <1>2 DEF Deletable
  <2> QED
    BY <2>1, <2>2, <2>3
<1>4. /\ job'[w].step = "finishing" /\ job'[w].draft = job[w].draft
      /\ \A v \in Worker \ {w} : job'[v] = job[v]
      /\ prov' = prov
  BY <1>0, <1>2 DEF Cleanup, TypeOK, Active
<1>5. Alive(job[w].draft.endpoint)'
  BY <1>0, <1>2, <1>3, <1>4, DeleteSpares DEF Alive
<1>6. ASSUME NEW v \in Worker
      PROVE  EndpointJob(v)'
  <2>1. CASE v = w
    BY <1>2, <1>4, <1>5, <2>1 DEF EndpointJob
  <2>2. CASE v # w
    <3>1. ~Locked(v) /\ job[v].step \notin {"freeing", "recreating"}
      BY <1>1, <2>2, OneHolder DEF EndpointInv, EndpointJob
    <3> QED
      BY <1>4, <2>2, <3>1 DEF EndpointJob, Locked
  <2> QED
    BY <2>1, <2>2
<1>7. Finishing'
  BY <1>4 DEF Finishing
<1> QED
  BY <1>6, <1>7 DEF EndpointInv, RecordedAlive, ReplayAlive

LEMMA EndpointFinish ==
    ASSUME NEW w \in Worker, IInv, EndpointInv, Finish(w)
    PROVE  EndpointInv'
<1>0. TypeOK /\ job[w].step = "finishing" /\ UNCHANGED <<endpoint, answer>>
  BY DEF IInv, Finish, platform
<1>1. Locked(w)
  BY <1>0 DEF Locked
<1>2. job[w].draft \in Record /\ Alive(job[w].draft.endpoint)
  BY <1>0, <1>1, LockedFacts DEF EndpointInv, EndpointJob
<1>3. /\ prov'.endpoint = job[w].draft.endpoint
      /\ job' = [job EXCEPT ![w] = Idle]
  BY <1>2 DEF Finish, Commit, Record
<1>4. Alive(prov.endpoint)' /\ prov'.endpoint # None
  BY <1>0, <1>2, <1>3, ConnectAssumption DEF Alive
<1>5. ASSUME NEW v \in Worker
      PROVE  EndpointJob(v)'
  <2>1. CASE v = w
    BY <1>0, <1>3, <2>1 DEF EndpointJob, Idle, TypeOK
  <2>2. CASE v # w
    <3>1. job'[v] = job[v] /\ ~Locked(v) /\ job[v].step \notin {"freeing", "recreating"}
      BY <1>0, <1>1, <1>3, <2>2, OneHolder DEF EndpointInv, EndpointJob, TypeOK
    <3> QED
      BY <3>1 DEF EndpointJob, Locked
  <2> QED
    BY <2>1, <2>2
<1> QED
  BY <1>4, <1>5 DEF EndpointInv, RecordedAlive, ReplayAlive

\* A disconnect deletes the endpoint it then takes off the record.
LEMMA EndpointDisconnect ==
    ASSUME NEW w \in Worker, IInv, EndpointInv, DisconnectStart(w) \/ DisconnectClear(w)
    PROVE  EndpointInv'
<1>0. TypeOK /\ prov \in Record
  BY DEF IInv, TypeOK
<1>1. CASE DisconnectStart(w)
  <2>1. PICK D : Delete(D) /\ D \subseteq {prov.endpoint} \cap Endpoint
    BY <1>1 DEF DisconnectStart, Deletable, Own
  <2>2. /\ job'[w].step = "clearing" /\ job[w].step = "idle"
        /\ \A v \in Worker \ {w} : job'[v] = job[v]
        /\ prov' = prov /\ answer' = answer
    BY <1>0, <1>1, <2>1 DEF DisconnectStart, Request, TypeOK, Delete, Idle
  <2>3. \A e \in Endpoint : Alive(e) /\ e # prov.endpoint => Alive(e)'
    BY <1>0, <2>1, DeleteSpares
  <2>4. Clearing' /\ (Finishing => Finishing')
    BY <2>2 DEF Clearing, Finishing
  <2>5. ReplayAlive'
    BY <2>2, <2>3, <2>4, ConnectAssumption DEF EndpointInv, ReplayAlive, Alive
  <2>6. ASSUME NEW v \in Worker
        PROVE  EndpointJob(v)'
    BY <2>2, <2>3 DEF EndpointInv, EndpointJob, Alive
  <2> QED
    BY <2>4, <2>5, <2>6 DEF EndpointInv, RecordedAlive
<1>2. CASE DisconnectClear(w)
  <2>1. /\ prov' = Blank /\ lock \in {None, w} /\ job[w].step = "clearing"
        /\ job'[w] = Idle /\ \A v \in Worker \ {w} : job'[v] = job[v]
    BY <1>0, <1>2 DEF DisconnectClear, Commit, TypeOK
  <2>2. ASSUME NEW v \in Worker
        PROVE  EndpointJob(v)'
    <3>1. ~Locked(v) /\ job[v].step \notin {"freeing", "recreating"}
      BY <2>1, ConnectAssumption DEF EndpointInv, EndpointJob, IInv, LockInv, Locked
    <3> QED
      BY <2>1, <3>1 DEF EndpointJob, Locked, Idle
  <2> QED
    BY <2>1, <2>2 DEF EndpointInv, RecordedAlive, ReplayAlive, Blank
<1> QED
  BY <1>1, <1>2

\* What is neither a request's step nor a step of the platform.
LEMMA EndpointForm ==
    ASSUME IInv, EndpointInv,
           \/ UNCHANGED vars
           \/ \E state \in {"disabled", "test", "enabled"}, published \in BOOLEAN :
                 SaveForm(state, published)
    PROVE  EndpointInv'
<1>1. /\ UNCHANGED <<job, endpoint, answer>>
      /\ prov'.endpoint = prov.endpoint /\ prov'.op = prov.op
  BY DEF SaveForm, platform, vars, IInv, TypeOK, Record
<1>2. Clearing' = Clearing /\ Finishing' = Finishing
  BY <1>1 DEF Clearing, Finishing
<1> QED
  BY <1>1, <1>2 DEF EndpointInv, RecordedAlive, ReplayAlive, EndpointJob, Alive

\* Each step, in turn.
LEMMA EndpointNext ==
    ASSUME ~Crashes, ~Capped, IInv, EndpointInv, [Next]_vars
    PROVE  EndpointInv'
<1>1. ASSUME NEW w \in Worker, Connecting(w) \/ Provisioning(w)
      PROVE  EndpointInv'
  <2>1. ~CreateCapped(w) /\ ~FreeSlot(w)
    BY DEF CreateCapped, FreeSlot, EndpointInv, EndpointJob
  <2> QED
    BY <1>1, <2>1, EndpointHandshake, EndpointAccount, EndpointCreateAnswered,
       EndpointCreateFails, EndpointCleanup, EndpointFinish
    DEF Provisioning
<1>2. ASSUME NEW w \in Worker,
             \/ CompleteSetup(w) \/ ReconfigureWebhook(w)
             \/ DisconnectStart(w) \/ DisconnectClear(w)
             \/ Crash(w)
      PROVE  EndpointInv'
  BY <1>2, EndpointHandshake, EndpointDisconnect DEF Crash
<1> QED
  BY <1>1, <1>2, EndpointForm DEF Next

\* Where no request dies and the platform's cap is not reached, the endpoint on
\* record is delivered to whenever no request is about to change it, for any
\* number of administrators and with token exchanges that are lost: a create is
\* never answered with the endpoint that is then deleted as the one replaced.
THEOREM EndpointAlive_Always ==
    ASSUME ~Crashes, ~Capped
    PROVE  Spec => []EndpointAlive
<1>1. Init => EndpointInv
  BY ConnectAssumption
  DEF Init, Blank, Idle, EndpointInv, RecordedAlive, ReplayAlive, EndpointJob
<1>2. IInv /\ EndpointInv /\ [Next]_vars => EndpointInv'
  BY EndpointNext
<1>3. IInv /\ EndpointInv => EndpointAlive
  <2> SUFFICES ASSUME IInv, EndpointInv, Settled, prov.endpoint # None
               PROVE  endpoint[prov.endpoint].status = "alive"
    BY DEF EndpointAlive
  <2>1. ~Clearing /\ ~Finishing
    BY ConnectAssumption DEF Settled, Clearing, Finishing, IInv, LockInv, Locked
  <2> QED
    BY <2>1 DEF EndpointInv, RecordedAlive, Alive
<1> QED
  BY <1>1, <1>2, <1>3, ConnectInvariance, PTL DEF Spec

-----------------------------------------------------------------------------
(* The stored key works, with one administrator at a time and an exchange   *)
(* that is always answered.                                                 *)

\* The request is one that has brought a new key.
Brings(w) == (job[w].step = "locking" \/ Locked(w)) /\ job[w].kind = "callback"

\* A token is only exchanged by a consent.
Consents(w) == job[w].step = "exchanging" => job[w].kind = "callback"

\* A consent's new key works, and only that consent has retired the stored one.
KeyInv ==
    /\ \A w \in Worker : Consents(w) /\ (Brings(w) => Works(job[w].key))
    /\ prov.key # None => \/ Works(prov.key)
                          \/ \E w \in Worker : Brings(w) /\ PlaneOf(prov.key) = job[w].plane

OneWorker == \A v, w \in Worker : v = w

\* With one worker, one request is what there is to look at.
LEMMA KeyOfOne ==
    ASSUME OneWorker, NEW w \in Worker, KeyInv,
           Brings(w)' => Works(job[w].key)',
           Consents(w)',
           prov'.key # None => \/ Works(prov.key)'
                               \/ Brings(w)' /\ PlaneOf(prov.key)' = job'[w].plane
    PROVE  KeyInv'
  BY DEF OneWorker, KeyInv

\* A step of a request without a new key that retires none.
LEMMA KeyStays ==
    ASSUME OneWorker, NEW w \in Worker, KeyInv, ~Brings(w), ~Brings(w)', issued' = issued,
           Consents(w)',
           prov'.key = prov.key \/ prov'.key = None
    PROVE  KeyInv'
<1>1. prov.key # None => Works(prov.key)
  BY DEF OneWorker, KeyInv
<1> QED
  BY <1>1, KeyOfOne DEF Works

\* A step of a consent that goes on with its key.
LEMMA KeyCarried ==
    ASSUME OneWorker, NEW w \in Worker, IInv, KeyInv, job[w] \in Active,
           job[w].step = "locking" \/ Locked(w), job'[w].kind = job[w].kind,
           job'[w].step = "locking" \/ Locked(w)',
           job[w].kind = "callback" =>
              job'[w].key = job[w].key /\ job'[w].plane = job[w].plane,
           issued' = issued, prov' = prov
    PROVE  KeyInv'
<1>0. Consents(w)'
  BY DEF Consents, Locked
<1>1. CASE job[w].kind = "callback"
  <2>1. Brings(w) /\ Brings(w)'
    BY <1>1 DEF Brings
  <2>2. Works(job[w].key)'
    BY <1>1, <2>1 DEF KeyInv, Works
  <2>3. prov.key # None => Works(prov.key) \/ PlaneOf(prov.key) = job[w].plane
    BY DEF OneWorker, KeyInv
  <2> QED
    BY <1>0, <1>1, <2>1, <2>2, <2>3, KeyOfOne DEF Works, PlaneOf
<1>2. CASE job[w].kind # "callback"
  BY <1>0, <1>2, KeyStays DEF Brings
<1> QED
  BY <1>1, <1>2

\* The key of a draft: a consent's own, once it is to be stored.
LEMMA DraftKey ==
    ASSUME NEW w \in Worker, IInv, Locked(w)
    PROVE  /\ job[w].draft.key = Intended(w).key
           /\ job[w].kind = "callback" /\ (SamePlane(w) \/ job[w].step # "account") =>
                 job[w].draft.key = job[w].key
<1>1. /\ job[w] \in Active /\ job[w].draft \in Record /\ prov \in Record
      /\ WithoutEndpoint(job[w].draft) = WithoutEndpoint(Intended(w))
  BY LockedFacts DEF IInv, TypeOK
<1>2. WithKey(prov, job[w].key, job[w].plane) \in Record
  BY <1>1, RecordOps DEF Active
<1>3. WithKey(prov, job[w].key, job[w].plane).key = job[w].key
  BY <1>1 DEF WithKey, Record
<1>4. Intended(w) \in Record
  BY <1>1, <1>2 DEF Intended
<1> QED
  BY <1>1, <1>3, <1>4, FieldsAgree DEF Intended

\* A consent that fails stores its key where it retired the other, and keeps
\* the other where it did not.
LEMMA KeyFails ==
    ASSUME OneWorker, NEW w \in Worker, NEW rec \in Record, NEW step, IInv, KeyInv, Locked(w),
           Fail(w, rec, step), rec.key = job[w].draft.key, issued' = issued
    PROVE  KeyInv'
<1>0. job[w].before = prov /\ job'[w] = Idle
  BY LockedFacts, FailedEndpoint DEF IInv
<1>1. ~Brings(w)' /\ Consents(w)'
  BY <1>0 DEF Brings, Locked, Idle, Consents
<1>2. CASE job[w].kind # "callback"
  <2>1. prov' = prov /\ ~Brings(w)
    BY <1>2 DEF Fail, Rollback, Brings
  <2> QED
    BY <1>1, <2>1, KeyStays
<1>3. CASE job[w].kind = "callback"
  <2>1. prov' = Failed(w, rec, step) /\ Brings(w)
    BY <1>3 DEF Fail, Commit, Brings
  <2>2. CASE SamePlane(w)
    <3>1. prov'.key = job[w].key
      BY <1>3, <2>1, <2>2, DraftKey DEF Failed, Record
    <3> QED
      BY <1>1, <2>1, <3>1, KeyOfOne DEF KeyInv, Works
  <2>3. CASE ~SamePlane(w)
    <3>1. prov'.key = prov.key
      BY <1>0, <2>1, <2>3 DEF Failed, Record
    <3>2. PlaneOf(prov.key) # job[w].plane
      BY <1>0, <2>3 DEF SamePlane
    <3>3. prov.key # None => Works(prov.key)
      BY <3>2 DEF KeyInv, OneWorker
    <3> QED
      BY <1>1, <3>1, <3>3, KeyOfOne DEF Works
  <2> QED
    BY <2>2, <2>3
<1> QED
  BY <1>2, <1>3

\* The exchange retires the key of the plane it is for; the consent in hand knows.
LEMMA KeyExchange ==
    ASSUME OneWorker, NEW w \in Worker, IInv, KeyInv, Exchange(w)
    PROVE  KeyInv'
<1>0. TypeOK /\ job[w].step = "exchanging" /\ ~Brings(w)
  BY DEF IInv, Exchange, Brings, Locked
<1>1. job[w] \in Active
  BY <1>0, ActiveJob
<1>2. PICK k \in Key :
          /\ IssueKey(k, job[w].plane, job[w].client)
          /\ job' = [job EXCEPT ![w].step = "locking", ![w].key = k,
                                ![w].marks = (client.id = job[w].client)]
  BY DEF Exchange
<1>3. /\ job'[w].key = k /\ job'[w].plane = job[w].plane /\ job'[w].step = "locking"
      /\ job'[w].kind = job[w].kind /\ prov' = prov
  BY <1>0, <1>1, <1>2 DEF Exchange, TypeOK, Active
<1>4. Works(job[w].key)'
  BY <1>2, <1>3, ConnectAssumption DEF IssueKey, Works
<1>5. job[w].kind = "callback"
  BY <1>0 DEF KeyInv, Consents
<1>6. Brings(w)' /\ Consents(w)'
  BY <1>3, <1>5 DEF Brings, Consents
<1>7. prov.key # None => /\ Works(prov.key) /\ KnownKey(prov.key)
                         /\ Works(prov.key)' \/ PlaneOf(prov.key)' = job[w].plane
  <2>1. prov.key # None => Works(prov.key) /\ KnownKey(prov.key)
    BY <1>0 DEF OneWorker, KeyInv, IInv, ProvInv
  <2> QED
    BY <1>0, <1>2, <1>3, <2>1 DEF IssueKey, Works, KnownKey, PlaneOf, TypeOK
<1> QED
  BY <1>3, <1>4, <1>6, <1>7, KeyOfOne

\* The steps of a request that has no new key yet, or never will.
LEMMA KeyHandshake ==
    ASSUME OneWorker, ~LostExchange, NEW w \in Worker, IInv, KeyInv,
           \/ \E plane \in Plane : Start(w, plane)
           \/ Callback(w) \/ CallbackRefused(w) \/ ExchangeFails(w) \/ RecordError(w)
           \/ CompleteSetup(w) \/ ReconfigureWebhook(w) \/ LockRefused(w)
           \/ DisconnectStart(w) \/ DisconnectClear(w)
    PROVE  KeyInv'
<1>0. TypeOK /\ prov \in Record /\ job \in [Worker -> Job]
  BY DEF IInv, TypeOK
<1>1. issued' = issued
  BY DEF Start, Callback, CallbackRefused, ExchangeFails, RecordError, CompleteSetup,
      ReconfigureWebhook, LockRefused, DisconnectStart, DisconnectClear, Delete, platform
<1>2. prov'.key = prov.key \/ prov'.key = None
  <2>1. prov' = prov \/ prov' = [prov EXCEPT !.error = TRUE] \/ prov' = Blank
    BY DEF Start, Callback, CallbackRefused, ExchangeFails, RecordError, CompleteSetup,
        ReconfigureWebhook, LockRefused, DisconnectStart, DisconnectClear, Commit, Rollback
  <2> QED
    BY <1>0, <2>1 DEF Record, Blank
<1>3. CASE \E plane \in Plane : Start(w, plane)
  BY <1>1, <1>2, <1>3, KeyStays DEF Start, Brings, Locked, Idle, Consents
<1>4. CASE CallbackRefused(w)
  BY <1>1, <1>2, <1>4, KeyStays DEF CallbackRefused, Brings, Locked, Idle, Consents
<1>5. CASE Callback(w) \/ CompleteSetup(w) \/ ReconfigureWebhook(w) \/ DisconnectStart(w)
  <2>1. job[w] = Idle /\ job'[w].step \in {"exchanging", "locking", "clearing"}
    BY <1>0, <1>5
    DEF Callback, CompleteSetup, ReconfigureWebhook, DisconnectStart, Request
  <2>2. /\ job'[w].step = "exchanging" => job'[w].kind = "callback"
        /\ job'[w].step = "locking" => job'[w].kind # "callback"
    BY <1>0, <1>5
    DEF Callback, CompleteSetup, ReconfigureWebhook, DisconnectStart, Request
  <2>3. ~Brings(w) /\ ~Brings(w)' /\ Consents(w)'
    BY <2>1, <2>2 DEF Brings, Locked, Idle, Consents
  <2> QED
    BY <1>1, <1>2, <2>2, <2>3, KeyStays
<1>6. CASE ExchangeFails(w)
  <2>1. job[w] \in Active /\ job[w].step = "exchanging"
    BY <1>0, <1>6, ActiveJob DEF ExchangeFails
  <2>2. job'[w].step = "failing"
    BY <1>0, <1>6, <2>1 DEF ExchangeFails, Active
  <2> QED
    BY <1>1, <1>2, <2>1, <2>2, KeyStays DEF Brings, Locked, Consents
<1>7. CASE RecordError(w) \/ DisconnectClear(w)
  <2>1. job[w].step \in {"failing", "clearing"} /\ job'[w] = Idle
    BY <1>0, <1>7 DEF RecordError, DisconnectClear, Commit
  <2> QED
    BY <1>1, <1>2, <2>1, KeyStays DEF Brings, Locked, Idle, Consents
<1>8. CASE LockRefused(w)
  <2>1. lock = None /\ ~Locked(w)
    <3>1. ~Locked(w) /\ lock # w
      BY <1>8 DEF LockRefused, Locked, IInv, LockInv
    <3> QED
      BY <1>0, <3>1 DEF TypeOK, OneWorker
  <2>2. job[w].kind # "callback" /\ job'[w] = Idle
    BY <1>0, <1>8, <2>1 DEF LockRefused, Rollback
  <2> QED
    BY <1>1, <1>2, <2>1, <2>2, KeyStays DEF Brings, Locked, Idle, Consents
<1> QED
  BY <1>3, <1>4, <1>5, <1>6, <1>7, <1>8

\* The steps under the lock that end nothing.
LEMMA KeyUnderLock ==
    ASSUME OneWorker, NEW w \in Worker, IInv, KeyInv,
           \/ LockProvider(w) \/ AccountAccepted(w) \/ CreateAnswered(w)
           \/ CreateCapped(w) \/ FreeSlot(w) \/ Cleanup(w)
    PROVE  KeyInv'
<1>0. TypeOK /\ job \in [Worker -> Job]
  BY DEF IInv, TypeOK
<1>1. job[w].step = "locking" \/ Locked(w)
  BY DEF LockProvider, AccountAccepted, CreateAnswered, CreateCapped, FreeSlot, Cleanup,
      Creates, Locked
<1>2. job[w] \in Active
  BY <1>0, <1>1, ActiveJob DEF Locked
<1>3. UNCHANGED <<prov, issued>>
  BY DEF LockProvider, AccountAccepted, CreateAnswered, CreateCapped, FreeSlot, Cleanup,
      Created, Refused, Delete, platform
<1>4. CASE LockProvider(w)
  <2>1. /\ job'[w].kind = job[w].kind /\ job'[w].plane = job[w].plane
        /\ job[w].kind = "callback" => job'[w].key = job[w].key
        /\ job'[w].step \in {"account", "creating"}
    BY <1>0, <1>2, <1>4 DEF LockProvider, Active
  <2>2. Locked(w)'
    BY <2>1 DEF Locked
  <2> QED
    BY <1>1, <1>2, <1>3, <2>1, <2>2, KeyCarried
<1>5. CASE AccountAccepted(w)
  <2>1. /\ job'[w].kind = job[w].kind /\ job'[w].plane = job[w].plane
        /\ job'[w].key = job[w].key /\ job'[w].step = "creating"
    BY <1>0, <1>2, <1>5 DEF AccountAccepted, Active
  <2>2. Locked(w)'
    BY <2>1 DEF Locked
  <2> QED
    BY <1>1, <1>2, <1>3, <2>1, <2>2, KeyCarried
<1>6. CASE CreateAnswered(w)
  <2>0. PICK o \in Op, e \in Endpoint :
            job' = [job EXCEPT ![w].step = "cleaning", ![w].draft.op = o,
                               ![w].draft.secret = e, ![w].draft.endpoint = e]
    BY <1>6 DEF CreateAnswered
  <2>1. /\ job'[w].kind = job[w].kind /\ job'[w].plane = job[w].plane
        /\ job'[w].key = job[w].key /\ job'[w].step = "cleaning"
    BY <1>0, <1>2, <2>0 DEF Active, Record
  <2>2. Locked(w)'
    BY <2>1 DEF Locked
  <2> QED
    BY <1>1, <1>2, <1>3, <2>1, <2>2, KeyCarried
<1>7. CASE CreateCapped(w)
  <2>0. PICK o \in Op : job' = [job EXCEPT ![w].step = "freeing", ![w].draft.op = o]
    BY <1>7 DEF CreateCapped
  <2>1. /\ job'[w].kind = job[w].kind /\ job'[w].plane = job[w].plane
        /\ job'[w].key = job[w].key /\ job'[w].step = "freeing"
    BY <1>0, <1>2, <2>0 DEF Active, Record
  <2>2. Locked(w)'
    BY <2>1 DEF Locked
  <2> QED
    BY <1>1, <1>2, <1>3, <2>1, <2>2, KeyCarried
<1>8. CASE FreeSlot(w) \/ Cleanup(w)
  <2>1. /\ job'[w].kind = job[w].kind /\ job'[w].plane = job[w].plane
        /\ job'[w].key = job[w].key /\ job'[w].step \in {"recreating", "finishing"}
    BY <1>0, <1>2, <1>8 DEF FreeSlot, Cleanup, Active
  <2>2. Locked(w)'
    BY <2>1 DEF Locked
  <2> QED
    BY <1>1, <1>2, <1>3, <2>1, <2>2, KeyCarried
<1> QED
  BY <1>4, <1>5, <1>6, <1>7, <1>8

\* The ends of a request under the lock.
LEMMA KeyEnds ==
    ASSUME OneWorker, NEW w \in Worker, IInv, KeyInv,
           AccountUnread(w) \/ AccountRefused(w) \/ CreateFails(w) \/ Finish(w)
    PROVE  KeyInv'
<1>1. Locked(w)
  BY DEF AccountUnread, AccountRefused, CreateFails, Creates, Finish, Locked
<1>2. job[w] \in Active /\ job[w].draft \in Record /\ TypeOK
  BY <1>1, LockedFacts DEF IInv
<1>3. issued' = issued
  BY DEF AccountUnread, AccountRefused, CreateFails, Finish, Created, Refused, platform
<1>4. CASE AccountUnread(w) \/ AccountRefused(w)
  <2>1. PICK step : Fail(w, job[w].draft, step)
    BY <1>4 DEF AccountUnread, AccountRefused
  <2> QED
    BY <1>1, <1>2, <1>3, <2>1, KeyFails
<1>5. CASE CreateFails(w)
  <2>1. PICK o \in Op : Fail(w, [job[w].draft EXCEPT !.op = o], "webhook")
    BY <1>5 DEF CreateFails
  <2> DEFINE new == [job[w].draft EXCEPT !.op = o]
  <2>2. new \in Record /\ new.key = job[w].draft.key
    BY <1>2 DEF Record
  <2> QED
    BY <1>1, <1>2, <1>3, <2>1, <2>2, KeyFails
<1>6. CASE Finish(w)
  <2>1. prov'.key = job[w].draft.key /\ job'[w] = Idle
    BY <1>2, <1>6 DEF Finish, Commit, Record, TypeOK
  <2>2. ~Brings(w)' /\ Consents(w)'
    BY <2>1 DEF Brings, Locked, Idle, Consents
  <2>3. CASE job[w].kind = "callback"
    <3>1. prov'.key = job[w].key
      BY <1>1, <1>6, <2>1, <2>3, DraftKey DEF Finish
    <3>2. Works(job[w].key)
      BY <1>1, <2>3 DEF KeyInv, Brings
    <3> QED
      BY <1>3, <2>2, <3>1, <3>2, KeyOfOne DEF Works
  <2>4. CASE job[w].kind # "callback"
    <3>1. prov'.key = prov.key
      BY <1>1, <2>1, <2>4, DraftKey DEF Intended
    <3> QED
      BY <1>3, <2>2, <2>4, <3>1, KeyStays DEF Brings
  <2> QED
    BY <2>3, <2>4
<1> QED
  BY <1>4, <1>5, <1>6

\* The form writes no key.
LEMMA KeyForm ==
    ASSUME IInv, KeyInv,
           \/ UNCHANGED vars
           \/ \E state \in {"disabled", "test", "enabled"}, published \in BOOLEAN :
                 SaveForm(state, published)
    PROVE  KeyInv'
<1>1. UNCHANGED <<job, issued>> /\ prov'.key = prov.key
  BY DEF SaveForm, platform, vars, IInv, TypeOK, Record
<1> QED
  BY <1>1 DEF KeyInv, Brings, Locked, Works, PlaneOf, Consents

\* Each step, in turn.
LEMMA KeyNext ==
    ASSUME OneWorker, ~LostExchange, ~Crashes, IInv, KeyInv, [Next]_vars
    PROVE  KeyInv'
<1>1. ASSUME NEW w \in Worker, Connecting(w) \/ Provisioning(w)
      PROVE  KeyInv'
  BY <1>1, KeyHandshake, KeyExchange, KeyUnderLock, KeyEnds DEF Connecting, Provisioning
<1>2. ASSUME NEW w \in Worker,
             \/ CompleteSetup(w) \/ ReconfigureWebhook(w)
             \/ DisconnectStart(w) \/ DisconnectClear(w)
             \/ Crash(w)
      PROVE  KeyInv'
  BY <1>2, KeyHandshake DEF Crash
<1> QED
  BY <1>1, <1>2, KeyForm DEF Next

\* With one administrator at a time, no lost exchange and no request that dies,
\* the stored key works whenever no request is about to change it: a consent
\* that fails stores its key on the plane whose key it retired, and only there.
THEOREM KeyWorks_Always ==
    ASSUME \A v, w \in Worker : v = w, ~LostExchange, ~Crashes
    PROVE  Spec => []KeyWorks
<1>1. Init => KeyInv
  BY ConnectAssumption DEF Init, Blank, Idle, KeyInv, Brings, Locked, Consents
<1>2. IInv /\ KeyInv /\ [Next]_vars => KeyInv'
  BY KeyNext DEF OneWorker
<1>3. IInv /\ KeyInv => KeyWorks
  <2> SUFFICES ASSUME IInv, KeyInv, Settled, prov.key # None
               PROVE  Works(prov.key)
    BY DEF KeyWorks
  <2>1. \A w \in Worker : ~Brings(w)
    BY ConnectAssumption DEF Settled, Brings, IInv, LockInv
  <2> QED
    BY <2>1 DEF KeyInv
<1> QED
  BY <1>1, <1>2, <1>3, ConnectInvariance, PTL DEF Spec

=============================================================================
