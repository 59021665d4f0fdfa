---------------------------- MODULE RoutingProofs ----------------------------
(***************************************************************************)
(* Proofs about routing: about Dispatch, and about RouteWatch.             *)
(***************************************************************************)
EXTENDS Dispatch, RouteWatch, TLAPS

-----------------------------------------------------------------------------
(***************************************************************************)
(* For every set of tables, models and secrets: a caller's plan pays for   *)
(* what no route claims, a substituted request is never served elsewhere,  *)
(* and its record says who paid.  All three follow from what each await    *)
(* knows: nothing has been sent before the decision; what has been sent    *)
(* after it went to Anthropic on the caller's credential or to the decided *)
(* upstream on that upstream's own; and the list of credentials the record *)
(* will carry bills that one.                                              *)
(***************************************************************************)

ToUpstream == <<[to |-> upstream, secret |-> "env"]>>
ToAnthropic == <<[to |-> "anthropic.com", secret |-> CallerOrigin]>>
Attempts == [source : Source, result : {"used", "skipped", "missing", "rejected"}]
Substituting == pc \in {"fetch", "refusal", "json", "stream"}

Typed ==
    /\ request \in Inbound
    /\ considered \subseteq Attempts

Undecided ==
    /\ pc \in {"idle", "peek", "handle", "body"} => upstream = Nobody /\ sent = <<>>
    /\ pc # "done" => records = <<>>
    /\ pc \in {"body", "relay"} => considered = PassthroughConsidered

Destined ==
    /\ \/ sent = <<>>
       \/ sent = ToAnthropic /\ upstream = Nobody
       \/ sent = ToUpstream /\ upstream \in Secrets
    /\ pc = "relay" => sent = ToAnthropic /\ upstream = Nobody
    /\ Substituting => sent = ToUpstream /\ Billed(considered) = {"env"}

Claimed ==
    sent = ToUpstream /\ request.credential # "none" =>
        Claiming(snapshot, request.model) # {}

Inv == Typed /\ Undecided /\ Destined /\ Claimed /\ RecordSaysWhoPaid

-----------------------------------------------------------------------------
(* The operators                                                           *)

\* A secret of the server is never the origin a caller's credential has.
LEMMA CallerIsNotServer ==
    ASSUME request \in Inbound
    PROVE  /\ CallerOrigin \in {"inbound_subscription", "inbound_key", "none"}
           /\ CallerOrigin = "none" <=> request.credential = "none"
BY DEF CallerOrigin, Inbound, Request

\* Without a claim, a request that has a credential is not substituted.
LEMMA SubstitutedIsClaimed ==
    ASSUME Decision.pipeline = "substitute", request.credential # "none"
    PROVE  Claiming(snapshot, request.model) # {}
<1>1. Decision = ResolveRoute(snapshot, request.model)
    BY DEF Decision
<1> QED
    BY <1>1 DEF ResolveRoute, Passthrough

\* One attempt bills its source if it is the one that was used.
LEMMA OneBills ==
    ASSUME NEW s, NEW r
    PROVE  /\ r \in {"used", "rejected"} => Billed({Attempt(s, r)}) = {s}
           /\ r \notin {"used", "rejected"} => Billed({Attempt(s, r)}) = {}
<1>1. Attempt(s, r).source = s /\ Attempt(s, r).result = r
    BY DEF Attempt
<1>2. ASSUME NEW a PROVE {x.source : x \in {a}} = {a.source}
    OBVIOUS
<1>3. CASE r \in {"used", "rejected"}
    <2>1. {b \in {Attempt(s, r)} : b.result \in {"used", "rejected"}} = {Attempt(s, r)}
        BY <1>1, <1>3
    <2> QED
        BY <1>1, <1>2, <1>3, <2>1 DEF Billed
<1>4. CASE r \notin {"used", "rejected"}
    <2>1. {b \in {Attempt(s, r)} : b.result \in {"used", "rejected"}} = {}
        BY <1>1, <1>4
    <2> QED
        BY <1>4, <2>1 DEF Billed
<1> QED
    BY <1>3, <1>4

LEMMA TogetherBill ==
    ASSUME NEW S, NEW T
    PROVE  Billed(S \cup T) = Billed(S) \cup Billed(T)
BY DEF Billed

\* What the pass-through bills is the caller's credential, if there is one.
LEMMA PassthroughBills ==
    ASSUME request \in Inbound
    PROVE  /\ PassthroughConsidered \subseteq Attempts
           /\ Billed(PassthroughConsidered) = {CallerOrigin} \ {"none"}
<1>1. CASE request.credential = "none"
    <2>1. PassthroughConsidered = {Attempt("inbound", "missing")}
        BY <1>1 DEF PassthroughConsidered
    <2>2. Attempt("inbound", "missing") \in Attempts
        BY DEF Attempt, Attempts, Source
    <2>3. Billed(PassthroughConsidered) = {}
        BY <2>1, OneBills
    <2> QED
        BY <1>1, <2>1, <2>2, <2>3, CallerIsNotServer
<1>2. CASE request.credential # "none"
    <2>1. PassthroughConsidered = {Attempt(CallerOrigin, "used")}
        BY <1>2 DEF PassthroughConsidered
    <2>2. Attempt(CallerOrigin, "used") \in Attempts
        BY <1>2, CallerIsNotServer DEF Attempt, Attempts, Source
    <2>3. Billed(PassthroughConsidered) = {CallerOrigin}
        BY <2>1, OneBills
    <2> QED
        BY <1>2, <2>1, <2>2, <2>3, CallerIsNotServer
<1> QED
    BY <1>1, <1>2

\* A substituted request bills the server's credential and skips the caller's.
LEMMA SubstituteBills ==
    ASSUME request \in Inbound
    PROVE  /\ Skipped \subseteq Attempts
           /\ {Attempt("env", "used"), Attempt("env", "missing")} \subseteq Attempts
           /\ Billed(Skipped \cup {Attempt("env", "used")}) = {"env"}
<1>1. Billed(Skipped) = {} /\ Skipped \subseteq Attempts
    <2>1. CASE request.credential = "none"
        BY <2>1 DEF Skipped, Billed
    <2>2. CASE request.credential # "none"
        <3>1. Skipped = {Attempt(CallerOrigin, "skipped")}
            BY <2>2 DEF Skipped
        <3>2. Attempt(CallerOrigin, "skipped") \in Attempts
            BY <2>2, CallerIsNotServer DEF Attempt, Attempts, Source
        <3>3. Billed(Skipped) = {}
            BY <3>1, OneBills
        <3> QED
            BY <3>1, <3>2, <3>3
    <2> QED
        BY <2>1, <2>2
<1>2. Billed({Attempt("env", "used")}) = {"env"}
    BY OneBills
<1>3. {Attempt("env", "used"), Attempt("env", "missing")} \subseteq Attempts
    BY DEF Attempt, Attempts, Source
<1> QED
    BY <1>1, <1>2, <1>3, TogetherBill

\* A rejected credential is billed as the used one it was.
LEMMA RejectedBills ==
    ASSUME considered \subseteq Attempts
    PROVE  Rejected \subseteq Attempts /\ Billed(Rejected) = Billed(considered)
<1> DEFINE Turned(a) == IF a.result = "used" THEN [a EXCEPT !.result = "rejected"] ELSE a
           Charged(a) == a.result \in {"used", "rejected"}
<1>1. ASSUME NEW a \in considered
      PROVE  /\ Turned(a) \in Attempts
             /\ Turned(a).source = a.source
             /\ Charged(Turned(a)) <=> Charged(a)
    BY <1>1 DEF Attempts
<1>2. Rejected = {Turned(a) : a \in considered}
    BY DEF Rejected
<1>3. ASSUME NEW S PROVE Billed(S) = {a.source : a \in {b \in S : Charged(b)}}
    BY DEF Billed
<1> HIDE DEF Turned, Charged
<1>4. ASSUME NEW s
      PROVE  s \in Billed(Rejected) <=> s \in Billed(considered)
    <2>1. s \in Billed(Rejected) <=> \E b \in Rejected : Charged(b) /\ s = b.source
        BY <1>3
    <2>2. s \in Billed(considered) <=> \E a \in considered : Charged(a) /\ s = a.source
        BY <1>3
    <2> QED
        BY <1>1, <1>2, <2>1, <2>2
<1> QED
    BY <1>1, <1>2, <1>4

-----------------------------------------------------------------------------
(* The invariant                                                           *)

LEMMA InvInit == Init => Inv
BY DEF Init, Inv, Typed, Undecided, Destined, Claimed, Substituting,
       ToUpstream, ToAnthropic, RecordSaysWhoPaid

\* A record of what was sent to Anthropic, or of what was sent nowhere.
LEMMA PassthroughRecorded ==
    ASSUME Inv, NEW status, Record("passthrough", CallerOrigin, status, PassthroughConsidered),
           records = <<>>, sent' = <<>> \/ sent' = ToAnthropic
    PROVE  RecordSaysWhoPaid'
<1>1. records' = <<[pipeline |-> "passthrough", origin |-> CallerOrigin,
                    status |-> status, considered |-> PassthroughConsidered]>>
    BY DEF Record
<1>2. CallerOrigin # "env" /\ Billed(PassthroughConsidered) = {CallerOrigin} \ {"none"}
    BY CallerIsNotServer, PassthroughBills DEF Inv, Typed
<1>3. \A i \in DOMAIN records', j \in DOMAIN sent' :
          /\ Billed(records'[i].considered) = {sent'[j].secret} \ {"none"}
          /\ records'[i].origin = sent'[j].secret
          /\ sent'[j].secret # "env"
    BY <1>1, <1>2 DEF ToAnthropic
<1> QED
    BY <1>3 DEF RecordSaysWhoPaid, Billed

LEMMA SubstituteRecorded ==
    ASSUME Inv, NEW status, Finish(status, considered),
           Billed(considered) = {"env"}, records = <<>>, sent' = ToUpstream
    PROVE  RecordSaysWhoPaid'
<1>1. records' = <<[pipeline |-> "substitute", origin |-> "fallback_server",
                    status |-> status, considered |-> considered]>>
    BY DEF Finish, Record
<1>2. \A i \in DOMAIN records', j \in DOMAIN sent' :
          /\ Billed(records'[i].considered) = {"env"}
          /\ records'[i].origin = "fallback_server"
          /\ sent'[j].secret = "env"
    BY <1>1 DEF ToUpstream
<1> QED
    BY <1>2 DEF RecordSaysWhoPaid, Billed

\* What an action that records nothing has to show.
LEMMA NothingRecorded ==
    ASSUME records' = <<>>
    PROVE  RecordSaysWhoPaid'
BY DEF RecordSaysWhoPaid

LEMMA ForwardKeeps ==
    ASSUME Inv, Forward, sent = <<>>, records = <<>>, upstream = Nobody, upstream' = upstream,
           considered' = PassthroughConsidered, UNCHANGED <<snapshot, request>>
    PROVE  Inv'
<1>1. PassthroughConsidered' = PassthroughConsidered /\ CallerOrigin' = CallerOrigin
    BY DEF PassthroughConsidered, CallerOrigin
<1>2. CallerOrigin # "env" /\ PassthroughConsidered \subseteq Attempts
    BY CallerIsNotServer, PassthroughBills DEF Inv, Typed
<1>3. Typed'
    BY <1>2 DEF Inv, Typed
<1>4. CASE request.credential = "none" /\ request.inPosition
    <2>1. pc' = "done" /\ sent' = <<>>
        BY <1>4 DEF Forward
    <2>2. RecordSaysWhoPaid'
        BY <1>4, <2>1, PassthroughRecorded DEF Forward
    <2> QED
        BY <1>3, <2>1, <2>2
        DEF Inv, Undecided, Destined, Claimed, Substituting, ToUpstream
<1>5. CASE ~(request.credential = "none" /\ request.inPosition)
    <2>1. pc' = "relay" /\ sent' = ToAnthropic /\ records' = <<>>
        BY <1>5 DEF Forward, ToAnthropic
    <2>2. ToAnthropic' = ToAnthropic /\ ToAnthropic # ToUpstream'
        BY <1>1, <1>2 DEF ToAnthropic, ToUpstream
    <2> QED
        BY <1>1, <1>3, <2>1, <2>2, NothingRecorded
        DEF Inv, Undecided, Destined, Claimed, Substituting
<1> QED
    BY <1>4, <1>5

LEMMA DenyKeeps ==
    ASSUME Inv, Deny, sent = <<>>, records = <<>>, considered' = PassthroughConsidered,
           UNCHANGED <<snapshot, request, upstream>>
    PROVE  Inv'
<1>1. Typed'
    BY PassthroughBills DEF Inv, Typed
<1>2. RecordSaysWhoPaid'
    BY PassthroughRecorded DEF Deny
<1> QED
    BY <1>1, <1>2 DEF Inv, Deny, Undecided, Destined, Claimed, Substituting, ToUpstream

\* Only the credential the decided upstream has is ever sent there.
LEMMA SentKeeps ==
    ASSUME Inv, SubstituteSent
    PROVE  Inv'
<1>1. Typed' /\ Billed(considered') = {"env"}
    BY SubstituteBills DEF Inv, Typed, SubstituteSent
<1>2. sent' = ToUpstream'
    BY DEF SubstituteSent, Inv, Undecided, ToUpstream
<1>3. Undecided' /\ records' = <<>>
    BY DEF SubstituteSent, Inv, Undecided
<1>4. Destined'
    BY <1>1, <1>2 DEF SubstituteSent, Destined, Substituting, Billed
<1>5. Claimed'
    BY SubstitutedIsClaimed DEF SubstituteSent, Claimed, Claiming, Claims, Routes
<1> QED
    BY <1>1, <1>3, <1>4, <1>5, NothingRecorded DEF Inv

LEMMA RefusedKeeps ==
    ASSUME Inv, SubstituteRefused
    PROVE  Inv'
<1>1. Typed'
    BY SubstituteBills DEF Inv, Typed, SubstituteRefused
<1>2. sent' = <<>> /\ pc' = "done"
    BY DEF SubstituteRefused, Inv, Undecided
<1> QED
    BY <1>1, <1>2
    DEF Inv, Undecided, Destined, Claimed, Substituting, ToUpstream, RecordSaysWhoPaid

\* The steps from the fetch on, which leave the decision and what was sent.
LEMMA EndedKeeps ==
    ASSUME Inv, UNCHANGED ended, considered' \subseteq Attempts,
           pc \in {"relay", "fetch", "refusal", "json", "stream"},
           \/ pc' = "done"
           \/ /\ Substituting /\ Substituting' /\ records' = <<>>
              /\ Billed(considered') = {"env"},
           RecordSaysWhoPaid'
    PROVE  Inv'
<1>1. Typed'
    BY DEF Inv, Typed, ended
<1>2. CallerOrigin' = CallerOrigin /\ Billed(considered)' = Billed(considered')
    BY DEF CallerOrigin, ended, Billed
<1>3. ToUpstream' = ToUpstream /\ ToAnthropic' = ToAnthropic
    BY <1>2 DEF ToUpstream, ToAnthropic, ended
<1>4. Undecided'
    BY DEF Undecided, Substituting
<1>5. Destined'
    BY <1>2, <1>3 DEF Inv, Destined, ended, Substituting
<1>6. Claimed'
    BY <1>3 DEF Inv, Claimed, ended, Claiming, Claims, Routes
<1> QED
    BY <1>1, <1>4, <1>5, <1>6 DEF Inv

LEMMA InvNext == Inv /\ [Next]_vars => Inv'
<1> SUFFICES ASSUME Inv, [Next]_vars PROVE Inv'
    OBVIOUS
<1>1. CASE Arrive
    BY <1>1, NothingRecorded
    DEF Arrive, Inv, Typed, Undecided, Destined, Claimed, Substituting, ToUpstream
<1>2. CASE Reload
    BY <1>2
    DEF Reload, Inv, Typed, Undecided, Destined, Claimed, Substituting, ToUpstream,
        ToAnthropic, CallerOrigin, PassthroughConsidered, Billed, RecordSaysWhoPaid,
        Claiming, Claims, Routes
<1>3. CASE NoBodyToPeek
    BY <1>3, NothingRecorded
    DEF NoBodyToPeek, Inv, Typed, Undecided, Destined, Claimed, Substituting, ToUpstream
<1>4. CASE NoBodyToForward
    <2>1. sent' = <<>> /\ pc' = "done"
        BY <1>4 DEF NoBodyToForward, Inv, Undecided
    <2> QED
        BY <1>4, <2>1
        DEF NoBodyToForward, Inv, Typed, Undecided, Destined, Claimed, Substituting,
            ToUpstream, RecordSaysWhoPaid
<1>5. CASE Handle
    <2>1. CASE Denied
        BY <1>5, <2>1, DenyKeeps DEF Handle, Inv, Undecided
    <2>2. CASE ~Denied
        BY <1>5, <2>2, PassthroughBills, NothingRecorded
        DEF Handle, Inv, Typed, Undecided, Destined, Claimed, Substituting, ToUpstream,
            PassthroughConsidered, CallerOrigin
    <2> QED
        BY <2>1, <2>2
<1>6. CASE BodyRead
    BY <1>6, ForwardKeeps DEF BodyRead, Inv, Undecided
<1>7. CASE RelayEnds
    <2>1. records = <<>> /\ sent' = ToAnthropic /\ considered = PassthroughConsidered
        BY <1>7 DEF RelayEnds, Inv, Undecided, Destined
    <2>2. RecordSaysWhoPaid'
        BY <1>7, <2>1, PassthroughRecorded, NothingRecorded DEF RelayEnds
    <2> QED
        BY <1>7, <2>2, EndedKeeps DEF RelayEnds, ended, Inv, Typed
<1>8. CASE DecidePassthrough
    BY <1>8, DenyKeeps, ForwardKeeps DEF DecidePassthrough, Inv, Undecided
<1>9. CASE SubstituteRefused
    BY <1>9, RefusedKeeps
<1>10. CASE SubstituteSent
    BY <1>10, SentKeeps
<1>11. CASE FetchFails \/ TextEnds \/ StreamEnds
    <2>1. /\ Substituting /\ pc' = "done" /\ records = <<>>
          /\ UNCHANGED ended /\ UNCHANGED considered
        BY <1>11
        DEF FetchFails, TextEnds, StreamEnds, Substituting, Inv, Undecided
    <2>2. sent' = ToUpstream /\ Billed(considered) = {"env"}
        BY <2>1 DEF Inv, Destined, ended
    <2>3. UNCHANGED records \/ \E status : Finish(status, considered)
        BY <1>11 DEF FetchFails, TextEnds, StreamEnds
    <2>4. RecordSaysWhoPaid'
        BY <2>1, <2>2, <2>3, SubstituteRecorded, NothingRecorded
    <2> QED
        BY <2>1, <2>4, EndedKeeps DEF Inv, Typed, Substituting
<1>12. CASE ResponseArrives
    <2>1. Substituting /\ Substituting' /\ records' = <<>> /\ UNCHANGED ended
        BY <1>12 DEF ResponseArrives, Substituting, Inv, Undecided
    <2>2. considered' \subseteq Attempts /\ Billed(considered') = {"env"}
        BY <1>12, <2>1, RejectedBills DEF ResponseArrives, Inv, Typed, Destined
    <2> QED
        BY <2>1, <2>2, NothingRecorded, EndedKeeps DEF Substituting
<1>13. CASE UNCHANGED vars
    BY <1>13
    DEF vars, Inv, Typed, Undecided, Destined, Claimed, Substituting, ToUpstream,
        ToAnthropic, CallerOrigin, PassthroughConsidered, Billed, RecordSaysWhoPaid,
        Claiming, Claims, Routes
<1> QED
    BY <1>1, <1>2, <1>3, <1>4, <1>5, <1>6, <1>7, <1>8, <1>9, <1>10, <1>11, <1>12, <1>13
    DEF Next

LEMMA InvAlways == Spec => []Inv
BY InvInit, InvNext, PTL DEF Spec

-----------------------------------------------------------------------------
(* The theorems                                                            *)

\* What Inv does not say of the types; a request is recorded only in the step
\* that ends it.
Once ==
    /\ {table, snapshot} \subseteq Tables
    /\ pc \in {"idle", "peek", "handle", "body", "relay", "fetch", "refusal",
              "json", "stream", "done"}
    /\ Len(records) <= 1

LEMMA OnceNext == Inv /\ Once /\ [Next]_vars => Once'
<1> SUFFICES ASSUME Inv, Once, [Next]_vars PROVE Once'
    OBVIOUS
<1> USE DEF Inv, Once, Undecided
<1>1. CASE Arrive \/ Reload
    BY <1>1 DEF Arrive, Reload
<1>2. CASE NoBodyToPeek \/ NoBodyToForward
    BY <1>2 DEF NoBodyToPeek, NoBodyToForward, Record
<1>3. CASE Handle \/ BodyRead \/ RelayEnds
    BY <1>3 DEF Handle, BodyRead, RelayEnds, Deny, Forward, Record
<1>4. CASE DecidePassthrough
    BY <1>4 DEF DecidePassthrough, Deny, Forward, Record
<1>5. CASE SubstituteRefused \/ SubstituteSent
    BY <1>5 DEF SubstituteRefused, SubstituteSent, Record
<1>6. CASE FetchFails \/ ResponseArrives \/ TextEnds \/ StreamEnds
    BY <1>6 DEF FetchFails, ResponseArrives, TextEnds, StreamEnds, Finish, Record, ended
<1>7. CASE UNCHANGED vars
    BY <1>7 DEF vars
<1> QED
    BY <1>1, <1>2, <1>3, <1>4, <1>5, <1>6, <1>7 DEF Next

(***************************************************************************)
(* A request makes one request upstream at most and leaves one record at   *)
(* most, on each of its ways through the dispatcher.                       *)
(***************************************************************************)
THEOREM OneRequestOneRecord == Spec => []TypeOK
<1>1. Init => Once
    BY DEF Init, Once
<1>2. Inv /\ Once => TypeOK
    <2>1. Len(<<>>) = 0 /\ Len(ToAnthropic) = 1 /\ Len(ToUpstream) = 1
        BY DEF ToAnthropic, ToUpstream
    <2> SUFFICES ASSUME Inv, Once PROVE TypeOK
        OBVIOUS
    <2>2. Len(sent) <= 1
        <3>1. sent = <<>> \/ sent = ToAnthropic \/ sent = ToUpstream
            BY DEF Inv, Destined
        <3>2. Len(sent) = 0 \/ Len(sent) = 1
            BY <2>1, <3>1, Zenon
        <3> QED
            BY <3>2
    <2>3. pc \in {"relay", "fetch", "refusal", "json", "stream"} => Len(sent) = 1
        BY <2>1 DEF Inv, Destined, Substituting
    <2>4. request \in Inbound
          /\ considered \subseteq [source : Source, result : {"used", "skipped", "missing", "rejected"}]
        BY DEF Inv, Typed, Attempts
    <2> QED
        BY <2>2, <2>3, <2>4 DEF Once, TypeOK
<1> QED
    BY <1>1, <1>2, InvAlways, OnceNext, PTL DEF Spec

(***************************************************************************)
(* A request with a credential of its own is served on the server's only   *)
(* where a route claims its model (dispatch.ts:89-100).                    *)
(***************************************************************************)
THEOREM PlanPays == Spec => []PlanPaysItsOwn
<1>1. Inv => PlanPaysItsOwn
    <2> SUFFICES ASSUME Inv, OnServerCredential, request.credential # "none"
                 PROVE  Claiming(snapshot, request.model) # {}
        BY DEF PlanPaysItsOwn
    <2>1. sent # <<>> /\ sent # ToAnthropic
        BY CallerIsNotServer DEF OnServerCredential, ToAnthropic, Inv, Typed
    <2> QED
        BY <2>1 DEF Inv, Destined, Claimed
<1> QED
    BY <1>1, InvAlways, PTL

(***************************************************************************)
(* A substituted request goes to the upstream decided, on that upstream's  *)
(* credential, or nowhere (substitute.ts:107-185).                         *)
(***************************************************************************)
THEOREM ServedWhereDecided == Spec => []NeverServedElsewhere
<1>1. Inv => NeverServedElsewhere
    BY DEF Inv, Destined, NeverServedElsewhere, ToUpstream
<1> QED
    BY <1>1, InvAlways, PTL

(***************************************************************************)
(* The record of a request that was sent upstream bills the credential it  *)
(* was sent with (substitute.ts:187-201, passthrough.ts:135-193).          *)
(***************************************************************************)
THEOREM BilledAsSent == Spec => []RecordSaysWhoPaid
BY InvAlways, PTL DEF Inv

-----------------------------------------------------------------------------
(***************************************************************************)
(* Whatever the operator saves, whichever events are lost and in whatever  *)
(* order reads end: the table in force is one that validates, and once the *)
(* poll has seen the file's mtime and nothing is in flight it is the       *)
(* file's, unless the edit was read in vain.  What makes it so is that the *)
(* poll remembers an mtime only in the step that starts a read of it: from *)
(* then on that read is in flight or a reload has dealt with the edit.     *)
(***************************************************************************)

InFlight(mtime) == \E j \in DOMAIN reads : reads[j].mtime = mtime

\* Nothing that was read, or seen, is newer than the file.
NothingNewer ==
    /\ newest <= file.mtime
    /\ \A j \in DOMAIN reads : reads[j].mtime <= file.mtime
    /\ stat # Unseen => stat <= file.mtime
    /\ seen # Unseen => seen <= file.mtime

DealtWith == newest = file.mtime /\ ~missed /\ file.is \in Saved => adopted = file.is
SeenIsRead == seen = file.mtime => newest = file.mtime \/ InFlight(file.mtime)

WatchInv == WatchTypeOK /\ NothingNewer /\ DealtWith /\ SeenIsRead

-----------------------------------------------------------------------------
(* reads that start and end *)

\* Taking one element out of a sequence leaves all the others.
LEMMA RemoveOne ==
    ASSUME NEW S, NEW s \in Seq(S), NEW i \in DOMAIN s
    PROVE  /\ RemoveAt(s, i) \in Seq(S)
           /\ Len(RemoveAt(s, i)) = Len(s) - 1
           /\ \A k \in DOMAIN RemoveAt(s, i) : \E j \in DOMAIN s : RemoveAt(s, i)[k] = s[j]
           /\ \A j \in DOMAIN s \ {i} : \E k \in DOMAIN RemoveAt(s, i) : RemoveAt(s, i)[k] = s[j]
<1> DEFINE before == SubSeq(s, 1, i - 1)
<1> DEFINE after == SubSeq(s, i + 1, Len(s))
<1> DEFINE r == before \o after
<1>1. RemoveAt(s, i) = r
    BY DEF RemoveAt
<1>2. i \in 1..Len(s) /\ Len(s) \in Nat
    OBVIOUS
<1>3. /\ before \in Seq(S) /\ Len(before) = i - 1
      /\ \A k \in 1..i - 1 : before[k] = s[k]
    BY <1>2
<1>4. /\ after \in Seq(S) /\ Len(after) = Len(s) - i
      /\ \A k \in 1..Len(s) - i : after[k] = s[k + i]
    BY <1>2
<1> HIDE DEF before, after
<1>5. /\ r \in Seq(S) /\ Len(r) = Len(s) - 1
      /\ \A k \in 1..Len(s) - 1 : r[k] = IF k < i THEN before[k] ELSE after[k - (i - 1)]
    BY <1>2, <1>3, <1>4
<1> HIDE DEF r
<1>6. /\ r \in Seq(S) /\ Len(r) = Len(s) - 1
      /\ \A k \in 1..Len(s) - 1 : r[k] = IF k < i THEN s[k] ELSE s[k + 1]
    <2>1. ASSUME NEW k \in 1..Len(s) - 1 PROVE r[k] = IF k < i THEN s[k] ELSE s[k + 1]
        <3>1. CASE k < i
            BY <1>2, <1>3, <1>5, <3>1
        <3>2. CASE k >= i
            <4>1. k - (i - 1) \in 1..Len(s) - i /\ (k - (i - 1)) + i = k + 1
                BY <1>2, <3>2
            <4>2. r[k] = after[k - (i - 1)] /\ after[k - (i - 1)] = s[(k - (i - 1)) + i]
                BY <1>2, <1>4, <1>5, <3>2, <4>1
            <4> QED
                BY <1>2, <3>2, <4>1, <4>2
        <3> QED
            BY <1>2, <3>1, <3>2
    <2> QED
        BY <1>5, <2>1
<1>7. DOMAIN r = 1..Len(s) - 1 /\ DOMAIN s = 1..Len(s)
    BY <1>6
<1>8. ASSUME NEW k \in DOMAIN r PROVE \E j \in DOMAIN s : r[k] = s[j]
    BY <1>2, <1>6, <1>7
<1>9. ASSUME NEW j \in DOMAIN s \ {i} PROVE \E k \in DOMAIN r : r[k] = s[j]
    <2>1. CASE j < i
        BY <1>2, <1>6, <1>7, <2>1
    <2>2. CASE j > i
        <3>1. j - 1 \in DOMAIN r /\ r[j - 1] = s[j]
            BY <1>2, <1>6, <1>7, <2>2
        <3> QED
            BY <3>1
    <2> QED
        BY <1>2, <1>7, <2>1, <2>2
<1> QED
    BY <1>1, <1>6, <1>8, <1>9

\* A reload puts a read of the file, as it is now, in flight.
LEMMA Reloading ==
    ASSUME WatchInv, Len(reads) < MaxReads, StartReload
    PROVE  /\ reads' \in Seq(Snapshots) /\ Len(reads') <= MaxReads
           /\ \A j \in DOMAIN reads' : reads'[j].mtime <= file.mtime
           /\ \E j \in DOMAIN reads' : reads'[j].mtime = file.mtime
<1>1. PICK is \in {file.is, Failed} : reads' = Append(reads, [is |-> is, mtime |-> file.mtime])
    BY DEF StartReload
<1> DEFINE read == [is |-> is, mtime |-> file.mtime]
<1>2. read \in Snapshots /\ reads \in Seq(Snapshots) /\ MaxReads \in Nat
    BY WatchAssumption DEF WatchInv, WatchTypeOK, Snapshots, Failed
<1>3. /\ reads' \in Seq(Snapshots) /\ Len(reads') = Len(reads) + 1
      /\ reads'[Len(reads) + 1] = read
      /\ \A j \in 1..Len(reads) : reads'[j] = reads[j]
    BY <1>1, <1>2
<1>4. file.mtime \in Int /\ Len(reads) \in Nat /\ DOMAIN reads = 1..Len(reads)
      /\ DOMAIN reads' = 1..Len(reads) + 1
    BY <1>2, <1>3 DEF WatchInv, WatchTypeOK, Snapshots
<1>5. ASSUME NEW j \in DOMAIN reads' PROVE reads'[j].mtime <= file.mtime
    <2>1. CASE j \in 1..Len(reads)
        BY <1>3, <1>4, <2>1 DEF WatchInv, NothingNewer
    <2>2. CASE j = Len(reads) + 1
        BY <1>3, <1>4, <2>2
    <2> QED
        BY <1>4, <2>1, <2>2
<1>6. reads'[Len(reads) + 1].mtime = file.mtime /\ Len(reads) + 1 \in DOMAIN reads'
    BY <1>3, <1>4
<1> QED
    BY <1>2, <1>3, <1>4, <1>5, <1>6

-----------------------------------------------------------------------------
(* the steps *)

LEMMA WatchInvInit == WatchInit => WatchInv
<1> SUFFICES ASSUME WatchInit PROVE WatchInv
    OBVIOUS
<1>1. WatchTypeOK
    <2>1. file \in Snapshots
        BY WatchAssumption DEF WatchInit, Snapshots
    <2>2. reads \in Seq(Snapshots) /\ Len(reads) <= MaxReads
        BY WatchAssumption DEF WatchInit
    <2>3. newest \in -1..MaxEdits
        BY WatchAssumption DEF WatchInit
    <2>4. {watching, timer, stopped, missed} \subseteq BOOLEAN
        BY DEF WatchInit
    <2> QED
        BY <2>1, <2>2, <2>3, <2>4 DEF WatchInit, WatchTypeOK
<1>2. file.mtime = 0
    BY DEF WatchInit
<1> QED
    BY <1>1, <1>2, WatchAssumption
    DEF WatchInit, WatchInv, NothingNewer, DealtWith, SeenIsRead

LEMMA InvEdit == WatchInv /\ Edit => WatchInv'
<1> SUFFICES ASSUME WatchInv, Edit PROVE WatchInv'
    OBVIOUS
<1>1. PICK is \in (Files \cup {NoFile}) \ {file.is} :
          file' = [is |-> is, mtime |-> file.mtime + 1]
    BY DEF Edit
<1>2. file.mtime \in 0..MaxEdits /\ file.mtime < MaxEdits /\ MaxEdits \in Nat
    BY WatchAssumption DEF WatchInv, WatchTypeOK, Edit, Snapshots
<1>3. file' \in Snapshots /\ file'.mtime = file.mtime + 1
    BY <1>1, <1>2 DEF Snapshots
<1>4. WatchTypeOK'
    <2>1. {watching', timer', stopped', missed'} \subseteq BOOLEAN
        BY DEF Edit, WatchInv, WatchTypeOK
    <2> QED
        BY <1>3, <2>1 DEF Edit, WatchInv, WatchTypeOK
<1>5. \A j \in DOMAIN reads : reads[j].mtime \in Int
    <2> SUFFICES ASSUME NEW j \in DOMAIN reads PROVE reads[j].mtime \in Int
        OBVIOUS
    <2>1. reads \in Seq(Snapshots)
        BY DEF WatchInv, WatchTypeOK
    <2>2. reads[j] \in Snapshots
        BY <2>1
    <2> QED
        BY <2>2 DEF Snapshots
<1>6. NothingNewer'
    BY <1>2, <1>3, <1>5 DEF Edit, WatchInv, WatchTypeOK, NothingNewer
<1>7. newest' # file'.mtime /\ seen' # file'.mtime
    BY <1>2, <1>3, WatchAssumption DEF Edit, WatchInv, WatchTypeOK, NothingNewer
<1> QED
    BY <1>4, <1>6, <1>7 DEF WatchInv, DealtWith, SeenIsRead

LEMMA InvReload ==
    WatchInv /\ (SettleTimerFires \/ StatAnswers) => WatchInv'
<1>1. ASSUME WatchInv, SettleTimerFires PROVE WatchInv'
    <2>1. StartReload /\ Len(reads) < MaxReads
        BY <1>1 DEF SettleTimerFires
    <2> QED
        BY <1>1, <2>1, Reloading
        DEF SettleTimerFires, WatchInv, WatchTypeOK, NothingNewer, DealtWith, SeenIsRead, InFlight
<1>2. ASSUME WatchInv, StatAnswers PROVE WatchInv'
    <2>1. CASE UNCHANGED <<seen, reads>>
        BY <1>2, <2>1
        DEF StatAnswers, WatchInv, WatchTypeOK, NothingNewer, DealtWith, SeenIsRead, InFlight
    <2>2. CASE Changed(stat)
        <3>1. StartReload /\ Len(reads) < MaxReads /\ seen' = stat /\ stat # Unseen
            BY <1>2, <2>2 DEF StatAnswers, Changed
        <3> QED
            BY <1>2, <3>1, Reloading
            DEF StatAnswers, WatchInv, WatchTypeOK, NothingNewer, DealtWith, SeenIsRead, InFlight
    <2> QED
        BY <1>2, <2>1, <2>2 DEF StatAnswers
<1> QED
    BY <1>1, <1>2

LEMMA InvReadEnds ==
    ASSUME WatchInv, NEW i \in DOMAIN reads, ReadEnds(i)
    PROVE  WatchInv'
<1> DEFINE read == reads[i]
<1>1. read \in Snapshots /\ read.mtime \in 0..MaxEdits /\ read.mtime <= file.mtime
      /\ read.is \in Files \cup {NoFile}
    <2>1. reads \in Seq(Snapshots)
        BY DEF WatchInv, WatchTypeOK
    <2>2. read \in Snapshots
        BY <2>1
    <2>3. read.mtime <= file.mtime
        BY DEF WatchInv, NothingNewer
    <2> QED
        BY <2>2, <2>3 DEF Snapshots
<1>2. /\ adopted' = IF read.is # Failed /\ Valid(read.is) THEN read.is ELSE adopted
      /\ reads' = RemoveAt(reads, i)
      /\ newest' = IF read.mtime > newest THEN read.mtime ELSE newest
      /\ missed' = \/ missed
                   \/ read.mtime = file.mtime /\ read.is # file.is
                   \/ read.mtime < newest /\ newest = file.mtime
      /\ UNCHANGED <<file, watching, timer, stat, seen, stopped>>
    BY DEF ReadEnds, Install
<1>3. /\ reads' \in Seq(Snapshots) /\ Len(reads') = Len(reads) - 1
      /\ \A k \in DOMAIN reads' : \E j \in DOMAIN reads : reads'[k] = reads[j]
      /\ \A j \in DOMAIN reads \ {i} : \E k \in DOMAIN reads' : reads'[k] = reads[j]
    BY <1>2, RemoveOne DEF WatchInv, WatchTypeOK
<1>4. file.mtime \in 0..MaxEdits /\ newest \in -1..MaxEdits /\ MaxEdits \in Nat
      /\ newest <= file.mtime /\ MaxReads \in Nat
    BY WatchAssumption DEF WatchInv, WatchTypeOK, NothingNewer, Snapshots
<1>5. WatchTypeOK'
    <2>1. adopted' \in Saved
        BY <1>1, <1>2 DEF WatchInv, WatchTypeOK, Saved, Failed
    <2>2. Len(reads') <= MaxReads
        BY <1>3, <1>4 DEF WatchInv, WatchTypeOK
    <2>3. newest' \in -1..MaxEdits /\ missed' \in BOOLEAN
        BY <1>1, <1>2, <1>4
    <2> QED
        BY <1>2, <1>3, <2>1, <2>2, <2>3 DEF WatchInv, WatchTypeOK
<1>6. NothingNewer'
    <2>1. newest' <= file'.mtime
        BY <1>1, <1>2, <1>4
    <2>2. \A k \in DOMAIN reads' : reads'[k].mtime <= file'.mtime
        BY <1>2, <1>3 DEF WatchInv, NothingNewer
    <2> QED
        BY <1>2, <2>1, <2>2 DEF WatchInv, NothingNewer
<1>7. DealtWith'
    <2> SUFFICES ASSUME newest' = file.mtime, ~missed', file.is \in Saved PROVE adopted' = file.is
        BY <1>2 DEF DealtWith, Saved
    <2>1. CASE read.mtime = file.mtime
        <3>1. read.is = file.is
            BY <1>2, <2>1
        <3>2. file.is # Failed /\ Valid(file.is)
            BY WatchAssumption DEF Saved, Failed
        <3> QED
            BY <1>2, <3>1, <3>2
    <2>2. CASE read.mtime # file.mtime
        <3>1. newest = file.mtime
            BY <1>2, <2>2
        <3>2. read.mtime < newest
            BY <1>1, <1>4, <2>2, <3>1
        <3> QED
            BY <1>2, <3>1, <3>2
    <2> QED
        BY <2>1, <2>2
<1>8. SeenIsRead'
    <2> SUFFICES ASSUME seen = file.mtime, newest' # file.mtime
                 PROVE  \E k \in DOMAIN reads' : reads'[k].mtime = file.mtime
        BY <1>2 DEF SeenIsRead, InFlight
    <2>1. read.mtime # file.mtime /\ newest # file.mtime
        BY <1>1, <1>2, <1>4
    <2>2. PICK j \in DOMAIN reads : reads[j].mtime = file.mtime
        BY <2>1 DEF WatchInv, SeenIsRead, InFlight
    <2> QED
        BY <1>3, <2>1, <2>2
<1> QED
    BY <1>5, <1>6, <1>7, <1>8 DEF WatchInv

LEMMA WatchInvNext == WatchInv /\ [WatchNext]_watchVars => WatchInv'
<1> SUFFICES ASSUME WatchInv, [WatchNext]_watchVars PROVE WatchInv'
    OBVIOUS
<1>1. CASE Edit
    BY <1>1, InvEdit
<1>2. CASE SettleTimerFires \/ StatAnswers
    BY <1>2, InvReload
<1>3. CASE Poll
    BY <1>3 DEF Poll, WatchInv, WatchTypeOK, Snapshots, NothingNewer, DealtWith, SeenIsRead, InFlight
<1>4. CASE \E i \in DOMAIN reads : ReadEnds(i)
    BY <1>4, InvReadEnds
<1>5. CASE Stop
    BY <1>5 DEF Stop, WatchInv, WatchTypeOK, NothingNewer, DealtWith, SeenIsRead, InFlight
<1>6. CASE UNCHANGED watchVars
    BY <1>6 DEF watchVars, WatchInv, WatchTypeOK, NothingNewer, DealtWith, SeenIsRead, InFlight
<1> QED
    BY <1>1, <1>2, <1>3, <1>4, <1>5, <1>6 DEF WatchNext

-----------------------------------------------------------------------------
\* What the poll has seen is in force, and never a file that does not validate
\* (watch.ts:35-40): for any files, any number of edits and of reads in flight.
THEOREM WhatIsSeenIsInForce == WatchSpec => []SeenIsInForce
<1>1. WatchInv => SeenIsInForce
    <2> SUFFICES ASSUME WatchInv, Quiet, seen = file.mtime, ~missed, file.is \in Saved
                 PROVE  adopted = file.is
        BY DEF SeenIsInForce, WatchInv
    <2>1. ~InFlight(file.mtime)
        BY DEF Quiet, InFlight
    <2> QED
        BY <2>1 DEF WatchInv, SeenIsRead, DealtWith
<1> QED
    BY <1>1, WatchInvInit, WatchInvNext, PTL DEF WatchSpec
=============================================================================
