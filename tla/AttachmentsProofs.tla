--------------------------- MODULE AttachmentsProofs ---------------------------
(***************************************************************************)
(* Proofs about Attachments, for any users, keys, types, limits, number of *)
(* pods and outages: what a message says of its attachment stays true, and *)
(* a bootstrap gives up only on a store that keeps failing it.             *)
(***************************************************************************)
EXTENDS Attachments, TLAPS

(* A policy is signed for an allowed type, and an object that is stored,   *)
(* or being uploaded, was admitted by the policy of its key.               *)
Admitted(k, o) == /\ policy[k] # None
                  /\ o.type = policy[k].type
                  /\ o.size <= MaxBytes

PoliciesHold == \A k \in Keys :
    /\ policy[k] # None => policy[k].type \in Allowed
    /\ object[k] # None => Admitted(k, object[k])
    /\ \A o \in posting[k] : Admitted(k, o)

(* What a send has seen: an object under the sender's key, which, if the   *)
(* policy had expired, only an upload that was under way may replace.      *)
Seen(m) == /\ OwnerOf[m.key] = m.by
           /\ object[m.key] # None
           /\ m.mime = policy[m.key].type
           /\ m.at <= now
           /\ m.at >= policy[m.key].until =>
                 /\ object[m.key].version \in {m.version} \cup m.under
                 /\ \A o \in posting[m.key] : o.version \in m.under

SendsHold == \A m \in checked \cup sent : Seen(m)

Fits == TypeOK /\ PoliciesHold /\ SendsHold

LEMMA InitFits == Init => Fits
<1>1. 0 \in 0..MaxTime /\ 0 \in 0..Attempts /\ 0 \in 0..MaxOutages /\ 0 \in 0..MaxUploads
  BY AttachmentAssumption
<1>2. Init => TypeOK
  <2> SUFFICES ASSUME Init PROVE TypeOK
    OBVIOUS
  <2>1. /\ now \in 0..MaxTime
        /\ policy \in [Keys -> Policy \cup {None}]
        /\ posts \in [Keys -> 0..MaxUploads]
        /\ posting \in [Keys -> SUBSET Object]
        /\ object \in [Keys -> Object \cup {None}]
        /\ checked \subseteq Send /\ sent \subseteq Send
    BY <1>1 DEF Init
  <2>2. /\ bucket \in BOOLEAN
        /\ job \in [Pods -> {"head", "create", "serving", "failed"}]
        /\ failed \in [Pods -> 0..Attempts]
        /\ outages \in [Pods -> 0..MaxOutages]
    BY <1>1 DEF Init
  <2> QED BY <2>1, <2>2 DEF TypeOK
<1>3. Init => PoliciesHold /\ SendsHold
  BY DEF Init, PoliciesHold, SendsHold
<1> QED BY <1>2, <1>3 DEF Fits

LEMMA PresignFits ==
  ASSUME Fits, NEW k \in Keys, NEW t \in Types, NEW n \in 0..MaxSize, Presign(k, t, n)
  PROVE  Fits'
<1> USE AttachmentAssumption DEF Fits
<1>1. /\ SignedFor(t) \in Policy /\ SignedFor(t) # None
      /\ SignedFor(t).type \in Allowed
  BY DEF Presign, SignedFor, Policy, TypeOK
<1>2. /\ policy' = [policy EXCEPT ![k] = SignedFor(t)] /\ policy[k] = None
      /\ UNCHANGED <<now, posts, posting, object, checked, sent, bucket, job, failed, outages>>
  BY DEF Presign, uploads, boot
<1>3. TypeOK'
  BY <1>1, <1>2 DEF TypeOK
<1>4. PoliciesHold'
  BY <1>1, <1>2 DEF TypeOK, PoliciesHold, Admitted
<1>5. object[k] = None
  BY <1>2 DEF PoliciesHold, Admitted
<1>6. SendsHold'
  <2>1. ASSUME NEW m \in checked \cup sent PROVE Seen(m)'
    <3>1. Seen(m) /\ m.key # k
      BY <1>5 DEF SendsHold, Seen
    <3>2. policy'[m.key] = policy[m.key]
      BY <1>2, <3>1 DEF TypeOK
    <3> QED BY <1>2, <3>1, <3>2 DEF Seen
  <2> QED BY <1>2, <2>1 DEF SendsHold
<1> QED BY <1>3, <1>4, <1>6

LEMMA BeginFits ==
  ASSUME Fits, NEW k \in Keys, NEW t \in Types, NEW n \in 0..MaxSize, BeginUpload(k, t, n)
  PROVE  Fits'
<1> USE AttachmentAssumption DEF Fits
<1> DEFINE o == [type |-> t, size |-> n, version |-> posts[k] + 1]
<1>1. /\ policy[k] # None /\ t = policy[k].type /\ n \in 1..MaxBytes /\ now < policy[k].until
      /\ posts[k] < MaxUploads /\ posts' = [posts EXCEPT ![k] = @ + 1]
      /\ posting' = [posting EXCEPT ![k] = @ \cup {o}]
      /\ UNCHANGED <<now, policy, object, checked, sent, bucket, job, failed, outages>>
  BY DEF BeginUpload, Admits, boot
<1>2. posts[k] \in Nat /\ posts' \in [Keys -> 0..MaxUploads]
  BY <1>1 DEF TypeOK
<1>3. o \in Object
  BY <1>1, <1>2 DEF Object
<1>4. TypeOK'
  BY <1>1, <1>2, <1>3 DEF TypeOK
<1>5. PoliciesHold'
  BY <1>1, <1>3 DEF TypeOK, PoliciesHold, Admitted
<1>6. SendsHold'
  <2>1. ASSUME NEW m \in checked \cup sent PROVE Seen(m)'
    <3>1. Seen(m) /\ m.key \in Keys /\ m.at \in Nat /\ now \in Nat
      BY DEF SendsHold, TypeOK, Send
    <3>2. CASE m.key = k
      <4>1. policy[k].until \in Nat
        BY <1>1 DEF TypeOK, Policy
      <4>2. ~(m.at >= policy[k].until)
        BY <1>1, <3>1, <3>2, <4>1 DEF Seen
      <4> QED BY <1>1, <3>1, <3>2, <4>2 DEF Seen
    <3>3. CASE m.key # k
      <4>1. posting'[m.key] = posting[m.key]
        BY <1>1, <3>1, <3>3 DEF TypeOK
      <4> QED BY <1>1, <3>1, <4>1 DEF Seen
    <3> QED BY <3>2, <3>3
  <2> QED BY <1>1, <2>1 DEF SendsHold
<1> QED BY <1>4, <1>5, <1>6

LEMMA EndFits ==
  ASSUME Fits, NEW k \in Keys, NEW o \in posting[k], EndUpload(k, o)
  PROVE  Fits'
<1> USE AttachmentAssumption DEF Fits
<1>1. /\ posting' = [posting EXCEPT ![k] = @ \ {o}] /\ object' = [object EXCEPT ![k] = o]
      /\ UNCHANGED <<now, policy, posts, checked, sent, bucket, job, failed, outages>>
  BY DEF EndUpload, boot
<1>2. o \in Object /\ o # None
  BY DEF TypeOK
<1>3. TypeOK'
  BY <1>1, <1>2 DEF TypeOK
<1>4. PoliciesHold'
  BY <1>1, <1>2 DEF TypeOK, PoliciesHold, Admitted
<1>5. SendsHold'
  <2>1. ASSUME NEW m \in checked \cup sent PROVE Seen(m)'
    <3>1. Seen(m) /\ m.key \in Keys
      BY DEF SendsHold, TypeOK, Send
    <3>2. CASE m.key = k
      <4>1. object'[k] = o /\ posting'[k] \subseteq posting[k]
        BY <1>1 DEF TypeOK
      <4> QED BY <1>1, <1>2, <3>1, <3>2, <4>1 DEF Seen
    <3>3. CASE m.key # k
      <4>1. object'[m.key] = object[m.key] /\ posting'[m.key] = posting[m.key]
        BY <1>1, <3>1, <3>3 DEF TypeOK
      <4> QED BY <1>1, <3>1, <4>1 DEF Seen
    <3> QED BY <3>2, <3>3
  <2> QED BY <1>1, <2>1 DEF SendsHold
<1> QED BY <1>3, <1>4, <1>5

LEMMA CheckFits ==
  ASSUME Fits, NEW u \in Users, NEW k \in Keys, Check(u, k)
  PROVE  Fits'
<1> USE DEF Fits
<1> DEFINE m == [by |-> u, key |-> k, mime |-> object[k].type,
                 version |-> object[k].version, at |-> now,
                 under |-> {o.version : o \in posting[k]}]
<1>1. /\ OwnerOf[k] = u /\ object[k] # None /\ checked' = checked \cup {m}
      /\ UNCHANGED <<now, policy, posts, posting, object, sent, bucket, job, failed, outages>>
  BY DEF Check, MayName, uploads, boot
<1>2. object[k] \in Object /\ now \in Nat
  BY <1>1 DEF TypeOK
<1>3. m \in Send
  <2>1. m.under \subseteq Nat
    BY DEF TypeOK, Object
  <2> QED BY <1>2, <2>1 DEF Send, Object
<1>4. Seen(m)
  BY <1>1, <1>2 DEF Seen, PoliciesHold, Admitted
<1>5. TypeOK'
  BY <1>1, <1>3 DEF TypeOK
<1>6. PoliciesHold'
  BY <1>1 DEF PoliciesHold, Admitted
<1>7. SendsHold'
  BY <1>1, <1>4 DEF SendsHold, Seen
<1> QED BY <1>5, <1>6, <1>7

LEMMA BootstrapFits ==
  ASSUME Fits, NEW p \in Pods, Bootstrap(p)
  PROVE  UNCHANGED <<now, policy, posts, posting, object, checked, sent>>
BY DEF Bootstrap, HeadBucket, HeadFails, CreateBucket, CreateFails, store, uploads

(* How many attempts a bootstrap may have lost: one to a race, once there  *)
(* is a bucket, and the others to the store.                               *)
LossesHold ==
    /\ Serving => bucket
    /\ \A p \in Pods :
         /\ failed[p] <= outages[p] + (IF bucket THEN 1 ELSE 0)
         /\ job[p] = "create" => failed[p] <= outages[p]
         /\ job[p] \in {"head", "create"} => failed[p] < Attempts
         /\ job[p] = "failed" => failed[p] = Attempts

BootTyped == /\ bucket \in BOOLEAN
             /\ job \in [Pods -> {"head", "create", "serving", "failed"}]
             /\ failed \in [Pods -> 0..Attempts]
             /\ outages \in [Pods -> 0..MaxOutages]

LEMMA BootstrapStep ==
  ASSUME BootTyped, LossesHold, NEW p \in Pods, Bootstrap(p)
  PROVE  BootTyped' /\ LossesHold'
<1> USE AttachmentAssumption DEF BootTyped, LossesHold, Serving
<1>1. failed[p] \in Nat /\ outages[p] \in Nat /\ Attempts \in Nat
  OBVIOUS
<1>2. CASE HeadBucket(p)
  BY <1>2 DEF HeadBucket, Goto
<1>3. ASSUME AttemptFails(p), failed[p] < Attempts
      PROVE  /\ job' \in [Pods -> {"head", "create", "serving", "failed"}]
             /\ failed' \in [Pods -> 0..Attempts]
             /\ failed'[p] = failed[p] + 1
             /\ job'[p] = IF failed'[p] = Attempts THEN "failed" ELSE "head"
             /\ \A q \in Pods \ {p} : job'[q] = job[q] /\ failed'[q] = failed[q]
  BY <1>1, <1>3 DEF AttemptFails, Goto, Retry
<1>4. ASSUME Outage(p)
      PROVE  /\ outages' \in [Pods -> 0..MaxOutages]
             /\ outages'[p] = outages[p] + 1
             /\ \A q \in Pods \ {p} : outages'[q] = outages[q]
  BY <1>1, <1>4 DEF Outage
<1>5. CASE HeadFails(p)
  <2>1. Outage(p) /\ job[p] = "head" /\ bucket' = bucket /\ failed[p] < Attempts
    BY <1>5 DEF HeadFails
  <2>2. CASE Goto(p, "create") /\ UNCHANGED failed
    BY <1>1, <1>4, <2>1, <2>2 DEF Goto
  <2>3. CASE AttemptFails(p)
    BY <1>1, <1>3, <1>4, <2>1, <2>3
  <2> QED BY <1>5, <2>2, <2>3 DEF HeadFails
<1>6. CASE CreateBucket(p)
  <2>1. /\ job[p] = "create" /\ bucket' = TRUE /\ outages' = outages
        /\ failed[p] < Attempts /\ failed[p] <= outages[p]
    BY <1>6 DEF CreateBucket
  <2>2. CASE Goto(p, "serving") /\ UNCHANGED failed
    BY <1>1, <2>1, <2>2 DEF Goto
  <2>3. CASE AttemptFails(p)
    BY <1>1, <1>3, <2>1, <2>3
  <2> QED BY <1>6, <2>2, <2>3 DEF CreateBucket
<1>7. CASE CreateFails(p)
  <2>1. /\ job[p] = "create" /\ (bucket' = TRUE \/ bucket' = bucket) /\ Outage(p) /\ AttemptFails(p)
        /\ failed[p] < Attempts /\ failed[p] <= outages[p]
    BY <1>7 DEF CreateFails
  <2>2. bucket' \in BOOLEAN /\ (bucket => bucket')
    <3>1. bucket \in BOOLEAN
      OBVIOUS
    <3>2. CASE bucket' = TRUE
      BY ONLY <3>2
    <3>3. CASE bucket' = bucket
      BY ONLY <3>1, <3>3
    <3> QED BY <2>1, <3>2, <3>3
  <2>3. /\ failed'[p] = failed[p] + 1 /\ outages'[p] = outages[p] + 1
        /\ job'[p] = IF failed'[p] = Attempts THEN "failed" ELSE "head"
        /\ \A q \in Pods \ {p} : /\ job'[q] = job[q] /\ failed'[q] = failed[q]
                                /\ outages'[q] = outages[q]
    BY <1>3, <1>4, <2>1
  <2>4. BootTyped'
    BY <1>3, <1>4, <2>1, <2>2
  <2>5. Serving' => bucket'
    BY <2>2, <2>3
  <2>6. ASSUME NEW q \in Pods
        PROVE  /\ failed'[q] <= outages'[q] + (IF bucket' THEN 1 ELSE 0)
               /\ job'[q] = "create" => failed'[q] <= outages'[q]
               /\ job'[q] \in {"head", "create"} => failed'[q] < Attempts
               /\ job'[q] = "failed" => failed'[q] = Attempts
    <3>1. failed[q] \in Nat /\ outages[q] \in Nat
      OBVIOUS
    <3>2. CASE q = p
      BY <1>1, <2>1, <2>3, <3>2
    <3>3. CASE q # p
      BY <2>2, <2>3, <3>1, <3>3
    <3> QED BY <3>2, <3>3
  <2> QED BY <2>4, <2>5, <2>6
<1> QED BY <1>2, <1>5, <1>6, <1>7 DEF Bootstrap

(* The types and what the policies and the sends rest on, in every state.  *)
LEMMA Step == Fits /\ LossesHold /\ [Next]_vars => Fits' /\ LossesHold'
<1> SUFFICES ASSUME Fits, LossesHold, [Next]_vars PROVE Fits' /\ LossesHold'
  OBVIOUS
<1>0. BootTyped
  BY DEF Fits, TypeOK, BootTyped
<1>1. ASSUME UNCHANGED boot PROVE LossesHold'
  BY <1>1 DEF boot, LossesHold, Serving
<1>2. CASE Tick
  <2>1. Fits'
    BY <1>2, AttachmentAssumption
       DEF Tick, Fits, TypeOK, PoliciesHold, Admitted, SendsHold, Seen, store, uploads,
           boot, Send
  <2> QED BY <1>1, <1>2, <2>1 DEF Tick
<1>3. ASSUME NEW k \in Keys, NEW t \in Types, NEW n \in 0..MaxSize,
             Presign(k, t, n) \/ BeginUpload(k, t, n)
      PROVE  Fits' /\ LossesHold'
  BY <1>1, <1>3, PresignFits, BeginFits DEF Presign, BeginUpload
<1>8. ASSUME NEW k \in Keys, NEW o \in posting[k], EndUpload(k, o)
      PROVE  Fits' /\ LossesHold'
  BY <1>1, <1>8, EndFits DEF EndUpload
<1>4. ASSUME NEW u \in Users, NEW k \in Keys, Check(u, k) PROVE Fits' /\ LossesHold'
  BY <1>1, <1>4, CheckFits DEF Check
<1>5. ASSUME NEW m \in checked, Commit(m) \/ Abandon(m) PROVE Fits' /\ LossesHold'
  <2>1. /\ checked' \subseteq checked /\ sent' \subseteq sent \cup checked
        /\ UNCHANGED <<now, policy, posts, posting, object, bucket, job, failed, outages>>
    BY <1>5 DEF Commit, Abandon, uploads, boot
  <2>2. Fits'
    BY <2>1 DEF Fits, TypeOK, PoliciesHold, Admitted, SendsHold, Seen
  <2> QED BY <1>1, <2>1, <2>2 DEF boot
<1>6. ASSUME NEW p \in Pods, Bootstrap(p) PROVE Fits' /\ LossesHold'
  <2>1. UNCHANGED <<now, policy, posts, posting, object, checked, sent>>
    BY <1>6, BootstrapFits
  <2>2. BootTyped' /\ LossesHold'
    BY <1>0, <1>6, BootstrapStep
  <2> QED BY <2>1, <2>2 DEF Fits, TypeOK, BootTyped, PoliciesHold, Admitted, SendsHold, Seen
<1>7. CASE UNCHANGED vars
  BY <1>1, <1>7 DEF vars, store, uploads, boot, Fits, TypeOK, PoliciesHold, Admitted,
                       SendsHold, Seen
<1> QED BY <1>2, <1>3, <1>4, <1>5, <1>6, <1>7, <1>8 DEF Next

LEMMA Always == Spec => [](Fits /\ LossesHold)
<1>1. Init => LossesHold
  BY AttachmentAssumption DEF Init, LossesHold, Serving
<1> QED BY <1>1, InitFits, Step, PTL DEF Spec

-----------------------------------------------------------------------------
(* The state of the attachments is well typed.                             *)
THEOREM TypeCorrect == Spec => []TypeOK
<1>1. Fits => TypeOK
  BY DEF Fits
<1> QED BY <1>1, Always, PTL

(* The limits the API signs into a policy are the limits the service       *)
(* checks when the message is sent.                                        *)
THEOREM AcceptsUploads == Spec => []UploadsAccepted
<1>1. Fits => UploadsAccepted
  BY DEF Fits, PoliciesHold, Admitted, UploadsAccepted, Acceptable
<1> QED BY <1>1, Always, PTL

(* What a message says of its attachment stays true, whatever is uploaded  *)
(* over it after HEAD.                                                     *)
THEOREM MessagesStaySound == Spec => []AttachmentsSound
<1>1. Fits => AttachmentsSound
  BY DEF Fits, PoliciesHold, Admitted, SendsHold, Seen, AttachmentsSound, Acceptable, TypeOK, Send
<1> QED BY <1>1, Always, PTL

(* After its policy has expired an attachment is only replaced by an       *)
(* upload that was under way when the message was checked.                 *)
THEOREM ExpiredIsKept == Spec => []CheckedIsKept
<1>1. Fits => CheckedIsKept
  BY DEF Fits, SendsHold, Seen, CheckedIsKept
<1> QED BY <1>1, Always, PTL

(* A pod that serves has a bucket, and one that gives up met a store that  *)
(* failed every attempt but one.                                           *)
THEOREM BootstrapCorrect == Spec => []BootstrapSound
<1>1. Fits /\ LossesHold => BootstrapSound
  BY AttachmentAssumption DEF Fits, TypeOK, LossesHold, BootstrapSound
<1> QED BY <1>1, Always, PTL
===============================================================================
