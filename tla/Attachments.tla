----------------------------- MODULE Attachments -----------------------------
(***************************************************************************)
(* Attachments: app/storage.py, the presign handler of app/api/v1.py and   *)
(* ChatService._check_attachment.  The API signs a POST policy for a fresh *)
(* key; the client uploads to the object store as often as it likes until  *)
(* the policy expires: the store enforces the policy when an upload begins *)
(* and has the object when it ends; a message that names the key is        *)
(* committed some time after the object was looked at with HEAD.           *)
(* app/bootstrap.py, which every pod runs before it serves, creates the    *)
(* bucket.  One clock serves the API and the store.                        *)
(***************************************************************************)
EXTENDS Naturals, FiniteSets

CONSTANTS
    Users,
    Keys,        \* object keys: "u/<user>/<uuid7>"
    OwnerOf,     \* the user in a key's prefix
    Types,       \* content types as clients spell them
    Normal,      \* presign's normal form of one: no parameters, lower case
    Allowed,     \* attachment_allowed_mime
    MaxBytes,    \* attachment_max_bytes
    Expiry,      \* presign_expiry_seconds
    Pods,        \* the pods that start, each with its bootstrap
    Attempts,    \* of a bootstrap
    MaxTime, MaxSize, MaxUploads, MaxSends, MaxOutages,   \* bounds
    None

Policy == [type : Types, until : Nat]
Object == [type : Types, size : 1..MaxBytes, version : Nat]
Send   == [by : Users, key : Keys, mime : Types, version : Nat, at : Nat,
           under : SUBSET Nat]

ASSUME AttachmentAssumption ==
    /\ OwnerOf \in [Keys -> Users]
    /\ Normal \in [Types -> Types] /\ Allowed \subseteq Types
    /\ MaxBytes \in Nat /\ Expiry \in Nat /\ Attempts \in Nat \ {0}
    /\ None \notin Policy /\ None \notin Object
    /\ MaxTime \in Nat /\ MaxUploads \in Nat /\ MaxSends \in Nat /\ MaxOutages \in Nat

VARIABLES
    now,
    policy,    \* the POST policy signed for each key
    posts,     \* how many uploads it has admitted; an object's version is
               \* the number of its upload
    posting,   \* what is being uploaded to each key
    object,    \* what is stored under it
    checked,   \* sends that have looked at their attachment, not yet committed;
               \* under (history): the uploads that were under way then
    sent,      \* the messages with an attachment
    bucket,    \* whether it exists
    job,       \* where each pod's bootstrap is
    failed,    \* its failed attempts
    outages    \* history: how often the store failed it

uploads == <<posts, posting>>
store == <<policy, uploads, object, checked, sent>>
boot  == <<bucket, job, failed, outages>>
vars  == <<now, store, boot>>

Init == /\ now = 0
        /\ policy = [k \in Keys |-> None]
        /\ posts = [k \in Keys |-> 0]
        /\ posting = [k \in Keys |-> {}]
        /\ object = [k \in Keys |-> None]
        /\ checked = {} /\ sent = {}
        /\ bucket = FALSE
        /\ job = [p \in Pods |-> "head"]
        /\ failed = [p \in Pods |-> 0]
        /\ outages = [p \in Pods |-> 0]

Tick == /\ now < MaxTime
        /\ now' = now + 1
        /\ UNCHANGED <<store, boot>>

Serving == \E p \in Pods : job[p] = "serving"

-----------------------------------------------------------------------------
(* Uploading *)

(* MUTANT: the policy is signed for the content type as it was spelled. *)
AsSpelled(t) == [type |-> t, until |-> now + Expiry]

(* What presign_upload signs. *)
SignedFor(t) == [type |-> Normal[t], until |-> now + Expiry]

(* POST /v1/attachments/presign: t is the declared type, n the size.       *)
Presign(k, t, n) ==
    /\ Serving
    /\ policy[k] = None            \* uuid7() is fresh
    /\ Normal[t] \in Allowed       \* else 415
    /\ n <= MaxBytes               \* else 413
    /\ policy' = [policy EXCEPT ![k] = SignedFor(t)]
    /\ UNCHANGED <<now, uploads, object, checked, sent, boot>>

(* MUTANT: no Content-Type among the conditions. *)
AnyType(k, t, n) == n \in 1..MaxBytes /\ now < policy[k].until

(* MUTANT: no content-length-range. *)
AnySize(k, t, n) == t = policy[k].type /\ now < policy[k].until

(* MUTANT: the policy does not expire. *)
AnyTime(k, t, n) == t = policy[k].type /\ n \in 1..MaxBytes

(* The conditions of the policy, as the store enforces them. *)
Admits(k, t, n) == /\ t = policy[k].type
                   /\ n \in 1..MaxBytes
                   /\ now < policy[k].until

(* The holder of the policy begins to post n bytes as type t: the store    *)
(* has the whole form, and with it the policy, before the file.            *)
BeginUpload(k, t, n) ==
    /\ bucket /\ policy[k] # None
    /\ posts[k] < MaxUploads
    /\ Admits(k, t, n)
    /\ posts' = [posts EXCEPT ![k] = @ + 1]
    /\ posting' = [posting EXCEPT ![k] = @ \cup {[type |-> t, size |-> n,
                                                  version |-> posts[k] + 1]}]
    /\ UNCHANGED <<now, policy, object, checked, sent, boot>>

(* The last byte has come, at any later time or never: the object is       *)
(* there, also in place of one that already was.                           *)
EndUpload(k, o) ==
    /\ posting' = [posting EXCEPT ![k] = @ \ {o}]
    /\ object' = [object EXCEPT ![k] = o]
    /\ UNCHANGED <<now, policy, posts, checked, sent, boot>>

-----------------------------------------------------------------------------
(* Sending a message that names the key *)

(* _check_attachment up to the HEAD that finds something. *)
MayName(u, k) == OwnerOf[k] = u /\ object[k] # None

(* What it accepts of what it found: else 413 or 415. *)
Acceptable(o) == o.size <= MaxBytes /\ o.type \in Allowed

Check(u, k) ==
    /\ Serving
    /\ Cardinality(checked \cup sent) < MaxSends
    /\ MayName(u, k)
    /\ Acceptable(object[k])
    /\ checked' = checked \cup {[by |-> u, key |-> k, mime |-> object[k].type,
                                 version |-> object[k].version, at |-> now,
                                 under |-> {o.version : o \in posting[k]}]}
    /\ UNCHANGED <<now, policy, uploads, object, sent, boot>>

(* The rest of send_message: the message is committed, with the mime type  *)
(* that was found ...                                                      *)
Commit(m) == /\ checked' = checked \ {m}
             /\ sent' = sent \cup {m}
             /\ UNCHANGED <<now, policy, uploads, object, boot>>

(* ... or the handler fails, or finds that a retry was there first.        *)
Abandon(m) == /\ checked' = checked \ {m}
              /\ UNCHANGED <<now, policy, uploads, object, sent, boot>>

-----------------------------------------------------------------------------
(* The bootstrap of pod p: HEAD the bucket, create it on any client error, *)
(* and start over on every other error                                     *)

Goto(p, label) == job' = [job EXCEPT ![p] = label]

(* MUTANT: an attempt that failed to create the bucket tries to create it. *)
RetryCreates == "create"

Retry == "head"

AttemptFails(p) == /\ failed' = [failed EXCEPT ![p] = @ + 1]
                   /\ Goto(p, IF failed[p] + 1 = Attempts THEN "failed" ELSE Retry)

Outage(p) == /\ outages[p] < MaxOutages
             /\ outages' = [outages EXCEPT ![p] = @ + 1]

HeadBucket(p) ==
    /\ job[p] = "head"
    /\ Goto(p, IF bucket THEN "serving" ELSE "create")
    /\ UNCHANGED <<now, store, bucket, failed, outages>>

(* The store is unwell: it answers with an error, or not at all.           *)
HeadFails(p) ==
    /\ job[p] = "head"
    /\ Outage(p)
    /\ \/ Goto(p, "create") /\ UNCHANGED failed
       \/ AttemptFails(p)
    /\ UNCHANGED <<now, store, bucket>>

(* A region may answer 409 to the owner of the bucket.                     *)
CreateBucket(p) ==
    /\ job[p] = "create"
    /\ bucket' = TRUE
    /\ \/ Goto(p, "serving") /\ UNCHANGED failed
       \/ bucket /\ AttemptFails(p)
    /\ UNCHANGED <<now, store, outages>>

(* It is unwell again; the bucket may have been created all the same.      *)
CreateFails(p) ==
    /\ job[p] = "create"
    /\ Outage(p)
    /\ bucket' = TRUE \/ UNCHANGED bucket
    /\ AttemptFails(p)
    /\ UNCHANGED <<now, store>>

Bootstrap(p) == HeadBucket(p) \/ HeadFails(p) \/ CreateBucket(p) \/ CreateFails(p)

-----------------------------------------------------------------------------
Next == \/ Tick
        \/ \E k \in Keys, t \in Types, n \in 0..MaxSize :
              Presign(k, t, n) \/ BeginUpload(k, t, n)
        \/ \E k \in Keys : \E o \in posting[k] : EndUpload(k, o)
        \/ \E u \in Users, k \in Keys : Check(u, k)
        \/ \E m \in checked : Commit(m) \/ Abandon(m)
        \/ \E p \in Pods : Bootstrap(p)

Spec == Init /\ [][Next]_vars

-----------------------------------------------------------------------------
(* Properties *)

(* Every variable has its type, a stored object is neither empty nor too   *)
(* large, and no bootstrap makes more attempts than it has.                *)
TypeOK ==
    /\ now \in 0..MaxTime
    /\ policy \in [Keys -> Policy \cup {None}]
    /\ posts \in [Keys -> 0..MaxUploads]
    /\ posting \in [Keys -> SUBSET Object]
    /\ object \in [Keys -> Object \cup {None}]
    /\ checked \subseteq Send /\ sent \subseteq Send
    /\ bucket \in BOOLEAN
    /\ job \in [Pods -> {"head", "create", "serving", "failed"}]
    /\ failed \in [Pods -> 0..Attempts]
    /\ outages \in [Pods -> 0..MaxOutages]

(* What the store lets through, the service accepts: an upload under the   *)
(* policy the API signed never fails the check of its owner's message.     *)
UploadsAccepted == \A k \in Keys : object[k] # None => Acceptable(object[k])

(* storage.py:4: "only a POST policy lets the storage service itself       *)
(* enforce the size limit and the exact Content-Type": though the object   *)
(* may be replaced after HEAD and after the message is sent, there always  *)
(* is one, of the type the message says, within the limits, uploaded with  *)
(* a policy that was signed for the sender's own key.                      *)
AttachmentsSound == \A m \in sent :
    /\ OwnerOf[m.key] = m.by
    /\ policy[m.key] # None
    /\ object[m.key] # None
    /\ Acceptable(object[m.key])
    /\ object[m.key].type = m.mime

(* It cannot be replaced for ever: once the policy has expired, what HEAD  *)
(* finds is what recipients will download, unless an upload the store      *)
(* admitted before the expiry is still under way; then it may be that one. *)
CheckedIsKept == \A m \in sent :
    (policy[m.key] # None /\ m.at >= policy[m.key].until)
    => object[m.key].version \in {m.version} \cup m.under

(* bootstrap.py: no upload meets a missing bucket, and pods that race to   *)
(* create it cost each other one attempt at most: a bootstrap that gives   *)
(* up was failed by the store in all its other attempts.                   *)
BootstrapSound == /\ Serving => bucket
                  /\ \A p \in Pods : job[p] = "failed" => outages[p] >= Attempts - 1
==============================================================================
