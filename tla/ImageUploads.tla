---------------------------- MODULE ImageUploads ----------------------------
(* The pictures of a service (a group and the logo of a business are alike) and
   the media of a checklist. The API hands out tickets, the client puts the bytes
   into the bucket, and a second request makes them the picture of the row. The
   bucket knows no transactions: a row and its object are changed one after the
   other, and requests that loaded the row earlier go on with what they saw. *)
EXTENDS Naturals, FiniteSets

\* Keys of pictures and of media.
CONSTANTS Pictures, Media, Workers, None

\* image: the key of the row, None, or "gone" with the row. bucket: what lies under a key.
\* media: the rows of media. retired: keys that were shown and replaced. accident: a
\* worker died before its cleaning up, or two requests for the row overlapped.
\* excused: keys where a bad file was put over a good one, finalized while another
\* request holds them, or whose deletion broke off.
VARIABLES image, bucket, tickets, media, task, retired, accident, excused

uploadVars == <<image, bucket, tickets, media, task, retired, accident, excused>>

Files == Pictures \union Media
Content == {"none", "good", "bad"}
Idle == [op |-> "none"]
\* seen: the key in the row when it was loaded.
PictureTask == [op : {"finalize", "clear", "delete"}, key : Pictures \union {None},
                seen : Pictures \union {None}, step : {"loaded", "checked", "committed"}]
MediaTask == [op : {"attach", "detach"}, key : Media, step : {"loaded"}]

Init == /\ image = None /\ tickets = {}
        /\ bucket = [k \in Files |-> "none"]
        /\ media = [k \in Media |-> "none"]
        /\ task = [w \in Workers |-> Idle]
        /\ retired = {} /\ accident = FALSE /\ excused = {}

Step(w, step) == task' = [task EXCEPT ![w].step = step]
Done(w) == task' = [task EXCEPT ![w] = Idle]
OnRow(v) == task[v] \in PictureTask

-----------------------------------------------------------------------------
\* request_image_upload writes nothing; the media of a checklist get their row at once.
Ticket(k) ==
    /\ k \notin tickets /\ image # "gone"
    /\ tickets' = tickets \union {k}
    /\ media' = IF k \in Media THEN [media EXCEPT ![k] = "pending"] ELSE media
    /\ UNCHANGED <<image, bucket, task, retired, accident, excused>>

\* The client puts its file, and may do so again while the ticket is valid.
Put(k, content) ==
    /\ k \in tickets \ retired /\ content # "none"
    /\ bucket' = [bucket EXCEPT ![k] = content]
    /\ excused' = IF bucket[k] = "good" /\ content = "bad" THEN excused \union {k} ELSE excused
    /\ UNCHANGED <<image, tickets, media, task, retired, accident>>

-----------------------------------------------------------------------------
\* A request loads the row.
Load(w, op, k) ==
    /\ task[w] = Idle /\ image # "gone"
    /\ op = "clear" => image # None
    /\ task' = [task EXCEPT ![w] = [op |-> op, key |-> k, seen |-> image, step |-> "loaded"]]
    /\ accident' = (accident \/ \E v \in Workers : OnRow(v))
    /\ excused' = excused \union {q \in ({k} \ {None}) : \E v \in Workers :
                              OnRow(v) /\ q \in {task[v].key, task[v].seen}}
    /\ UNCHANGED <<image, bucket, tickets, media, retired>>

Finalize(w, k) == k \in tickets /\ Load(w, "finalize", k)
Clear(w) == Load(w, "clear", None)
Delete(w) == Load(w, "delete", None)

\* Mutation of Check: the picture is not asked for in the bucket.
CheckNothing(w) ==
    /\ task[w].op = "finalize" /\ task[w].step = "loaded"
    /\ bucket' = [bucket EXCEPT ![task[w].key] = IF @ = "bad" THEN "none" ELSE @]
    /\ IF bucket[task[w].key] = "bad" THEN Done(w) ELSE Step(w, "checked")
    /\ UNCHANGED <<image, tickets, media, retired, accident, excused>>

\* finalize_image_upload: what did not land is refused, and what is no picture deleted.
Check(w) ==
    /\ task[w].op = "finalize" /\ task[w].step = "loaded"
    /\ bucket' = [bucket EXCEPT ![task[w].key] = IF @ = "bad" THEN "none" ELSE @]
    /\ IF bucket[task[w].key] = "good" THEN Step(w, "checked") ELSE Done(w)
    /\ UNCHANGED <<image, tickets, media, retired, accident, excused>>

\* What the request makes of the row: a key that it saw there is not written again.
Written(t) == CASE t.op = "clear" -> None
                [] t.op = "delete" -> "gone"
                [] t.op = "finalize" -> IF t.key = t.seen THEN image ELSE t.key

\* Mutation of Replaced: the old object is left where it is when a new one is shown.
ReplacedByNothing(t) == IF t.op = "finalize" THEN {} ELSE {t.seen} \ {None}

\* The object to be deleted after the commit.
Replaced(t) == {t.seen} \ {t.key, None}

Commit(w) ==
    /\ OnRow(w) /\ task[w].step = (IF task[w].op = "finalize" THEN "checked" ELSE "loaded")
    /\ IF image = "gone" THEN Done(w) /\ UNCHANGED <<image, retired>>
       ELSE /\ image' = Written(task[w])
            /\ retired' = (retired \union ({image} \ {None})) \ {image'}
            /\ IF Replaced(task[w]) = {} THEN Done(w) ELSE Step(w, "committed")
    /\ UNCHANGED <<bucket, tickets, media, accident, excused>>

CleanUp(w) ==
    /\ OnRow(w) /\ task[w].step = "committed"
    /\ bucket' = [k \in Files |-> IF k \in Replaced(task[w]) THEN "none" ELSE bucket[k]]
    /\ Done(w)
    /\ UNCHANGED <<image, tickets, media, retired, accident, excused>>

\* The worker dies, or the service has appointments and may not be deleted.
Fail(w) ==
    /\ task[w] # Idle
    /\ accident' = (accident \/ (OnRow(w) /\ task[w].step = "committed"))
    /\ excused' = IF task[w].op = "detach" THEN excused \union {task[w].key} ELSE excused
    /\ Done(w)
    /\ UNCHANGED <<image, bucket, tickets, media, retired>>

-----------------------------------------------------------------------------
\* The object of a checklist's medium is there, whatever it is; then the row says so.
Attach(w, k) ==
    /\ task[w] = Idle /\ media[k] = "pending" /\ bucket[k] # "none"
    /\ task' = [task EXCEPT ![w] = [op |-> "attach", key |-> k, step |-> "loaded"]]
    /\ UNCHANGED <<image, bucket, tickets, media, retired, accident, excused>>

Attached(w) ==
    /\ task[w].op = "attach"
    /\ media' = [media EXCEPT ![task[w].key] = IF @ = "pending" THEN "uploaded" ELSE @]
    /\ Done(w)
    /\ UNCHANGED <<image, bucket, tickets, retired, accident, excused>>

\* A medium's object is deleted before its row; its upload is over.
Detach(w, k) ==
    /\ task[w] = Idle /\ media[k] \in {"pending", "uploaded"}
    /\ bucket' = [bucket EXCEPT ![k] = "none"]
    /\ retired' = retired \union {k}
    /\ task' = [task EXCEPT ![w] = [op |-> "detach", key |-> k, step |-> "loaded"]]
    /\ UNCHANGED <<image, tickets, media, accident, excused>>

Detached(w) ==
    /\ task[w].op = "detach"
    /\ media' = [media EXCEPT ![task[w].key] = "deleted"]
    /\ Done(w)
    /\ UNCHANGED <<image, bucket, tickets, retired, accident, excused>>

Next == \/ \E k \in Files : Ticket(k) \/ \E content \in Content : Put(k, content)
        \/ \E w \in Workers :
              \/ Clear(w) \/ Delete(w) \/ Check(w) \/ Commit(w) \/ CleanUp(w) \/ Fail(w)
              \/ Attached(w) \/ Detached(w)
              \/ \E k \in Pictures : Finalize(w, k)
              \/ \E k \in Media : Attach(w, k) \/ Detach(w, k)

Spec == Init /\ [][Next]_uploadVars

-----------------------------------------------------------------------------
TypeOK == /\ image \in Pictures \union {None, "gone"} /\ tickets \subseteq Files
          /\ bucket \in [Files -> Content]
          /\ media \in [Media -> {"none", "pending", "uploaded", "deleted"}]
          /\ task \in [Workers -> {Idle} \union PictureTask \union MediaTask]
          /\ retired \subseteq Files /\ excused \subseteq Files /\ accident \in BOOLEAN

\* However uploads, replacements and deletions overlap, are repeated or break
\* off, what the booking page and the checklist show lies in the bucket. The
\* exceptions are a picture overwritten by a bad file or finalized again while
\* another request holds it, and a medium whose deletion broke off.
ShownFilesExist ==
    /\ image \in Pictures => image \in excused \/ bucket[image] = "good"
    /\ \A k \in Media : media[k] = "uploaded" =>
          \/ k \in excused \/ bucket[k] # "none"
          \/ \E w \in Workers : task[w].op = "detach" /\ task[w].key = k

\* A picture that is no longer shown leaves nothing in the bucket, unless a
\* worker died or requests overlapped.
NothingIsLeftBehind ==
    accident \/ \A k \in Pictures \intersect retired :
        bucket[k] = "none" \/ \E w \in Workers : OnRow(w) /\ k \in Replaced(task[w])
=============================================================================
