---------------------------- MODULE PhotoStores ----------------------------
(***************************************************************************)
(* The photos table as Final_mastery/internal/store/dynamodb.go uses it: a *)
(* function from photos to a status, "absent" without an item.  Every call *)
(* is one atomic, consistent operation on one item.                        *)
(***************************************************************************)

Statuses == {"absent", "processing", "completed", "failed"}

\* PutPhoto: an item is written whatever was there.
PutItem(r, p) == [r EXCEPT ![p] = "processing"]

\* DeletePhoto: no error if the item is not there.
DeleteItem(r, p) == [r EXCEPT ![p] = "absent"]

\* Faulty variant: an update that creates the item it does not find.
UpdatePhotoStatusBlind(r, p, s) == [r EXCEPT ![p] = s]

\* SET status, if attribute_exists(photo_id).
UpdatePhotoStatus(r, p, s) == IF r[p] = "absent" THEN r ELSE [r EXCEPT ![p] = s]
============================================================================
