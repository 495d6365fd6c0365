-------------------------------- MODULE Cloud -------------------------------
(***************************************************************************)
(* A cloud driver in use: one goroutine, in all the steps of what it does  *)
(* with the blob, among others that change the blob with requests of their *)
(* own.  The goroutine calls the bucket (CloudBucket), reads through a     *)
(* reader (CloudReader) or copies the blob (CrossCopy).  Goroutines meet   *)
(* only at the service, which answers one request at a time, so that these *)
(* others can be any number of goroutines that do any of the three.        *)
(***************************************************************************)
EXTENDS CloudBucket, CloudReader, CrossCopy

VARIABLE role   \* what the goroutine does

bucketVars == <<client, returned>>
readerVars == <<reader, got>>
copyVars == <<copy, target>>
vars == <<driver, blob, changes, failures, role, bucketVars, readerVars, copyVars>>

TypeOK ==
  /\ CloudTypeOK /\ BucketTypeOK /\ ReaderTypeOK /\ CopyTypeOK
  /\ role \in {"client", "reader", "copier"}

Init ==
  /\ StoreInit /\ BucketInit /\ ReaderInit /\ CopyInit
  /\ role \in {"client", "reader", "copier"}

Calls == role = "client" /\ CallerStep /\ UNCHANGED <<role, readerVars, copyVars>>
Busy == role = "client" /\ BusyStep /\ UNCHANGED <<role, readerVars, copyVars>>
Reads == role = "reader" /\ ReaderStep /\ UNCHANGED <<role, bucketVars, copyVars>>
Copies == role = "copier" /\ CopyCaller /\ UNCHANGED <<role, bucketVars, readerVars>>
Copying == role = "copier" /\ CopyStep /\ UNCHANGED <<role, bucketVars, readerVars>>
Serves == role = "copier" /\ CopyService /\ UNCHANGED <<role, bucketVars, readerVars>>

\* What the last call returned is looked at before anything else happens.
Elsewhere ==
  /\ Others
  /\ returned' = Nothing /\ got' = Nil
  /\ UNCHANGED <<role, client, reader, copyVars>>

Next == Calls \/ Busy \/ Reads \/ Copies \/ Copying \/ Serves \/ Elsewhere

\* Goroutines go on with a call they are in, requests come to an end, and the
\* service with the copies it has taken on.
Fairness == WF_vars(Busy) /\ WF_vars(Copying) /\ WF_vars(Serves)

Spec == Init /\ [][Next]_vars /\ Fairness
=============================================================================
