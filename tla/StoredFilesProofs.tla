------------------------- MODULE StoredFilesProofs -------------------------
(***************************************************************************)
(* The invariant of StoredFiles, for any number of keys, nodes, requests   *)
(* and restores, any bounds and any of the faults.                         *)
(*                                                                         *)
(* NoOrphan and RowsKeepFiles do not survive a step on their own: a drain  *)
(* deletes an object because of a batch it read long before, and what that *)
(* batch may hold depends on the restore's unqueueing, on the two          *)
(* statements of `due` and on keys being fresh.  Inv says what holds at    *)
(* each of those points.  One lemma shows what each action does to it,     *)
(* with one step per conjunct.                                             *)
(***************************************************************************)
EXTENDS StoredFiles, TLAPS

(* An archived file always finds a row to go back to: its own at least.    *)
(* Restoring never writes under a key the archive does not name.           *)
LEMMA TargetsNamed ==
    ASSUME NEW im \in Image, im.files \subseteq im.rows
    PROVE  Targets(im) \subseteq im.rows
<1> SUFFICES ASSUME NEW e \in im.files PROVE Target(im, e) \in im.rows
    BY DEF Targets
<1>1. \E k \in im.rows : PathOf[k] = PathOf[e] OBVIOUS
<1> QED BY <1>1 DEF Target

(* The end of a drain leaves its state well typed.                         *)
LEMMA EndDrainTypes ==
    ASSUME TypeOK, NEW w \in Workers, EndDrain(w)
    PROVE  /\ draining' \in BOOLEAN
           /\ dpc' \in [Workers -> DrainSteps]
           /\ full' \in [Workers -> BOOLEAN]
           /\ progress' \in [Workers -> BOOLEAN]
           /\ rounds' \in [Workers -> 0..MaxBatches]
<1> USE DEF TypeOK, EndDrain
<1>1. 0 \in 0..MaxBatches BY BoundsAssumption
<1>2. rounds' \in [Workers -> 0..MaxBatches] BY <1>1
<1>3. dpc' \in [Workers -> DrainSteps] BY DEF DrainSteps
<1>4. full' \in [Workers -> BOOLEAN] /\ progress' \in [Workers -> BOOLEAN]
    OBVIOUS
<1>5. draining' \in BOOLEAN OBVIOUS
<1> QED BY <1>2, <1>3, <1>4, <1>5

(* The initial state: an empty vault satisfies every conjunct.             *)
LEMMA InitInv == Init => Inv
<1> SUFFICES ASSUME Init PROVE Inv OBVIOUS
<1> USE DEF Init
<1>1. InHand = {} /\ Todo = {} /\ Unfiled = {}
    BY DEF InHand, Hand, Todo, Unfiled
<1>2. TypeOK
  <2>1. 0 \in 0..MaxBatches BY BoundsAssumption
  <2>2. rounds \in [Workers -> 0..MaxBatches] BY <2>1
  <2>3. image \in Image BY DEF Image, NoImage
  <2>4. rpc \in [Requests -> RequestSteps] /\ dpc \in [Workers -> DrainSteps]
    BY DEF RequestSteps, DrainSteps
  <2>5. batch \in [Workers -> SUBSET Keys] /\ settling \in [Workers -> SUBSET Keys]
    OBVIOUS
  <2>6. rkey \in [Requests -> SUBSET Keys] /\ todo \in [Admins -> SUBSET Keys]
    OBVIOUS
  <2> QED BY <2>2, <2>3, <2>4, <2>5, <2>6 DEF TypeOK
<1>3. UploadsFresh /\ UploadsStored BY DEF UploadsFresh, UploadsStored
<1>4. AllMinted /\ ImagesSound BY <1>1 DEF AllMinted, ImagesSound, NoImage
<1>5. SelectSeesNoNamed /\ SettledGone /\ TodoNamed
    BY <1>1 DEF SelectSeesNoNamed, SettledGone, TodoNamed
<1>6. FlagSound /\ HandsSound BY DEF FlagSound, HandsSound, Workers
<1>7. HandsOffNamed /\ NoOrphan /\ RowsKeepFiles
    BY <1>1 DEF HandsOffNamed, NoOrphan, RowsKeepFiles
<1> QED BY <1>2, <1>3, <1>4, <1>5, <1>6, <1>7 DEF Inv

(* UploadStart: an upload gets a key nobody was ever given.                *)
LEMMA UploadStartKeeps ==
    ASSUME Inv, NEW r \in Requests, NEW k \in Keys, UploadStart(r, k)
    PROVE  Inv'
<1> USE BoundsAssumption DEF
    UploadStart, Inv, TypeOK, database, drain, backup, history, Goto
<1>1. TypeOK' BY DEF RequestSteps
<1>2. UploadsFresh' BY DEF UploadsFresh, Fresh, InHand, Hand, Todo, AllMinted
<1>3. UploadsStored' BY DEF UploadsStored
<1>4. AllMinted' BY DEF AllMinted, InHand, Hand, Todo
<1>5. NoOrphan' BY DEF NoOrphan, Unfiled
<1>6. ImagesSound' /\ SelectSeesNoNamed' /\ SettledGone' /\ TodoNamed' /\
      FlagSound' /\ HandsSound' /\ HandsOffNamed' /\ RowsKeepFiles'
    BY DEF ImagesSound, SelectSeesNoNamed, SettledGone, TodoNamed, FlagSound,
      HandsSound, HandsOffNamed, RowsKeepFiles, Todo, InHand, Hand
<1> QED BY <1>1, <1>2, <1>3, <1>4, <1>5, <1>6

(* UploadPut: the object of an upload appears under its fresh key.         *)
LEMMA UploadPutKeeps ==
    ASSUME Inv, NEW r \in Requests, UploadPut(r)
    PROVE  Inv'
<1> USE BoundsAssumption DEF
    UploadPut, Inv, TypeOK, database, drain, backup, history, Goto
<1>1. TypeOK' BY DEF RequestSteps
<1>2. UploadsFresh' BY DEF UploadsFresh, Fresh, InHand, Hand, Todo
<1>3. UploadsStored' BY DEF UploadsStored
<1>4. AllMinted' BY DEF AllMinted, InHand, Hand, Todo
<1>5. SettledGone' BY DEF SettledGone, InHand, Hand, UploadsFresh, Fresh
<1>6. NoOrphan' BY DEF NoOrphan, Unfiled
<1>7. RowsKeepFiles' BY DEF RowsKeepFiles, Todo
<1>8. ImagesSound' /\ SelectSeesNoNamed' /\ TodoNamed' /\ FlagSound' /\
      HandsSound' /\ HandsOffNamed'
    BY DEF ImagesSound, SelectSeesNoNamed, TodoNamed, FlagSound, HandsSound,
      HandsOffNamed, Todo, InHand, Hand
<1> QED BY <1>1, <1>2, <1>3, <1>4, <1>5, <1>6, <1>7, <1>8

(* UploadPutFails: a failing put may leave an object, which is then a forgotten one. *)
LEMMA UploadPutFailsKeeps ==
    ASSUME Inv, NEW r \in Requests, UploadPutFails(r)
    PROVE  Inv'
<1> USE BoundsAssumption DEF
    UploadPutFails, Inv, TypeOK, database, drain, backup, history, Leave
<1>1. TypeOK' BY DEF RequestSteps
<1>2. UploadsFresh' BY DEF UploadsFresh, Fresh, InHand, Hand, Todo
<1>3. UploadsStored' BY DEF UploadsStored
<1>4. AllMinted' BY DEF AllMinted, InHand, Hand, Todo
<1>5. SettledGone' BY DEF SettledGone, InHand, Hand, UploadsFresh, Fresh
<1>6. NoOrphan' BY DEF NoOrphan, Unfiled
<1>7. RowsKeepFiles' BY DEF RowsKeepFiles, Todo
<1>8. ImagesSound' /\ SelectSeesNoNamed' /\ TodoNamed' /\ FlagSound' /\
      HandsSound' /\ HandsOffNamed'
    BY DEF ImagesSound, SelectSeesNoNamed, TodoNamed, FlagSound, HandsSound,
      HandsOffNamed, Todo, InHand, Hand
<1> QED BY <1>1, <1>2, <1>3, <1>4, <1>5, <1>6, <1>7, <1>8

(* UploadInsert: the row of a fresh key appears, whose object is in storage. *)
LEMMA UploadInsertKeeps ==
    ASSUME Inv, NEW r \in Requests, UploadInsert(r)
    PROVE  Inv'
<1> USE BoundsAssumption DEF
    UploadInsert, Inv, TypeOK, database, drain, backup, history, Leave
<1>1. TypeOK' BY DEF RequestSteps
<1>2. UploadsFresh' BY DEF UploadsFresh, Fresh, InHand, Hand, Todo
<1>3. UploadsStored' BY DEF UploadsStored
<1>4. AllMinted' BY DEF AllMinted, InHand, Hand, Todo
<1>5. SelectSeesNoNamed' BY DEF SelectSeesNoNamed, UploadsFresh, Fresh
<1>6. TodoNamed' BY DEF TodoNamed, Todo
<1>7. HandsOffNamed' BY DEF HandsOffNamed, InHand, Hand, UploadsFresh, Fresh
<1>8. NoOrphan' BY DEF NoOrphan, Unfiled
<1>9. RowsKeepFiles' BY DEF RowsKeepFiles, UploadsStored, Todo
<1>10. ImagesSound' /\ SettledGone' /\ FlagSound' /\ HandsSound'
    BY DEF ImagesSound, SettledGone, FlagSound, HandsSound
<1> QED BY <1>1, <1>2, <1>3, <1>4, <1>5, <1>6, <1>7, <1>8, <1>9, <1>10

(* UploadInsertFails: the insert fails, or commits unheard.                *)
LEMMA UploadInsertFailsKeeps ==
    ASSUME Inv, NEW r \in Requests, UploadInsertFails(r)
    PROVE  Inv'
<1> USE BoundsAssumption DEF
    UploadInsertFails, Inv, TypeOK, database, drain, backup, history, Goto
<1>1. TypeOK' BY DEF RequestSteps
<1>2. UploadsFresh' BY DEF UploadsFresh, Fresh, InHand, Hand, Todo
<1>3. UploadsStored' BY DEF UploadsStored
<1>4. AllMinted' BY DEF AllMinted, InHand, Hand, Todo
<1>5. SelectSeesNoNamed' BY DEF SelectSeesNoNamed, UploadsFresh, Fresh
<1>6. TodoNamed' BY DEF TodoNamed, Todo
<1>7. HandsOffNamed' BY DEF HandsOffNamed, InHand, Hand, UploadsFresh, Fresh
<1>8. NoOrphan' BY DEF NoOrphan, Unfiled
<1>9. RowsKeepFiles' BY DEF RowsKeepFiles, UploadsStored, Todo
<1>10. ImagesSound' /\ SettledGone' /\ FlagSound' /\ HandsSound'
    BY DEF ImagesSound, SettledGone, FlagSound, HandsSound
<1> QED BY <1>1, <1>2, <1>3, <1>4, <1>5, <1>6, <1>7, <1>8, <1>9, <1>10

(* UploadEnqueue: a key whose insert failed joins the outbox.              *)
LEMMA UploadEnqueueKeeps ==
    ASSUME Inv, NEW r \in Requests, UploadEnqueue(r)
    PROVE  Inv'
<1> USE BoundsAssumption DEF
    UploadEnqueue, Inv, TypeOK, database, drain, backup, history, Goto
<1>1. TypeOK' BY DEF RequestSteps
<1>2. UploadsFresh' BY DEF UploadsFresh, Fresh, InHand, Hand, Todo
<1>3. UploadsStored' BY DEF UploadsStored
<1>4. AllMinted' BY DEF AllMinted, InHand, Hand, Todo
<1>5. SelectSeesNoNamed' BY DEF SelectSeesNoNamed
<1>6. SettledGone' BY DEF SettledGone
<1>7. TodoNamed' BY DEF TodoNamed, Todo
<1>8. HandsOffNamed' BY DEF HandsOffNamed, InHand, Hand
<1>9. NoOrphan' BY DEF NoOrphan, Unfiled
<1>10. RowsKeepFiles' BY DEF RowsKeepFiles, Todo
<1>11. ImagesSound' /\ FlagSound' /\ HandsSound'
    BY DEF ImagesSound, FlagSound, HandsSound
<1> QED BY <1>1, <1>2, <1>3, <1>4, <1>5, <1>6, <1>7, <1>8, <1>9, <1>10, <1>11

(* UploadEnqueueFails: the key is forgotten.                               *)
LEMMA UploadEnqueueFailsKeeps ==
    ASSUME Inv, NEW r \in Requests, UploadEnqueueFails(r)
    PROVE  Inv'
<1> USE BoundsAssumption DEF
    UploadEnqueueFails, Inv, TypeOK, database, drain, backup, history, Goto
<1>1. TypeOK' BY DEF RequestSteps
<1>2. UploadsFresh' BY DEF UploadsFresh, Fresh, InHand, Hand, Todo
<1>3. UploadsStored' BY DEF UploadsStored
<1>4. AllMinted' BY DEF AllMinted, InHand, Hand, Todo
<1>5. NoOrphan' BY DEF NoOrphan, Unfiled
<1>6. ImagesSound' /\ SelectSeesNoNamed' /\ SettledGone' /\ TodoNamed' /\
      FlagSound' /\ HandsSound' /\ HandsOffNamed' /\ RowsKeepFiles'
    BY DEF ImagesSound, SelectSeesNoNamed, SettledGone, TodoNamed, FlagSound,
      HandsSound, HandsOffNamed, RowsKeepFiles, Todo, InHand, Hand
<1> QED BY <1>1, <1>2, <1>3, <1>4, <1>5, <1>6

(* DeleteStart: a delete has read its row.                                 *)
LEMMA DeleteStartKeeps ==
    ASSUME Inv, NEW r \in Requests, NEW k \in Keys, DeleteStart(r, k)
    PROVE  Inv'
<1> USE BoundsAssumption DEF
    DeleteStart, Inv, TypeOK, database, drain, backup, history, Goto
<1>1. TypeOK' BY DEF RequestSteps
<1>2. UploadsFresh' BY DEF UploadsFresh, Fresh, InHand, Hand, Todo
<1>3. UploadsStored' BY DEF UploadsStored
<1>4. AllMinted' BY DEF AllMinted, InHand, Hand, Todo
<1>5. NoOrphan' BY DEF NoOrphan, Unfiled
<1>6. ImagesSound' /\ SelectSeesNoNamed' /\ SettledGone' /\ TodoNamed' /\
      FlagSound' /\ HandsSound' /\ HandsOffNamed' /\ RowsKeepFiles'
    BY DEF ImagesSound, SelectSeesNoNamed, SettledGone, TodoNamed, FlagSound,
      HandsSound, HandsOffNamed, RowsKeepFiles, Todo, InHand, Hand
<1> QED BY <1>1, <1>2, <1>3, <1>4, <1>5, <1>6

(* DeleteRow: the trigger moves the deleted row's key into the outbox.     *)
LEMMA DeleteRowKeeps ==
    ASSUME Inv, NEW r \in Requests, DeleteRow(r)
    PROVE  Inv'
<1> USE BoundsAssumption DEF
    DeleteRow, Inv, TypeOK, database, drain, backup, history, Goto, DeleteRows
<1>1. TypeOK' BY DEF RequestSteps
<1>2. UploadsFresh' BY DEF UploadsFresh, Fresh, InHand, Hand, Todo
<1>3. UploadsStored' BY DEF UploadsStored
<1>4. AllMinted' BY DEF AllMinted, InHand, Hand, Todo
<1>5. SelectSeesNoNamed' BY DEF SelectSeesNoNamed
<1>6. SettledGone' BY DEF SettledGone
<1>7. TodoNamed' BY DEF TodoNamed, Todo
<1>8. HandsOffNamed' BY DEF HandsOffNamed, InHand, Hand
<1>9. NoOrphan' BY DEF NoOrphan, Unfiled
<1>10. RowsKeepFiles' BY DEF RowsKeepFiles, Todo
<1>11. ImagesSound' /\ FlagSound' /\ HandsSound'
    BY DEF ImagesSound, FlagSound, HandsSound
<1> QED BY <1>1, <1>2, <1>3, <1>4, <1>5, <1>6, <1>7, <1>8, <1>9, <1>10, <1>11

(* DeleteRowGone: the row was gone.                                        *)
LEMMA DeleteRowGoneKeeps ==
    ASSUME Inv, NEW r \in Requests, DeleteRowGone(r)
    PROVE  Inv'
<1> USE BoundsAssumption DEF
    DeleteRowGone, Inv, TypeOK, database, drain, backup, history, Leave
<1>1. TypeOK' BY DEF RequestSteps
<1>2. UploadsFresh' BY DEF UploadsFresh, Fresh, InHand, Hand, Todo
<1>3. UploadsStored' BY DEF UploadsStored
<1>4. AllMinted' BY DEF AllMinted, InHand, Hand, Todo
<1>5. NoOrphan' BY DEF NoOrphan, Unfiled
<1>6. ImagesSound' /\ SelectSeesNoNamed' /\ SettledGone' /\ TodoNamed' /\
      FlagSound' /\ HandsSound' /\ HandsOffNamed' /\ RowsKeepFiles'
    BY DEF ImagesSound, SelectSeesNoNamed, SettledGone, TodoNamed, FlagSound,
      HandsSound, HandsOffNamed, RowsKeepFiles, Todo, InHand, Hand
<1> QED BY <1>1, <1>2, <1>3, <1>4, <1>5, <1>6

(* DeleteNodes: the rows of the deleted nodes' files become outbox entries. *)
LEMMA DeleteNodesKeeps ==
    ASSUME Inv, NEW r \in Requests, NEW ns \in SUBSET Nodes, DeleteNodes(r, ns)
    PROVE  Inv'
<1> USE BoundsAssumption DEF
    DeleteNodes, Inv, TypeOK, database, drain, backup, history, Goto,
      DeleteRows
<1>1. TypeOK' BY DEF RequestSteps
<1>2. UploadsFresh' BY DEF UploadsFresh, Fresh, InHand, Hand, Todo
<1>3. UploadsStored' BY DEF UploadsStored
<1>4. AllMinted' BY DEF AllMinted, InHand, Hand, Todo
<1>5. SelectSeesNoNamed' BY DEF SelectSeesNoNamed
<1>6. SettledGone' BY DEF SettledGone
<1>7. TodoNamed' BY DEF TodoNamed, Todo
<1>8. HandsOffNamed' BY DEF HandsOffNamed, InHand, Hand
<1>9. NoOrphan' BY DEF NoOrphan, Unfiled
<1>10. RowsKeepFiles' BY DEF RowsKeepFiles, Todo
<1>11. ImagesSound' /\ FlagSound' /\ HandsSound'
    BY DEF ImagesSound, FlagSound, HandsSound
<1> QED BY <1>1, <1>2, <1>3, <1>4, <1>5, <1>6, <1>7, <1>8, <1>9, <1>10, <1>11

(* Kick: a kick starts the background drain or finds it running.           *)
LEMMA KickKeeps ==
    ASSUME Inv, NEW r \in Requests, Kick(r)
    PROVE  Inv'
<1> USE BoundsAssumption DEF
    Kick, Inv, TypeOK, database, drain, backup, history, Leave
<1>1. TypeOK' BY DEF RequestSteps, DrainSteps
<1>2. UploadsFresh' BY DEF UploadsFresh, Fresh, InHand, Hand, Todo
<1>3. UploadsStored' BY DEF UploadsStored
<1>4. AllMinted' BY DEF AllMinted, InHand, Hand, Todo
<1>5. SelectSeesNoNamed' BY DEF SelectSeesNoNamed
<1>6. FlagSound' BY DEF FlagSound, Workers
<1>7. HandsSound' BY DEF HandsSound, FlagSound
<1>8. NoOrphan' BY DEF NoOrphan, Unfiled
<1>9. ImagesSound' /\ SettledGone' /\ TodoNamed' /\ HandsOffNamed' /\
      RowsKeepFiles'
    BY DEF ImagesSound, SettledGone, TodoNamed, HandsOffNamed, RowsKeepFiles,
      Todo, InHand, Hand
<1> QED BY <1>1, <1>2, <1>3, <1>4, <1>5, <1>6, <1>7, <1>8, <1>9

(* DailyTick: the daily drain starts.                                      *)
LEMMA DailyTickKeeps ==
    ASSUME Inv, DailyTick
    PROVE  Inv'
<1> USE BoundsAssumption DEF
    DailyTick, Inv, TypeOK, database, drain, backup, history, request
<1>1. TypeOK' BY DEF DrainSteps, Workers
<1>2. SelectSeesNoNamed' BY DEF SelectSeesNoNamed
<1>3. FlagSound' BY DEF FlagSound
<1>4. HandsSound' BY DEF HandsSound
<1>5. UploadsFresh' /\ UploadsStored' /\ AllMinted' /\ ImagesSound' /\
      SettledGone' /\ TodoNamed' /\ HandsOffNamed' /\ NoOrphan' /\
      RowsKeepFiles'
    BY DEF UploadsFresh, UploadsStored, AllMinted, ImagesSound, SettledGone,
      TodoNamed, HandsOffNamed, NoOrphan, RowsKeepFiles, Fresh, InHand, Hand,
      Todo, Unfiled
<1> QED BY <1>1, <1>2, <1>3, <1>4, <1>5

(* DrainClean: what a row names leaves the outbox.                         *)
LEMMA DrainCleanKeeps ==
    ASSUME Inv, NEW w \in Workers, DrainClean(w)
    PROVE  Inv'
<1> USE BoundsAssumption DEF
    DrainClean, Inv, TypeOK, database, drain, backup, history, request
<1>1. TypeOK' BY DEF DrainSteps
<1>2. UploadsFresh' BY DEF UploadsFresh, Fresh, InHand, Hand, Todo
<1>3. AllMinted' BY DEF AllMinted, InHand, Hand, Todo
<1>4. SelectSeesNoNamed' BY DEF SelectSeesNoNamed
<1>5. FlagSound' BY DEF FlagSound
<1>6. HandsSound' BY DEF HandsSound
<1>7. NoOrphan' BY DEF NoOrphan, Unfiled
<1>8. UploadsStored' /\ ImagesSound' /\ SettledGone' /\ TodoNamed' /\
      HandsOffNamed' /\ RowsKeepFiles'
    BY DEF UploadsStored, ImagesSound, SettledGone, TodoNamed, HandsOffNamed,
      RowsKeepFiles, Todo, InHand, Hand
<1> QED BY <1>1, <1>2, <1>3, <1>4, <1>5, <1>6, <1>7, <1>8

(* DrainSelect: the batch is part of the outbox.                           *)
LEMMA DrainSelectKeeps ==
    ASSUME Inv, NEW w \in Workers, DrainSelect(w)
    PROVE  Inv'
<1> USE BoundsAssumption DEF
    DrainSelect, Inv, TypeOK, database, drain, backup, history, request
<1>1. TypeOK' BY DEF DrainSteps
<1>2. UploadsFresh' BY DEF UploadsFresh, Fresh, InHand, Hand, Todo
<1>3. AllMinted' BY DEF AllMinted, InHand, Hand, Todo
<1>4. SelectSeesNoNamed' BY DEF SelectSeesNoNamed
<1>5. FlagSound' BY DEF FlagSound
<1>6. HandsSound' BY DEF HandsSound
<1>7. HandsOffNamed' BY DEF HandsOffNamed, InHand, Hand, SelectSeesNoNamed
<1>8. UploadsStored' /\ ImagesSound' /\ SettledGone' /\ TodoNamed' /\
      NoOrphan' /\ RowsKeepFiles'
    BY DEF UploadsStored, ImagesSound, SettledGone, TodoNamed, NoOrphan,
      RowsKeepFiles, Todo, Unfiled
<1> QED BY <1>1, <1>2, <1>3, <1>4, <1>5, <1>6, <1>7, <1>8

(* DrainReadFails: the drain ends early.                                   *)
LEMMA DrainReadFailsKeeps ==
    ASSUME Inv, NEW w \in Workers, DrainReadFails(w)
    PROVE  Inv'
<1> USE BoundsAssumption DEF
    DrainReadFails, Inv, TypeOK, database, drain, backup, history, request,
      EndDrain
<1>a. 0 \in 0..MaxBatches BY BoundsAssumption
<1>1. TypeOK' BY EndDrainTypes DEF RequestSteps, Image, NoImage
<1>2. SelectSeesNoNamed' BY DEF SelectSeesNoNamed
<1>3. FlagSound' BY DEF FlagSound
<1>4. HandsSound' BY DEF HandsSound
<1>5. UploadsFresh' /\ UploadsStored' /\ AllMinted' /\ ImagesSound' /\
      SettledGone' /\ TodoNamed' /\ HandsOffNamed' /\ NoOrphan' /\
      RowsKeepFiles'
    BY DEF UploadsFresh, UploadsStored, AllMinted, ImagesSound, SettledGone,
      TodoNamed, HandsOffNamed, NoOrphan, RowsKeepFiles, Fresh, InHand, Hand,
      Todo, Unfiled
<1> QED BY <1>1, <1>2, <1>3, <1>4, <1>5

(* DrainDelete: the object of a key in hand goes.                          *)
LEMMA DrainDeleteKeeps ==
    ASSUME Inv, NEW w \in Workers, NEW k \in Keys, DrainDelete(w, k)
    PROVE  Inv'
<1> USE BoundsAssumption DEF
    DrainDelete, Inv, TypeOK, database, drain, backup, history, request
<1>1. TypeOK' BY DEF DrainSteps
<1>2. UploadsFresh' BY DEF UploadsFresh, Fresh, InHand, Hand, Todo
<1>3. UploadsStored' BY DEF UploadsStored, UploadsFresh, Fresh, InHand, Hand
<1>4. AllMinted' BY DEF AllMinted, InHand, Hand, Todo
<1>5. SelectSeesNoNamed' BY DEF SelectSeesNoNamed
<1>6. SettledGone' BY DEF SettledGone
<1>7. FlagSound' BY DEF FlagSound
<1>8. HandsSound' BY DEF HandsSound
<1>9. HandsOffNamed' BY DEF HandsOffNamed, InHand, Hand
<1>10. NoOrphan' BY DEF NoOrphan, Unfiled
<1>11. RowsKeepFiles' BY DEF RowsKeepFiles, Todo, HandsOffNamed, InHand, Hand
<1>12. ImagesSound' /\ TodoNamed'
    BY DEF ImagesSound, TodoNamed, Todo
<1> QED
    BY <1>1, <1>2, <1>3, <1>4, <1>5, <1>6, <1>7, <1>8, <1>9, <1>10, <1>11,
      <1>12

(* DrainDeleteFails: the delete errs, and the object may be gone.          *)
LEMMA DrainDeleteFailsKeeps ==
    ASSUME Inv, NEW w \in Workers, NEW k \in Keys, DrainDeleteFails(w, k)
    PROVE  Inv'
<1> USE BoundsAssumption DEF
    DrainDeleteFails, Inv, TypeOK, database, drain, backup, history, request
<1>1. TypeOK' OBVIOUS
<1>2. UploadsFresh' BY DEF UploadsFresh, Fresh, InHand, Hand, Todo
<1>3. UploadsStored' BY DEF UploadsStored, UploadsFresh, Fresh, InHand, Hand
<1>4. AllMinted' BY DEF AllMinted, InHand, Hand, Todo
<1>5. SettledGone' BY DEF SettledGone
<1>6. HandsSound' BY DEF HandsSound
<1>7. HandsOffNamed' BY DEF HandsOffNamed, InHand, Hand
<1>8. NoOrphan' BY DEF NoOrphan, Unfiled
<1>9. RowsKeepFiles' BY DEF RowsKeepFiles, Todo, HandsOffNamed, InHand, Hand
<1>10. ImagesSound' /\ SelectSeesNoNamed' /\ TodoNamed' /\ FlagSound'
    BY DEF ImagesSound, SelectSeesNoNamed, TodoNamed, FlagSound, Todo
<1> QED BY <1>1, <1>2, <1>3, <1>4, <1>5, <1>6, <1>7, <1>8, <1>9, <1>10

(* DrainDone: the outbox loses a key whose object is gone.                 *)
LEMMA DrainDoneKeeps ==
    ASSUME Inv, NEW w \in Workers, DrainDone(w)
    PROVE  Inv'
<1> USE BoundsAssumption DEF
    DrainDone, Inv, TypeOK, database, drain, backup, history, request
<1>1. TypeOK' BY DEF DrainSteps
<1>2. UploadsFresh' BY DEF UploadsFresh, Fresh, InHand, Hand, Todo
<1>3. AllMinted' BY DEF AllMinted, InHand, Hand, Todo
<1>4. SelectSeesNoNamed' BY DEF SelectSeesNoNamed
<1>5. SettledGone' BY DEF SettledGone
<1>6. FlagSound' BY DEF FlagSound
<1>7. HandsSound' BY DEF HandsSound
<1>8. HandsOffNamed' BY DEF HandsOffNamed, InHand, Hand
<1>9. NoOrphan' BY DEF NoOrphan, Unfiled, SettledGone
<1>10. UploadsStored' /\ ImagesSound' /\ TodoNamed' /\ RowsKeepFiles'
    BY DEF UploadsStored, ImagesSound, TodoNamed, RowsKeepFiles, Todo
<1> QED BY <1>1, <1>2, <1>3, <1>4, <1>5, <1>6, <1>7, <1>8, <1>9, <1>10

(* DrainDoneFails: the key stays in the outbox.                            *)
LEMMA DrainDoneFailsKeeps ==
    ASSUME Inv, NEW w \in Workers, DrainDoneFails(w)
    PROVE  Inv'
<1> USE BoundsAssumption DEF
    DrainDoneFails, Inv, TypeOK, database, drain, backup, history, request
<1>1. TypeOK' BY DEF DrainSteps
<1>2. UploadsFresh' BY DEF UploadsFresh, Fresh, InHand, Hand, Todo
<1>3. AllMinted' BY DEF AllMinted, InHand, Hand, Todo
<1>4. SelectSeesNoNamed' BY DEF SelectSeesNoNamed
<1>5. SettledGone' BY DEF SettledGone
<1>6. FlagSound' BY DEF FlagSound
<1>7. HandsSound' BY DEF HandsSound
<1>8. HandsOffNamed' BY DEF HandsOffNamed, InHand, Hand
<1>9. UploadsStored' /\ ImagesSound' /\ TodoNamed' /\ NoOrphan' /\
      RowsKeepFiles'
    BY DEF UploadsStored, ImagesSound, TodoNamed, NoOrphan, RowsKeepFiles,
      Todo, Unfiled
<1> QED BY <1>1, <1>2, <1>3, <1>4, <1>5, <1>6, <1>7, <1>8, <1>9

(* DrainAgain: the next batch starts.                                      *)
LEMMA DrainAgainKeeps ==
    ASSUME Inv, NEW w \in Workers, DrainAgain(w)
    PROVE  Inv'
<1> USE BoundsAssumption DEF
    DrainAgain, Inv, TypeOK, database, drain, backup, history, request
<1>1. TypeOK' BY DEF DrainSteps
<1>2. SelectSeesNoNamed' BY DEF SelectSeesNoNamed
<1>3. FlagSound' BY DEF FlagSound
<1>4. HandsSound' BY DEF HandsSound
<1>5. UploadsFresh' /\ UploadsStored' /\ AllMinted' /\ ImagesSound' /\
      SettledGone' /\ TodoNamed' /\ HandsOffNamed' /\ NoOrphan' /\
      RowsKeepFiles'
    BY DEF UploadsFresh, UploadsStored, AllMinted, ImagesSound, SettledGone,
      TodoNamed, HandsOffNamed, NoOrphan, RowsKeepFiles, Fresh, InHand, Hand,
      Todo, Unfiled
<1> QED BY <1>1, <1>2, <1>3, <1>4, <1>5

(* DrainEnd: the drain ends.                                               *)
LEMMA DrainEndKeeps ==
    ASSUME Inv, NEW w \in Workers, DrainEnd(w)
    PROVE  Inv'
<1> USE BoundsAssumption DEF
    DrainEnd, Inv, TypeOK, database, drain, backup, history, request, EndDrain
<1>1. TypeOK' BY EndDrainTypes DEF RequestSteps, Image, NoImage
<1>2. SelectSeesNoNamed' BY DEF SelectSeesNoNamed
<1>3. FlagSound' BY DEF FlagSound
<1>4. HandsSound' BY DEF HandsSound
<1>5. UploadsFresh' /\ UploadsStored' /\ AllMinted' /\ ImagesSound' /\
      SettledGone' /\ TodoNamed' /\ HandsOffNamed' /\ NoOrphan' /\
      RowsKeepFiles'
    BY DEF UploadsFresh, UploadsStored, AllMinted, ImagesSound, SettledGone,
      TodoNamed, HandsOffNamed, NoOrphan, RowsKeepFiles, Fresh, InHand, Hand,
      Todo, Unfiled
<1> QED BY <1>1, <1>2, <1>3, <1>4, <1>5

(* BackupStart: a backup reads the nodes.                                  *)
LEMMA BackupStartKeeps ==
    ASSUME Inv, BackupStart
    PROVE  Inv'
<1> USE BoundsAssumption DEF
    BackupStart, Inv, TypeOK, database, drain, backup, history, request
<1>a. image'.files = {} /\ image'.rows = {} OBVIOUS
<1>b. bleft = {} BY DEF ImagesSound
<1>1. TypeOK' BY DEF Image
<1>2. UploadsFresh' BY DEF UploadsFresh, Fresh, InHand, Hand, Todo
<1>3. AllMinted' BY DEF AllMinted, InHand, Hand, Todo
<1>4. ImagesSound' BY <1>a, <1>b DEF ImagesSound
<1>5. UploadsStored' /\ SelectSeesNoNamed' /\ SettledGone' /\ TodoNamed' /\
      FlagSound' /\ HandsSound' /\ HandsOffNamed' /\ NoOrphan' /\
      RowsKeepFiles'
    BY DEF UploadsStored, SelectSeesNoNamed, SettledGone, TodoNamed,
      FlagSound, HandsSound, HandsOffNamed, NoOrphan, RowsKeepFiles, Todo,
      InHand, Hand, Unfiled
<1> QED BY <1>1, <1>2, <1>3, <1>4, <1>5

(* BackupList: it reads the attachments.                                   *)
LEMMA BackupListKeeps ==
    ASSUME Inv, BackupList
    PROVE  Inv'
<1> USE BoundsAssumption DEF
    BackupList, Inv, TypeOK, database, drain, backup, history, request
<1>a. image' = [nodes |-> image.nodes, rows |-> rows, files |-> image.files]
    BY DEF Image
<1>b. image.files = {} BY DEF ImagesSound
<1>1. TypeOK' BY <1>a DEF Image
<1>2. UploadsFresh' BY <1>a DEF UploadsFresh, Fresh, InHand, Hand, Todo
<1>3. AllMinted' BY <1>a DEF AllMinted, InHand, Hand, Todo
<1>4. ImagesSound' BY <1>a, <1>b DEF ImagesSound
<1>5. UploadsStored' /\ SelectSeesNoNamed' /\ SettledGone' /\ TodoNamed' /\
      FlagSound' /\ HandsSound' /\ HandsOffNamed' /\ NoOrphan' /\
      RowsKeepFiles'
    BY DEF UploadsStored, SelectSeesNoNamed, SettledGone, TodoNamed,
      FlagSound, HandsSound, HandsOffNamed, NoOrphan, RowsKeepFiles, Todo,
      InHand, Hand, Unfiled
<1> QED BY <1>1, <1>2, <1>3, <1>4, <1>5

(* BackupFetch: it reads one file.                                         *)
LEMMA BackupFetchKeeps ==
    ASSUME Inv, NEW k \in Keys, BackupFetch(k)
    PROVE  Inv'
<1> USE BoundsAssumption DEF
    BackupFetch, Inv, TypeOK, database, drain, backup, history, request
<1>a. /\ image'.rows = image.rows
      /\ image'.files \subseteq image.files \cup {k}
      /\ image' = [nodes |-> image.nodes, rows |-> image.rows,
                   files |-> image'.files]
    BY DEF Image
<1>b. k \in image.rows BY DEF ImagesSound
<1>1. TypeOK' BY <1>a, <1>b DEF Image
<1>2. UploadsFresh' BY <1>a DEF UploadsFresh, Fresh, InHand, Hand, Todo
<1>3. AllMinted' BY <1>a DEF AllMinted, InHand, Hand, Todo
<1>4. ImagesSound' BY <1>a, <1>b DEF ImagesSound
<1>5. UploadsStored' /\ SelectSeesNoNamed' /\ SettledGone' /\ TodoNamed' /\
      FlagSound' /\ HandsSound' /\ HandsOffNamed' /\ NoOrphan' /\
      RowsKeepFiles'
    BY DEF UploadsStored, SelectSeesNoNamed, SettledGone, TodoNamed,
      FlagSound, HandsSound, HandsOffNamed, NoOrphan, RowsKeepFiles, Todo,
      InHand, Hand, Unfiled
<1> QED BY <1>1, <1>2, <1>3, <1>4, <1>5

(* BackupEnd: its archive is kept.                                         *)
LEMMA BackupEndKeeps ==
    ASSUME Inv, BackupEnd
    PROVE  Inv'
<1> USE BoundsAssumption DEF
    BackupEnd, Inv, TypeOK, database, drain, backup, history, request
<1>a. image'.rows = {} /\ image'.files = {} BY DEF NoImage
<1>1. TypeOK' BY DEF Image, NoImage
<1>2. UploadsFresh' BY <1>a DEF UploadsFresh, Fresh, InHand, Hand, Todo
<1>3. AllMinted' BY <1>a DEF AllMinted, InHand, Hand, Todo
<1>4. ImagesSound' BY <1>a DEF ImagesSound
<1>5. UploadsStored' /\ SelectSeesNoNamed' /\ SettledGone' /\ TodoNamed' /\
      FlagSound' /\ HandsSound' /\ HandsOffNamed' /\ NoOrphan' /\
      RowsKeepFiles'
    BY DEF UploadsStored, SelectSeesNoNamed, SettledGone, TodoNamed,
      FlagSound, HandsSound, HandsOffNamed, NoOrphan, RowsKeepFiles, Todo,
      InHand, Hand, Unfiled
<1> QED BY <1>1, <1>2, <1>3, <1>4, <1>5

(* RestoreCommit: the archive's rows replace the table.                    *)
LEMMA RestoreCommitKeeps ==
    ASSUME Inv, NEW a \in Admins, RestoreCommit(a)
    PROVE  Inv'
<1> USE BoundsAssumption DEF
    RestoreCommit, Inv, TypeOK, database, drain, backup, history, request
<1> PICK im \in archives :
      /\ nodes' = im.nodes
      /\ rows' = im.rows
      /\ queue' = (queue \cup rows) \ im.rows
      /\ todo' = [todo EXCEPT ![a] = Targets(im)]
      /\ contended' = contended \cup (im.rows \cap InHand)
                                \cup (Todo \ im.rows)
      /\ unrestored' = unrestored \cup (im.rows \ (store \cup Targets(im)))
    OBVIOUS
<1>a. im \in Image /\ im.files \subseteq im.rows BY DEF ImagesSound
<1>b. Targets(im) \subseteq im.rows BY <1>a, TargetsNamed
<1>c. im.rows \subseteq Keys /\ im.nodes \subseteq Nodes BY <1>a DEF Image
<1>d. Todo' = Todo \cup Targets(im) BY <1>b, <1>c DEF Todo
<1>e. InHand' = InHand BY DEF InHand, Hand
<1>1. TypeOK'
  <2> USE <1>b, <1>c
  <2>1. todo' \in [Admins -> SUBSET Keys] OBVIOUS
  <2>2. contended' \in SUBSET Keys /\ unrestored' \in SUBSET Keys BY DEF Todo
  <2>3. /\ nodes' \in SUBSET Nodes
        /\ rows' \in SUBSET Keys /\ queue' \in SUBSET Keys
    OBVIOUS
  <2> QED BY <2>1, <2>2, <2>3
<1>2. UploadsFresh' BY <1>b, <1>c, <1>d, <1>e DEF UploadsFresh, Fresh
<1>3. AllMinted' BY <1>b, <1>c, <1>d, <1>e DEF AllMinted
<1>4. SelectSeesNoNamed' BY DEF SelectSeesNoNamed
<1>5. SettledGone' BY DEF SettledGone
<1>6. TodoNamed' BY <1>b, <1>d DEF TodoNamed
<1>7. HandsOffNamed' BY DEF HandsOffNamed, InHand, Hand
<1>8. NoOrphan' BY DEF NoOrphan, Unfiled
<1>9. RowsKeepFiles' BY <1>d DEF RowsKeepFiles
<1>10. UploadsStored' /\ ImagesSound' /\ FlagSound' /\ HandsSound'
    BY DEF UploadsStored, ImagesSound, FlagSound, HandsSound
<1> QED BY <1>1, <1>2, <1>3, <1>4, <1>5, <1>6, <1>7, <1>8, <1>9, <1>10

(* RestorePut: a file comes back.                                          *)
LEMMA RestorePutKeeps ==
    ASSUME Inv, NEW a \in Admins, NEW k \in Keys, RestorePut(a, k)
    PROVE  Inv'
<1> USE BoundsAssumption DEF
    RestorePut, Inv, TypeOK, database, drain, backup, history, request
<1>1. TypeOK' OBVIOUS
<1>2. UploadsFresh' BY DEF UploadsFresh, Fresh, InHand, Hand, Todo
<1>3. UploadsStored' BY DEF UploadsStored
<1>4. AllMinted' BY DEF AllMinted, InHand, Hand, Todo
<1>5. SettledGone'
    BY DEF SettledGone, InHand, Hand, HandsOffNamed, TodoNamed, Todo
<1>6. TodoNamed' BY DEF TodoNamed, Todo
<1>7. NoOrphan' BY DEF NoOrphan, Unfiled, TodoNamed, Todo
<1>8. RowsKeepFiles' BY DEF RowsKeepFiles, Todo
<1>9. ImagesSound' /\ SelectSeesNoNamed' /\ FlagSound' /\ HandsSound' /\
      HandsOffNamed'
    BY DEF ImagesSound, SelectSeesNoNamed, FlagSound, HandsSound,
      HandsOffNamed, InHand, Hand
<1> QED BY <1>1, <1>2, <1>3, <1>4, <1>5, <1>6, <1>7, <1>8, <1>9

(* RestorePutFails: a file does not come back.                             *)
LEMMA RestorePutFailsKeeps ==
    ASSUME Inv, NEW a \in Admins, NEW k \in Keys, RestorePutFails(a, k)
    PROVE  Inv'
<1> USE BoundsAssumption DEF
    RestorePutFails, Inv, TypeOK, database, drain, backup, history, request
<1>1. TypeOK' OBVIOUS
<1>2. UploadsFresh' BY DEF UploadsFresh, Fresh, InHand, Hand, Todo
<1>3. AllMinted' BY DEF AllMinted, InHand, Hand, Todo
<1>4. TodoNamed' BY DEF TodoNamed, Todo
<1>5. RowsKeepFiles' BY DEF RowsKeepFiles, Todo
<1>6. UploadsStored' /\ ImagesSound' /\ SelectSeesNoNamed' /\ SettledGone'
      /\ FlagSound' /\ HandsSound' /\ HandsOffNamed' /\ NoOrphan'
    BY DEF UploadsStored, ImagesSound, SelectSeesNoNamed, SettledGone,
      FlagSound, HandsSound, HandsOffNamed, NoOrphan, InHand, Hand, Unfiled
<1> QED BY <1>1, <1>2, <1>3, <1>4, <1>5, <1>6

(* Crash: every hand is emptied.                                           *)
LEMMA CrashKeeps ==
    ASSUME Inv, Crash
    PROVE  Inv'
<1> USE BoundsAssumption DEF
    Crash, Inv, TypeOK, database, drain, backup, history, request
<1>a. 0 \in 0..MaxBatches BY BoundsAssumption
<1>b. InHand' = {} /\ Todo' = {} BY DEF InHand, Hand, Todo
<1>c. image' \in Image /\ image'.rows = {} BY DEF Image, NoImage
<1>1. TypeOK'
  <2>1. forgotten' \in SUBSET Keys /\ unrestored' \in SUBSET Keys
    BY DEF Unfiled, Todo
  <2>2. rounds' \in [Workers -> 0..MaxBatches] BY <1>a
  <2>3. rpc' \in [Requests -> RequestSteps] /\ dpc' \in [Workers -> DrainSteps]
    BY DEF RequestSteps, DrainSteps
  <2>4. /\ batch' \in [Workers -> SUBSET Keys]
        /\ settling' \in [Workers -> SUBSET Keys]
        /\ full' \in [Workers -> BOOLEAN] /\ progress' \in [Workers -> BOOLEAN]
    OBVIOUS
  <2>5. rkey' \in [Requests -> SUBSET Keys] /\ todo' \in [Admins -> SUBSET Keys]
    OBVIOUS
  <2>6. crashes' \in Nat OBVIOUS
  <2> QED BY <1>c, <2>1, <2>2, <2>3, <2>4, <2>5, <2>6
<1>2. UploadsFresh' BY DEF UploadsFresh
<1>3. UploadsStored' BY DEF UploadsStored
<1>4. AllMinted' BY <1>b, <1>c DEF AllMinted
<1>5. ImagesSound' BY DEF ImagesSound, NoImage
<1>6. SelectSeesNoNamed' BY DEF SelectSeesNoNamed
<1>7. SettledGone' BY DEF SettledGone
<1>8. TodoNamed' BY DEF TodoNamed, Todo
<1>9. FlagSound' BY DEF FlagSound, Workers
<1>10. HandsSound' BY DEF HandsSound
<1>11. HandsOffNamed' BY DEF HandsOffNamed, InHand, Hand
<1>12. NoOrphan' BY DEF NoOrphan
<1>13. RowsKeepFiles' BY DEF RowsKeepFiles
<1> QED
    BY <1>1, <1>2, <1>3, <1>4, <1>5, <1>6, <1>7, <1>8, <1>9, <1>10, <1>11,
      <1>12, <1>13

(* Nothing changes, so the invariant stays.                                *)
LEMMA StutterKeeps ==
    ASSUME Inv, UNCHANGED vars
    PROVE  Inv'
<1> USE DEF Inv, vars
<1>1. TypeOK' BY DEF TypeOK
<1>2. InHand' = InHand /\ Todo' = Todo /\ Unfiled' = Unfiled
    BY DEF InHand, Hand, Todo, Unfiled
<1>3. UploadsFresh' /\ UploadsStored'
    BY <1>2 DEF UploadsFresh, Fresh, UploadsStored
<1>4. AllMinted' /\ ImagesSound' BY <1>2 DEF AllMinted, ImagesSound
<1>5. SelectSeesNoNamed' /\ SettledGone' /\ TodoNamed'
    BY <1>2 DEF SelectSeesNoNamed, SettledGone, TodoNamed
<1>6. FlagSound' /\ HandsSound' BY DEF FlagSound, HandsSound
<1>7. HandsOffNamed' /\ NoOrphan' /\ RowsKeepFiles'
    BY <1>2 DEF HandsOffNamed, NoOrphan, RowsKeepFiles
<1> QED BY <1>1, <1>3, <1>4, <1>5, <1>6, <1>7


(* Every step of the system keeps the invariant.                           *)
LEMMA NextKeeps == Inv /\ [Next]_vars => Inv'
<1> SUFFICES ASSUME Inv, [Next]_vars PROVE Inv' OBVIOUS
<1>1. ASSUME NEW r \in Requests, RequestStep(r) PROVE Inv'
  <2>1. ASSUME NEW k \in Keys, UploadStart(r, k) \/ DeleteStart(r, k) PROVE Inv'
    BY <2>1, UploadStartKeeps, DeleteStartKeeps
  <2>2. CASE UploadPut(r) \/ UploadPutFails(r)
    BY <2>2, UploadPutKeeps, UploadPutFailsKeeps
  <2>3. CASE UploadInsert(r) \/ UploadInsertFails(r)
    BY <2>3, UploadInsertKeeps, UploadInsertFailsKeeps
  <2>4. CASE UploadEnqueue(r) \/ UploadEnqueueFails(r)
    BY <2>4, UploadEnqueueKeeps, UploadEnqueueFailsKeeps
  <2>5. CASE DeleteRow(r) \/ DeleteRowGone(r)
    BY <2>5, DeleteRowKeeps, DeleteRowGoneKeeps
  <2>6. ASSUME NEW n \in Nodes, DeleteNode(r, n) PROVE Inv'
    <3>1. {n} \in SUBSET Nodes OBVIOUS
    <3> QED BY <2>6, <3>1, DeleteNodesKeeps DEF DeleteNode
  <2>7. ASSUME NEW u \in Users, PurgeAccount(r, u) PROVE Inv'
    <3>1. {n \in nodes : OwnerOf[n] = u} \in SUBSET Nodes BY DEF Inv, TypeOK
    <3> QED BY <2>7, <3>1, DeleteNodesKeeps DEF PurgeAccount
  <2>8. CASE Kick(r) BY <2>8, KickKeeps
  <2> QED BY <1>1, <2>1, <2>2, <2>3, <2>4, <2>5, <2>6, <2>7, <2>8
          DEF RequestStep
<1>2. CASE DailyTick BY <1>2, DailyTickKeeps
<1>3. ASSUME NEW w \in Workers, DrainStep(w) PROVE Inv'
  <2>1. CASE DrainClean(w) BY <2>1, DrainCleanKeeps
  <2>2. CASE DrainSelect(w) BY <2>2, DrainSelectKeeps
  <2>3. CASE DrainReadFails(w) BY <2>3, DrainReadFailsKeeps
  <2>4. ASSUME NEW k \in Keys, DrainDelete(w, k) \/ DrainDeleteFails(w, k)
        PROVE Inv'
    BY <2>4, DrainDeleteKeeps, DrainDeleteFailsKeeps
  <2>5. CASE DrainDone(w) \/ DrainDoneFails(w)
    BY <2>5, DrainDoneKeeps, DrainDoneFailsKeeps
  <2>6. CASE DrainAgain(w) \/ DrainEnd(w)
    BY <2>6, DrainAgainKeeps, DrainEndKeeps
  <2> QED BY <1>3, <2>1, <2>2, <2>3, <2>4, <2>5, <2>6 DEF DrainStep
<1>4. CASE BackupStep
  <2>1. CASE BackupStart \/ BackupList \/ BackupEnd
    BY <2>1, BackupStartKeeps, BackupListKeeps, BackupEndKeeps
  <2>2. ASSUME NEW k \in Keys, BackupFetch(k) PROVE Inv'
    BY <2>2, BackupFetchKeeps
  <2> QED BY <1>4, <2>1, <2>2 DEF BackupStep
<1>5. ASSUME NEW a \in Admins, RestoreStep(a) PROVE Inv'
  <2>1. CASE RestoreCommit(a) BY <2>1, RestoreCommitKeeps
  <2>2. ASSUME NEW k \in Keys, RestorePut(a, k) \/ RestorePutFails(a, k)
        PROVE Inv'
    BY <2>2, RestorePutKeeps, RestorePutFailsKeeps
  <2> QED BY <1>5, <2>1, <2>2 DEF RestoreStep
<1>6. CASE Crash BY <1>6, CrashKeeps
<1>7. CASE UNCHANGED vars BY <1>7, StutterKeeps
<1> QED BY <1>1, <1>2, <1>3, <1>4, <1>5, <1>6, <1>7 DEF Next

(* Inv holds in every reachable state, and with it each of its conjuncts.  *)
THEOREM SpecInv == Spec => []Inv
<1> QED BY InitInv, NextKeeps, PTL DEF Spec

(* Every variable keeps its type; no drain runs more than MAX_BATCHES      *)
(* batches (outbox.rs).                                                    *)
THEOREM SpecTypeOK == Spec => []TypeOK
<1>1. Inv => TypeOK BY DEF Inv
<1> QED BY <1>1, SpecInv, PTL

(* No stored object is orphaned, whatever uploads, deletes, drains,        *)
(* restores, failures and crashes do, outside the two named exceptions.    *)
THEOREM SpecNoOrphan == Spec => []NoOrphan
<1>1. Inv => NoOrphan BY DEF Inv
<1> QED BY <1>1, SpecInv, PTL

(* A row keeps its file: a drain deletes no object a row names, except     *)
(* where a restore and a delete worked on one key at the same time.        *)
THEOREM SpecRowsKeepFiles == Spec => []RowsKeepFiles
<1>1. Inv => RowsKeepFiles BY DEF Inv
<1> QED BY <1>1, SpecInv, PTL

(* No drain holds a key that a row names, contended keys apart: what the   *)
(* two statements of `due` are for (object_deletion.rs).                   *)
THEOREM SpecHandsOffNamed == Spec => []HandsOffNamed
<1>1. Inv => HandsOffNamed BY DEF Inv
<1> QED BY <1>1, SpecInv, PTL

(* Only a drain takes an object out of storage, from a batch that holds no *)
(* named key (outbox.rs), so no step deletes an object that a row names.   *)
LEMMA NextDeletesNothingNamed ==
    ASSUME Inv, [Next]_vars, NEW k \in store, k \notin store'
    PROVE  k \notin rows \/ k \in contended
<1> USE DEF database, request, drain, backup, history
<1>1. ASSUME NEW r \in Requests, RequestStep(r) PROVE FALSE
  <2>1. store \subseteq store'
    BY <1>1 DEF RequestStep, UploadStart, UploadPut, UploadPutFails, UploadInsert,
         UploadInsertFails, UploadEnqueue, UploadEnqueueFails, DeleteStart,
         DeleteRow, DeleteRowGone, DeleteNode, PurgeAccount, DeleteNodes, Kick
  <2> QED BY <2>1
<1>2. ASSUME NEW w \in Workers, DrainStep(w)
      PROVE  k \notin rows \/ k \in contended
  <2>1. k \in batch[w]
    BY <1>2 DEF DrainStep, DrainClean, DrainSelect, DrainReadFails, EndDrain,
         DrainDelete, DrainDeleteFails, DrainDone, DrainDoneFails, DrainAgain,
         DrainEnd
  <2>2. k \in InHand BY <2>1 DEF InHand, Hand, Inv, TypeOK
  <2> QED BY <2>2 DEF Inv, HandsOffNamed
<1>3. DailyTick \/ BackupStep \/ Crash => store' = store
    BY DEF DailyTick, BackupStep, BackupStart, BackupList, BackupFetch,
         BackupEnd, Crash
<1>4. ASSUME NEW a \in Admins, RestoreStep(a) PROVE store \subseteq store'
    BY <1>4 DEF RestoreStep, RestoreCommit, RestorePut, RestorePutFails
<1>5. UNCHANGED vars => store' = store BY DEF vars
<1> QED BY <1>1, <1>2, <1>3, <1>4, <1>5 DEF Next

(* No step deletes an object that a row names, contended keys apart.       *)
THEOREM SpecDeletesNothingNamed == Spec => DeletesNothingNamed
<1>1. Inv /\ [Next]_vars
        => [\A k \in store : k \notin store'
               => k \notin rows \/ k \in contended]_vars
    BY NextDeletesNothingNamed
<1> QED BY <1>1, SpecInv, PTL DEF Spec, DeletesNothingNamed
=============================================================================
