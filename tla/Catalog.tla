-------------------------------- MODULE Catalog --------------------------------
(***************************************************************************)
(* The games and their packages: internal/admin/handler.go writes the two   *)
(* tables and the package directory, internal/game/service.go reads the     *)
(* tables through its cache.  The services are two processes that share the *)
(* database; an upload goes file by file and takes no lock.                 *)
(*                                                                         *)
(* A package is the set of its entries.  What a manifest says beyond being   *)
(* acceptable is left out, and so are the other columns.                     *)
(***************************************************************************)
EXTENDS Naturals, Sequences

CONSTANTS Games, Versions,
          Packages,   \* what is uploaded
          Names,      \* names of entries
          EntriesOf,  \* the entries of a package
          Paths,      \* files of the storage
          Place,      \* where an entry of a version is written: filepath.Join cleans the
                      \* version and the name, so two of them may land on one path
          Millis,     \* values of UnixMilli that uploads under way may see
          Uploads,    \* UploadPackage calls that may be under way at once
          Publishes,  \* PublishGame calls
          Readers,    \* handlers of the game service in GetGame or GetLatestVersion
          MaxRows,    \* bound: version rows of a game
          NoRow, NoCopy, NoFile

Statuses == {"draft", "published", "offline"}
ASSUME NoRowAssumption == NoRow \notin Statuses
ASSUME NoFileAssumption == NoFile \notin Packages
ASSUME PackagesAssumption == /\ EntriesOf \in [Packages -> SUBSET Names]
                             /\ Place \in [Games \X Versions \X Names -> Paths]

VARIABLES
  created,  \* games that were ever created
  status,   \* status of a game's row; NoRow before CreateGame and after DeleteGame
  rows,     \* the version rows of a game, oldest first: the version and, as history, the
            \* package the call was given
  tmp,      \* upload_<game>_<millis>.zip in the temporary directory
  store,    \* whose entry a path of the storage holds; NoFile if none, or a damaged one
  upload,   \* the UploadPackage calls
  publish,  \* the PublishGame calls
  redis,    \* Redis game:<id> and game_version:<id>
  reader,   \* the handlers in GetGame or GetLatestVersion
  mixed     \* history: versions written to since their newest row, other than by the
            \* upload that made the row, alone and with every entry written

adminVars == <<tmp, store, upload, publish, created, mixed>>
cacheVars == <<redis, reader>>
cvars == <<status, rows, adminVars, cacheVars>>

\* What the database answers: GetGame's query, which CreateRoom uses too, and
\* GetLatestVersion's, the newest active row; none is ever set to deprecated.
GameRow(g) == status[g]
LatestRow(g) == IF rows[g] = <<>> THEN NoRow ELSE Len(rows[g])

Entries == {"game", "latest"} \X Games
Answer == [e \in Entries |-> IF e[1] = "game" THEN GameRow(e[2]) ELSE LatestRow(e[2])]
Cache == INSTANCE CacheAside WITH Keys <- Entries, row <- Answer, copy <- redis, fill <- reader

Idle == [step |-> "idle"]

Init == /\ created = {} /\ status = [g \in Games |-> NoRow]
        /\ rows = [g \in Games |-> <<>>]
        /\ tmp = [f \in Games \X Millis |-> NoFile]
        /\ store = [x \in Paths |-> NoFile]
        /\ upload = [u \in Uploads |-> Idle] /\ publish = [p \in Publishes |-> Idle]
        /\ Cache!CacheInit
        /\ mixed = {}

------------------------------------------------------------------------------
\* CreateGame: a draft, under an id of its own.
CreateGame(g) ==
  /\ g \notin created /\ created' = created \union {g}
  /\ status' = [status EXCEPT ![g] = "draft"]
  /\ UNCHANGED <<rows, tmp, store, upload, publish, mixed, cacheVars>>

\* UpdateGame writes whatever columns the request names, the status among them.
UpdateGame(g, s) ==
  /\ status[g] # NoRow
  /\ status' = [status EXCEPT ![g] = s]
  /\ UNCHANGED <<rows, tmp, store, upload, publish, created, mixed, cacheVars>>

\* DeleteGame sets deleted_at: no query finds the row any more.
DeleteGame(g) ==
  /\ status[g] # NoRow
  /\ status' = [status EXCEPT ![g] = NoRow]
  /\ UNCHANGED <<rows, adminVars, cacheVars>>

UnpublishGame(g) ==
  /\ status[g] # NoRow
  /\ status' = [status EXCEPT ![g] = "offline"]
  /\ UNCHANGED <<rows, tmp, store, upload, publish, created, mixed, cacheVars>>

HasVersion(g, v) == \E i \in DOMAIN rows[g] : rows[g][i].version = v

\* The version not looked for.
PublishUnchecked(p, g, v) ==
  /\ publish[p] = Idle /\ g \in created
  /\ publish' = [publish EXCEPT ![p] = [step |-> "set", game |-> g]]
  /\ UNCHANGED <<status, rows, tmp, store, upload, created, mixed, cacheVars>>

\* PublishGame: looks for a row of the version ...
PublishCheck(p, g, v) ==
  /\ publish[p] = Idle /\ HasVersion(g, v)
  /\ publish' = [publish EXCEPT ![p] = [step |-> "set", game |-> g]]
  /\ UNCHANGED <<status, rows, tmp, store, upload, created, mixed, cacheVars>>

\* ... and sets the status of a game that is still there; the version is not noted.
PublishSet(p) ==
  /\ publish[p].step = "set"
  /\ LET g == publish[p].game IN
       status' = IF status[g] = NoRow THEN status ELSE [status EXCEPT ![g] = "published"]
  /\ publish' = [publish EXCEPT ![p] = Idle]
  /\ UNCHANGED <<rows, tmp, store, upload, created, mixed, cacheVars>>

------------------------------------------------------------------------------
\* UploadPackage.  The bytes go to a temporary file whose name is the game and the time.
File(u) == <<upload[u].game, upload[u].ms>>
Dir(u) == <<upload[u].game, upload[u].version>>
PlaceOf(u, n) == Place[<<upload[u].game, upload[u].version, n>>]

\* The calls under way that share the temporary file or the version with another; neither
\* they nor the other can rely on what they read and write.
Meets(w, g, v, m) == upload[w] # Idle /\ (File(w) = <<g, m>> \/ Dir(w) = <<g, v>>)

UploadBegin(u, g, v, m, k) ==
  /\ upload[u] = Idle /\ status[g] # NoRow /\ Len(rows[g]) < MaxRows
  /\ tmp' = [tmp EXCEPT ![<<g, m>>] = k]
  /\ upload' = [w \in Uploads |->
       IF w = u
       THEN [step |-> "open", game |-> g, version |-> v, ms |-> m, given |-> k, read |-> k,
             todo |-> {}, alone |-> ~\E x \in Uploads : Meets(x, g, v, m)]
       ELSE IF Meets(w, g, v, m) THEN [upload[w] EXCEPT !.alone = FALSE] ELSE upload[w]]
  /\ UNCHANGED <<status, rows, store, publish, created, mixed, cacheVars>>

\* What a call leaves behind when it ends, whichever way: defer os.Remove.
Finish(u) == /\ upload' = [upload EXCEPT ![u] = Idle]
             /\ tmp' = [tmp EXCEPT ![File(u)] = NoFile]

\* Not a zip, no manifest, a field missing, no entry script, or no file any more.
Refuse(u) ==
  /\ upload[u].step = "open" /\ Finish(u)
  /\ UNCHANGED <<status, rows, store, publish, created, mixed, cacheVars>>

\* extractAndValidate opens what the file holds now, which stays readable when the file is
\* removed ...
Open(u) ==
  /\ upload[u].step = "open" /\ tmp[File(u)] # NoFile
  /\ upload' = [upload EXCEPT ![u].step = "write", ![u].read = tmp[File(u)],
                              ![u].todo = EntriesOf[tmp[File(u)]]]
  /\ UNCHANGED <<status, rows, tmp, store, publish, created, mixed, cacheVars>>

\* ... and writes entry by entry, unless another call has written over the file meanwhile.
Writing(u, n) == /\ upload[u].step = "write" /\ n \in upload[u].todo
                 /\ mixed' = mixed \union {Dir(u)}
                 /\ UNCHANGED <<status, rows, tmp, publish, created, cacheVars>>
Readable(u) == {upload[u].read, tmp[File(u)]} \ {NoFile}

\* One directory for all versions of a game.
WriteFlat(u, n) ==
  /\ Writing(u, n) /\ upload' = [upload EXCEPT ![u].todo = @ \ {n}]
  /\ \E k \in Readable(u) :
       store' = [x \in Paths |->
                   IF \E v \in Versions : x = Place[<<upload[u].game, v, n>>] THEN k ELSE store[x]]

WriteEntry(u, n) ==
  /\ Writing(u, n) /\ upload' = [upload EXCEPT ![u].todo = @ \ {n}]
  /\ \E k \in Readable(u) : store' = [store EXCEPT ![PlaceOf(u, n)] = k]

\* An entry that cannot be opened is passed over, and the errors of reading and of writing
\* are not looked at.
LoseEntry(u, n) ==
  /\ Writing(u, n)
  /\ upload' = [upload EXCEPT ![u].todo = @ \ {n}, ![u].alone = FALSE]
  /\ store' = store \/ store' = [store EXCEPT ![PlaceOf(u, n)] = NoFile]

\* The stat of the temporary file is not looked at either: the handler panics on a nil
\* FileInfo if another call with the same name has removed the file.
Extracted(u) == upload[u].step = "write" /\ upload[u].todo = {}
StatPanics(u) ==
  /\ Extracted(u) /\ tmp[File(u)] = NoFile /\ Finish(u)
  /\ UNCHANGED <<status, rows, store, publish, created, mixed, cacheVars>>

\* The database refuses the row: what was written stays.
CreateFails(u) ==
  /\ Extracted(u) /\ tmp[File(u)] # NoFile /\ Finish(u)
  /\ UNCHANGED <<status, rows, store, publish, created, mixed, cacheVars>>

\* The row, whether the game is still there or not, and twice for one version if asked.
CreateVersion(u) ==
  /\ Extracted(u) /\ tmp[File(u)] # NoFile /\ Finish(u)
  /\ rows' = [rows EXCEPT ![upload[u].game] =
                Append(@, [version |-> upload[u].version, package |-> upload[u].given])]
  /\ mixed' = IF upload[u].alone THEN mixed \ {Dir(u)} ELSE mixed \union {Dir(u)}
  /\ UNCHANGED <<status, store, publish, created, cacheVars>>

------------------------------------------------------------------------------
\* The game service reads: what a handler asks Redis for, and what becomes of a miss.
Rest == UNCHANGED <<status, rows, adminVars>>
GetGame(r, g) ==
  (Cache!Miss(r, <<"game", g>>) \/ Cache!Unreachable(r, <<"game", g>>)) /\ Rest
GetLatestVersion(r, g) ==
  (Cache!Miss(r, <<"latest", g>>) \/ Cache!Unreachable(r, <<"latest", g>>)) /\ Rest
Answered(r) == (Cache!Query(r) \/ Cache!Store(r) \/ Cache!StoreLost(r)) /\ Rest
Expired(e) == Cache!Expire(e) /\ Rest

\* The requests of the admin service's routes, and of the two routes that read.
PostGame == \E g \in Games : CreateGame(g)
PutGame == \E g \in Games, s \in Statuses : UpdateGame(g, s)
RemoveGame == \E g \in Games : DeleteGame(g)
PostUpload == \E u \in Uploads, g \in Games, v \in Versions, m \in Millis, k \in Packages :
                UploadBegin(u, g, v, m, k)
PostPublish == \E p \in Publishes, g \in Games, v \in Versions : PublishCheck(p, g, v)
PostUnpublish == \E g \in Games : UnpublishGame(g)
ReadGame == \E r \in Readers, g \in Games : GetGame(r, g)
ReadLatest == \E r \in Readers, g \in Games : GetLatestVersion(r, g)

Next == \/ PostGame \/ PutGame \/ RemoveGame \/ PostUpload \/ PostPublish \/ PostUnpublish
        \/ \E p \in Publishes : PublishSet(p)
        \/ \E u \in Uploads : \/ Refuse(u) \/ Open(u)
                              \/ StatPanics(u) \/ CreateFails(u) \/ CreateVersion(u)
        \/ \E u \in Uploads, n \in Names : WriteEntry(u, n) \/ LoseEntry(u, n)
        \/ ReadGame \/ ReadLatest
        \/ \E r \in Readers : Answered(r)
        \/ \E e \in Entries : Expired(e)

Spec == Init /\ [][Next]_cvars

\* Readers that have asked the database finish, and copies reach their time to live.
FairSpec ==
  /\ Spec
  /\ \A e \in Entries : WF_cvars(Expired(e))
  /\ \A r \in Readers : WF_cvars((Cache!Query(r) \/ Cache!Store(r)) /\ Rest)

------------------------------------------------------------------------------
\* The newest row of a version has its own package behind it, entry by entry, although an
\* upload takes no lock and others come between.  What the code does not promise is left
\* out by name: a version written to since that row by an upload that met another of the
\* version or of its millisecond, that lost an entry, or that got no row (handler.go:116,
\* 239-254), and an entry whose cleaned path is another's too (235, 243).
Private(g, v, n) ==
  \A x \in Games \X Versions \X Names : x # <<g, v, n>> => Place[x] # Place[<<g, v, n>>]
Newest(g, i) == \A j \in DOMAIN rows[g] : j > i => rows[g][j].version # rows[g][i].version
VersionHasPackage ==
  \A g \in Games : \A i \in DOMAIN rows[g] :
    LET row == rows[g][i] IN
      Newest(g, i) /\ <<g, row.version>> \notin mixed =>
        \A n \in EntriesOf[row.package] :
          Private(g, row.version, n) => store[Place[<<g, row.version, n>>]] = row.package

\* The inductive invariant behind the two: an upload that is alone meets no other, its file
\* holds what it was given, and so do the places of what it has written; and the version
\* that PublishGame has found stays.
Rows == [version : Versions, package : Packages]
Calls == [step : {"open", "write"}, game : Games, version : Versions, ms : Millis,
          given : Packages, read : Packages, todo : SUBSET Names, alone : BOOLEAN]
TypeOK ==
  /\ rows \in [Games -> Seq(Rows)]
  /\ tmp \in [Games \X Millis -> Packages \union {NoFile}]
  /\ store \in [Paths -> Packages \union {NoFile}]
  /\ upload \in [Uploads -> {Idle} \union Calls]
  /\ publish \in [Publishes -> {Idle} \union [step : {"set"}, game : Games]]
  /\ status \in [Games -> Statuses \union {NoRow}] /\ mixed \subseteq Games \X Versions
Alone(u) == upload[u] # Idle /\ upload[u].alone
AloneMeetsNone ==
  \A u, w \in Uploads : Alone(u) /\ upload[w] # Idle /\ w # u => File(w) # File(u) /\ Dir(w) # Dir(u)
FileIsOwn == \A u \in Uploads : Alone(u) =>
               tmp[File(u)] = upload[u].given /\ upload[u].read = upload[u].given
WrittenIsOwn ==
  \A u \in Uploads : Alone(u) /\ upload[u].step = "write" =>
    \A n \in EntriesOf[upload[u].given] \ upload[u].todo :
      Private(upload[u].game, upload[u].version, n) => store[PlaceOf(u, n)] = upload[u].given
CheckedHasVersion == \A p \in Publishes : publish[p].step = "set" => rows[publish[p].game] # <<>>
CInv == TypeOK /\ AloneMeetsNone /\ FileIsOwn /\ WrittenIsOwn /\ VersionHasPackage
        /\ CheckedHasVersion

\* PublishGame puts no game in the lobby that has no version to run, although its check and
\* its update are two statements and uploads and deletes come between (handler.go:157-165).
PublishedHasVersion ==
  [][\A g \in Games : status'[g] # status[g] /\ publish' # publish => rows[g] # <<>>]_cvars

\* No write of the admin service reaches the game service's cache, and a reader may write an
\* answer older than another's; yet once the tables rest, what Redis holds of them is true
\* in the end and stays so.
Fresh == \A e \in Entries : redis[e] \in {NoCopy, Answer[e]}
EventuallyFresh == <>[][FALSE]_<<status, rows>> => <>[]Fresh
==============================================================================
