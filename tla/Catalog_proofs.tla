----------------------------- MODULE Catalog_proofs -----------------------------
(***************************************************************************)
(* Version rows have their packages and published games a version, for any   *)
(* numbers of games, versions, uploads and publishers.                       *)
(***************************************************************************)
EXTENDS Catalog, TLAPS

\* What an upload that is under way has.
LEMMA UploadType ==
  ASSUME TypeOK, NEW u \in Uploads, upload[u] # Idle
  PROVE  /\ upload[u] \in Calls /\ upload[u].step # "idle"
         /\ upload[u].game \in Games /\ upload[u].version \in Versions /\ upload[u].ms \in Millis
         /\ upload[u].given \in Packages /\ upload[u].read \in Packages
         /\ upload[u].todo \subseteq Names
         /\ File(u) \in Games \X Millis /\ Dir(u) \in Games \X Versions
  BY DEF TypeOK, Idle, Calls, File, Dir

LEMMA UnderWay ==
  ASSUME TypeOK, NEW u \in Uploads, upload[u].step \in {"open", "write"}
  PROVE  upload[u] # Idle
  BY DEF Idle

\* Nothing is uploaded.
LEMMA InitCInv == Init => CInv
<1> SUFFICES ASSUME Init PROVE CInv
  OBVIOUS
<1>1. TypeOK
  BY DEF Init, TypeOK
<1>2. AloneMeetsNone /\ FileIsOwn /\ WrittenIsOwn /\ VersionHasPackage /\ CheckedHasVersion
  BY DEF Init, Idle, Alone, AloneMeetsNone, FileIsOwn, WrittenIsOwn, VersionHasPackage,
         CheckedHasVersion
<1> QED
  BY <1>1, <1>2 DEF CInv

\* The writes that concern neither a version nor its package.
LEMMA GameCInv ==
  ASSUME CInv, UNCHANGED <<rows, tmp, store, upload, publish, mixed>>,
         status' \in [Games -> Statuses \union {NoRow}]
  PROVE  CInv'
<1>1. TypeOK' /\ AloneMeetsNone' /\ FileIsOwn'
  BY DEF CInv, TypeOK, AloneMeetsNone, FileIsOwn, Alone, File, Dir
<1>2. WrittenIsOwn' /\ VersionHasPackage' /\ CheckedHasVersion'
  BY DEF CInv, WrittenIsOwn, VersionHasPackage, CheckedHasVersion, Alone, PlaceOf, Newest
<1> QED
  BY <1>1, <1>2 DEF CInv

\* PublishGame, whose version stays.
LEMMA PublishCInv ==
  ASSUME CInv, NEW p \in Publishes,
         PublishSet(p) \/ \E g \in Games, v \in Versions : PublishCheck(p, g, v)
  PROVE  CInv'
<1>0. UNCHANGED <<rows, tmp, store, upload, mixed>>
  BY DEF PublishSet, PublishCheck
<1>1. AloneMeetsNone' /\ FileIsOwn' /\ WrittenIsOwn' /\ VersionHasPackage'
  BY <1>0 DEF CInv, AloneMeetsNone, FileIsOwn, WrittenIsOwn, VersionHasPackage, Alone, File, Dir,
              PlaceOf, Newest
<1>2. ASSUME NEW g \in Games, NEW v \in Versions, PublishCheck(p, g, v)
      PROVE  TypeOK' /\ CheckedHasVersion'
  <2>1. rows[g] # <<>>
    BY <1>2 DEF PublishCheck, HasVersion
  <2> QED
    BY <1>2, <2>1 DEF PublishCheck, CInv, TypeOK, CheckedHasVersion, Idle
<1>3. CASE PublishSet(p)
  <2>1. TypeOK'
    BY <1>3 DEF PublishSet, CInv, TypeOK, Statuses
  <2>2. CheckedHasVersion'
    BY <1>3 DEF PublishSet, CInv, TypeOK, CheckedHasVersion, Idle
  <2> QED
    BY <1>1, <2>1, <2>2 DEF CInv
<1> QED
  BY <1>1, <1>2, <1>3 DEF CInv

\* An upload begins: those that it meets are no longer alone, and neither is it then.
LEMMA BeginCInv ==
  ASSUME CInv, NEW u \in Uploads, NEW g \in Games, NEW v \in Versions, NEW m \in Millis,
         NEW k \in Packages, UploadBegin(u, g, v, m, k)
  PROVE  CInv'
<1> DEFINE alone == ~\E x \in Uploads : Meets(x, g, v, m)
           new == [step |-> "open", game |-> g, version |-> v, ms |-> m, given |-> k,
                   read |-> k, todo |-> {}, alone |-> alone]
<1>1. /\ upload[u] = Idle /\ tmp' = [tmp EXCEPT ![<<g, m>>] = k]
      /\ upload' = [w \in Uploads |->
           IF w = u THEN new
           ELSE IF Meets(w, g, v, m) THEN [upload[w] EXCEPT !.alone = FALSE] ELSE upload[w]]
      /\ UNCHANGED <<status, rows, store, publish, mixed>>
  BY DEF UploadBegin
<1>2. new \in Calls
  <2>1. alone \in BOOLEAN
    OBVIOUS
  <2> HIDE DEF alone
  <2> QED
    BY <2>1 DEF Calls
<1>3. \A w \in Uploads \ {u} : Meets(w, g, v, m) =>
        /\ upload[w] # Idle /\ upload'[w] = [upload[w] EXCEPT !.alone = FALSE]
        /\ upload'[w] \in Calls /\ ~upload'[w].alone
        /\ upload'[w].game = upload[w].game /\ upload'[w].version = upload[w].version
        /\ upload'[w].ms = upload[w].ms
  <2> HIDE DEF new
  <2> SUFFICES ASSUME NEW w \in Uploads \ {u}, Meets(w, g, v, m)
               PROVE  /\ upload[w] # Idle /\ upload'[w] = [upload[w] EXCEPT !.alone = FALSE]
                      /\ upload'[w] \in Calls /\ ~upload'[w].alone
                      /\ upload'[w].game = upload[w].game
                      /\ upload'[w].version = upload[w].version
                      /\ upload'[w].ms = upload[w].ms
    OBVIOUS
  <2>1. upload[w] # Idle /\ upload'[w] = [upload[w] EXCEPT !.alone = FALSE]
    BY <1>1 DEF Meets
  <2>2. upload[w] \in Calls
    BY <2>1, UploadType DEF CInv
  <2> QED
    BY <2>1, <2>2 DEF Calls
<1>4. \A w \in Uploads \ {u} : ~Meets(w, g, v, m) => upload'[w] = upload[w]
  BY <1>1
<1>5. TypeOK'
  <2> HIDE DEF new
  <2>1. upload' \in [Uploads -> {Idle} \union Calls]
    BY <1>1, <1>2, <1>3, <1>4 DEF CInv, TypeOK
  <2> QED
    BY <1>1, <2>1 DEF CInv, TypeOK
<1>6. \A w \in Uploads \ {u} : Alone(w)' =>
        Alone(w) /\ upload'[w] = upload[w] /\ File(w) # <<g, m>> /\ Dir(w) # <<g, v>>
  BY <1>3, <1>4 DEF Alone, Meets
<1>7. \A w \in Uploads \ {u} : upload'[w] # Idle =>
        upload[w] # Idle /\ File(w)' = File(w) /\ Dir(w)' = Dir(w)
  BY <1>3, <1>4 DEF File, Dir
<1>8. /\ upload'[u].step = "open" /\ upload'[u].given = k /\ upload'[u].read = k
      /\ upload'[u].alone = alone /\ File(u)' = <<g, m>> /\ Dir(u)' = <<g, v>>
  BY <1>1 DEF File, Dir
<1>9. AloneMeetsNone'
  <2> SUFFICES ASSUME NEW x \in Uploads, NEW w \in Uploads, Alone(x)', upload'[w] # Idle, w # x
               PROVE  File(w)' # File(x)' /\ Dir(w)' # Dir(x)'
    BY DEF AloneMeetsNone
  <2>1. CASE x = u
    <3>1. ~Meets(w, g, v, m) /\ upload[w] # Idle
      BY <1>7, <1>8, <2>1 DEF Alone
    <3> QED
      BY <1>7, <1>8, <2>1, <3>1 DEF Meets
  <2>2. CASE x # u
    <3>1. Alone(x) /\ File(x)' = File(x) /\ Dir(x)' = Dir(x)
          /\ File(x) # <<g, m>> /\ Dir(x) # <<g, v>>
      BY <1>6, <2>2 DEF File, Dir
    <3> QED
      BY <1>7, <1>8, <2>2, <3>1 DEF CInv, AloneMeetsNone
  <2> QED
    BY <2>1, <2>2
<1>10. FileIsOwn'
  <2> SUFFICES ASSUME NEW x \in Uploads, Alone(x)'
               PROVE  tmp'[File(x)'] = upload'[x].given /\ upload'[x].read = upload'[x].given
    BY DEF FileIsOwn
  <2>1. CASE x = u
    BY <1>1, <1>8, <2>1 DEF CInv, TypeOK
  <2>2. CASE x # u
    <3>1. Alone(x) /\ upload'[x] = upload[x] /\ File(x)' = File(x) /\ File(x) # <<g, m>>
      BY <1>6, <2>2 DEF File
    <3>2. File(x) \in Games \X Millis
      BY <3>1, UploadType DEF CInv, Alone
    <3> QED
      BY <1>1, <3>1, <3>2 DEF CInv, TypeOK, FileIsOwn
  <2> QED
    BY <2>1, <2>2
<1>11. WrittenIsOwn'
  <2> SUFFICES ASSUME NEW x \in Uploads, Alone(x)', upload'[x].step = "write"
               PROVE  \A n \in EntriesOf[upload'[x].given] \ upload'[x].todo :
                        Private(upload'[x].game, upload'[x].version, n)
                          => store[PlaceOf(x, n)'] = upload'[x].given
    BY <1>1 DEF WrittenIsOwn
  <2>1. x # u
    BY <1>8
  <2>2. Alone(x) /\ upload'[x] = upload[x] /\ \A n : PlaceOf(x, n)' = PlaceOf(x, n)
    BY <1>6, <2>1 DEF PlaceOf
  <2> QED
    BY <2>2 DEF CInv, WrittenIsOwn
<1>12. VersionHasPackage' /\ CheckedHasVersion'
  BY <1>1 DEF CInv, VersionHasPackage, CheckedHasVersion, Newest
<1> QED
  BY <1>5, <1>9, <1>10, <1>11, <1>12 DEF CInv

\* The package that an upload reads is its own if it is alone.
LEMMA OpenCInv ==
  ASSUME CInv, NEW u \in Uploads, Open(u)
  PROVE  CInv'
<1> DEFINE k == tmp[File(u)]
<1>1. /\ upload[u].step = "open" /\ k # NoFile
      /\ upload' = [upload EXCEPT ![u].step = "write", ![u].read = k, ![u].todo = EntriesOf[k]]
      /\ UNCHANGED <<status, rows, tmp, store, publish, mixed>>
  BY DEF Open
<1>2. upload[u] # Idle /\ upload[u] \in Calls /\ File(u) \in Games \X Millis
  BY <1>1, UnderWay, UploadType DEF CInv
<1>3. k \in Packages /\ EntriesOf[k] \subseteq Names
  BY <1>1, <1>2, PackagesAssumption DEF CInv, TypeOK
<1>4. Alone(u) => k = upload[u].given
  BY DEF CInv, FileIsOwn
<1> HIDE DEF k
<1>5. /\ upload'[u] \in Calls /\ upload'[u].step = "write" /\ upload'[u].read = k
      /\ upload'[u].todo = EntriesOf[k] /\ upload'[u].alone = upload[u].alone
      /\ upload'[u].game = upload[u].game /\ upload'[u].version = upload[u].version
      /\ upload'[u].ms = upload[u].ms /\ upload'[u].given = upload[u].given
      /\ \A w \in Uploads \ {u} : upload'[w] = upload[w]
  BY <1>1, <1>2, <1>3 DEF CInv, TypeOK, Calls
<1>6. upload'[u] # Idle
  BY <1>5 DEF Idle
<1>7. \A w \in Uploads : /\ File(w)' = File(w) /\ Dir(w)' = Dir(w) /\ Alone(w)' = Alone(w)
                         /\ upload'[w].given = upload[w].given
                         /\ upload'[w] # Idle => upload[w] # Idle
                         /\ \A n : PlaceOf(w, n)' = PlaceOf(w, n)
  BY <1>2, <1>5, <1>6 DEF File, Dir, Alone, PlaceOf
<1>8. TypeOK'
  <2>1. upload' \in [Uploads -> {Idle} \union Calls]
    BY <1>1, <1>5 DEF CInv, TypeOK
  <2> QED
    BY <1>1, <2>1 DEF CInv, TypeOK
<1>9. AloneMeetsNone'
  BY <1>7 DEF CInv, AloneMeetsNone
<1>10. FileIsOwn'
  BY <1>1, <1>4, <1>5, <1>7 DEF CInv, FileIsOwn
<1>11. WrittenIsOwn'
  <2> SUFFICES ASSUME NEW w \in Uploads, Alone(w)', upload'[w].step = "write",
                      NEW n \in EntriesOf[upload'[w].given] \ upload'[w].todo,
                      Private(upload'[w].game, upload'[w].version, n)
               PROVE  store[PlaceOf(w, n)'] = upload'[w].given
    BY <1>1 DEF WrittenIsOwn
  <2>1. w # u
    BY <1>4, <1>5, <1>7
  <2> QED
    BY <1>5, <1>7, <2>1 DEF CInv, WrittenIsOwn
<1>12. VersionHasPackage' /\ CheckedHasVersion'
  BY <1>1 DEF CInv, VersionHasPackage, CheckedHasVersion, Newest
<1> QED
  BY <1>8, <1>9, <1>10, <1>11, <1>12 DEF CInv

\* An entry is written, or lost: no other version's private place is touched, and what an
\* upload that is alone writes is its own.
LEMMA WriteCInv ==
  ASSUME CInv, NEW u \in Uploads, NEW n \in Names, WriteEntry(u, n) \/ LoseEntry(u, n)
  PROVE  CInv'
<1> DEFINE place == PlaceOf(u, n)
<1>1. /\ upload[u].step = "write" /\ n \in upload[u].todo /\ mixed' = mixed \union {Dir(u)}
      /\ UNCHANGED <<status, rows, tmp, publish>>
  BY DEF WriteEntry, LoseEntry, Writing
<1>2. upload[u] # Idle
  BY <1>1, UnderWay DEF CInv
<1>3. /\ upload[u] \in Calls /\ File(u) \in Games \X Millis /\ Dir(u) \in Games \X Versions
      /\ upload[u].game \in Games /\ upload[u].version \in Versions
      /\ upload[u].read \in Packages
  BY <1>2, UploadType DEF CInv
<1>4. place \in Paths
  BY <1>3, PackagesAssumption DEF PlaceOf
<1>5. \A k \in Readable(u) : k \in Packages \union {NoFile}
                             /\ (Alone(u) => k = upload[u].given)
  BY <1>3 DEF Readable, CInv, TypeOK, FileIsOwn
<1> HIDE DEF place
<1>6. /\ upload'[u] \in Calls /\ upload'[u].step = "write"
      /\ upload'[u].todo = upload[u].todo \ {n}
      /\ upload'[u].alone => upload[u].alone /\ WriteEntry(u, n)
      /\ upload'[u].game = upload[u].game /\ upload'[u].version = upload[u].version
      /\ upload'[u].ms = upload[u].ms /\ upload'[u].given = upload[u].given
      /\ upload'[u].read = upload[u].read
      /\ \A w \in Uploads \ {u} : upload'[w] = upload[w]
      /\ upload' \in [Uploads -> {Idle} \union Calls]
  <2>1. CASE WriteEntry(u, n)
    <3>1. upload' = [upload EXCEPT ![u].todo = @ \ {n}]
      BY <2>1 DEF WriteEntry
    <3> QED
      BY <1>1, <1>3, <2>1, <3>1 DEF CInv, TypeOK, Calls
  <2>2. CASE LoseEntry(u, n)
    <3>1. upload' = [upload EXCEPT ![u].todo = @ \ {n}, ![u].alone = FALSE]
      BY <2>2 DEF LoseEntry
    <3> QED
      BY <1>1, <1>3, <3>1 DEF CInv, TypeOK, Calls
  <2> QED
    BY <2>1, <2>2
<1>7. /\ store' \in [Paths -> Packages \union {NoFile}]
      /\ \A x \in Paths : x # place => store'[x] = store[x]
      /\ Alone(u)' => store'[place] = upload[u].given
  <2>1. CASE WriteEntry(u, n)
    <3>1. PICK k \in Readable(u) : store' = [store EXCEPT ![place] = k]
      BY <2>1 DEF WriteEntry, place
    <3>2. Alone(u)' => Alone(u)
      BY <1>2, <1>6 DEF Alone
    <3> QED
      BY <1>4, <1>5, <3>1, <3>2 DEF CInv, TypeOK
  <2>2. CASE LoseEntry(u, n)
    <3>1. store' = store \/ store' = [store EXCEPT ![place] = NoFile]
      BY <2>2 DEF LoseEntry, place
    <3>2. ~upload'[u].alone
      BY <1>3, <2>2 DEF LoseEntry, CInv, TypeOK, Calls
    <3> QED
      BY <1>4, <3>1, <3>2 DEF CInv, TypeOK, Alone
  <2> QED
    BY <2>1, <2>2
<1>8. \A w \in Uploads : /\ File(w)' = File(w) /\ Dir(w)' = Dir(w) /\ (Alone(w)' => Alone(w))
                         /\ upload'[w].given = upload[w].given
                         /\ upload'[w].read = upload[w].read
                         /\ upload'[w].game = upload[w].game
                         /\ upload'[w].version = upload[w].version
                         /\ (upload'[w] # Idle => upload[w] # Idle)
                         /\ \A e : PlaceOf(w, e)' = PlaceOf(w, e)
  BY <1>2, <1>6 DEF File, Dir, Alone, PlaceOf
\* A private place of another version, or of another entry, is not the one written.
<1>9. ASSUME NEW g \in Games, NEW v \in Versions, NEW e \in Names, Private(g, v, e),
             <<g, v>> # Dir(u) \/ e # n
      PROVE  store'[Place[<<g, v, e>>]] = store[Place[<<g, v, e>>]]
  <2>1. Place[<<g, v, e>>] \in Paths
    BY PackagesAssumption
  <2>2. /\ <<upload[u].game, upload[u].version, n>> \in Games \X Versions \X Names
        /\ <<upload[u].game, upload[u].version, n>> # <<g, v, e>>
    BY <1>3, <1>9 DEF Dir
  <2>3. place # Place[<<g, v, e>>]
    BY <1>9, <2>2 DEF Private, PlaceOf, place
  <2> QED
    BY <1>7, <2>1, <2>3
<1>10. TypeOK'
  BY <1>1, <1>3, <1>6, <1>7 DEF CInv, TypeOK
<1>11. AloneMeetsNone'
  BY <1>8 DEF CInv, AloneMeetsNone
<1>12. FileIsOwn'
  BY <1>1, <1>8 DEF CInv, FileIsOwn
<1>13. WrittenIsOwn'
  <2> SUFFICES ASSUME NEW w \in Uploads, Alone(w)', upload'[w].step = "write",
                      NEW e \in EntriesOf[upload[w].given] \ upload'[w].todo,
                      Private(upload[w].game, upload[w].version, e)
               PROVE  store'[PlaceOf(w, e)] = upload[w].given
    BY <1>8 DEF WrittenIsOwn
  <2>0. /\ upload[w] # Idle /\ upload[w].game \in Games /\ upload[w].version \in Versions
        /\ upload[w].given \in Packages
    BY <1>8, UploadType DEF CInv, Alone
  <2>1. e \in Names
    BY <2>0, PackagesAssumption
  <2>2. CASE w = u /\ e = n
    BY <1>7, <2>2 DEF place
  <2>3. CASE w = u /\ e # n
    <3>1. e \in EntriesOf[upload[u].given] \ upload[u].todo /\ Alone(u)
      BY <1>6, <1>8, <2>3
    <3>2. store[PlaceOf(u, e)] = upload[u].given
      BY <1>1, <2>3, <3>1 DEF CInv, WrittenIsOwn
    <3> QED
      BY <1>9, <2>0, <2>1, <2>3, <3>2 DEF PlaceOf
  <2>4. CASE w # u
    <3>1. upload'[w] = upload[w] /\ Alone(w) /\ Dir(w) # Dir(u)
      BY <1>2, <1>6, <1>8, <2>4 DEF CInv, AloneMeetsNone
    <3>2. store[PlaceOf(w, e)] = upload[w].given
      BY <3>1 DEF CInv, WrittenIsOwn
    <3>3. <<upload[w].game, upload[w].version>> # Dir(u)
      BY <3>1 DEF Dir
    <3> QED
      BY <1>9, <2>0, <2>1, <3>2, <3>3 DEF PlaceOf
  <2> QED
    BY <2>2, <2>3, <2>4
<1>14. VersionHasPackage'
  <2> SUFFICES ASSUME NEW g \in Games, NEW i \in DOMAIN rows[g], Newest(g, i),
                      <<g, rows[g][i].version>> \notin mixed',
                      NEW e \in EntriesOf[rows[g][i].package],
                      Private(g, rows[g][i].version, e)
               PROVE  store'[Place[<<g, rows[g][i].version, e>>]] = rows[g][i].package
    BY <1>1 DEF VersionHasPackage, Newest
  <2>1. rows[g][i] \in Rows
    BY DEF CInv, TypeOK
  <2>2. rows[g][i].version \in Versions /\ e \in Names
    BY <2>1, PackagesAssumption DEF Rows
  <2>3. store[Place[<<g, rows[g][i].version, e>>]] = rows[g][i].package
    BY <1>1 DEF CInv, VersionHasPackage
  <2> QED
    BY <1>1, <1>9, <2>2, <2>3
<1>15. CheckedHasVersion'
  BY <1>1 DEF CInv, CheckedHasVersion
<1> QED
  BY <1>10, <1>11, <1>12, <1>13, <1>14, <1>15 DEF CInv

\* An upload ends: the others keep their files.
LEMMA FinishFiles ==
  ASSUME CInv, NEW u \in Uploads, upload[u] # Idle, Finish(u)
  PROVE  /\ upload' \in [Uploads -> {Idle} \union Calls]
         /\ tmp' \in [Games \X Millis -> Packages \union {NoFile}]
         /\ AloneMeetsNone' /\ FileIsOwn' /\ (UNCHANGED store => WrittenIsOwn')
<1>1. /\ upload' = [upload EXCEPT ![u] = Idle] /\ tmp' = [tmp EXCEPT ![File(u)] = NoFile]
      /\ File(u) \in Games \X Millis
  BY UploadType DEF Finish, CInv
<1>2. /\ upload'[u] = Idle /\ upload'[u].step = "idle"
      /\ \A w \in Uploads \ {u} : /\ upload'[w] = upload[w] /\ File(w)' = File(w)
                                  /\ Dir(w)' = Dir(w) /\ Alone(w)' = Alone(w)
                                  /\ \A n : PlaceOf(w, n)' = PlaceOf(w, n)
      /\ \A f \in Games \X Millis : f # File(u) => tmp'[f] = tmp[f]
  BY <1>1 DEF CInv, TypeOK, Idle, File, Dir, Alone, PlaceOf
<1>3. ~Alone(u)'
  BY <1>2 DEF Alone
<1>4. AloneMeetsNone'
  BY <1>2, <1>3 DEF CInv, AloneMeetsNone
<1>5. FileIsOwn'
  <2> SUFFICES ASSUME NEW w \in Uploads, Alone(w)'
               PROVE  tmp'[File(w)'] = upload'[w].given /\ upload'[w].read = upload'[w].given
    BY DEF FileIsOwn
  <2>1. w # u /\ Alone(w) /\ File(w)' = File(w) /\ upload'[w] = upload[w]
    BY <1>2, <1>3
  <2>2. File(w) \in Games \X Millis /\ File(w) # File(u)
    BY <2>1, UploadType DEF CInv, AloneMeetsNone, Alone
  <2> QED
    BY <1>2, <2>1, <2>2 DEF CInv, FileIsOwn
<1>6. UNCHANGED store => WrittenIsOwn'
  <2> SUFFICES ASSUME UNCHANGED store, NEW w \in Uploads, Alone(w)', upload'[w].step = "write"
               PROVE  \A n \in EntriesOf[upload'[w].given] \ upload'[w].todo :
                        Private(upload'[w].game, upload'[w].version, n)
                          => store[PlaceOf(w, n)'] = upload'[w].given
    BY DEF WrittenIsOwn
  <2>1. w # u
    BY <1>3
  <2> QED
    BY <1>2, <2>1 DEF CInv, WrittenIsOwn
<1>7. upload' \in [Uploads -> {Idle} \union Calls]
  BY <1>1 DEF CInv, TypeOK
<1>8. tmp' \in [Games \X Millis -> Packages \union {NoFile}]
  BY <1>1 DEF CInv, TypeOK
<1> QED
  BY <1>4, <1>5, <1>6, <1>7, <1>8

\* It ends without a row.
LEMMA FailCInv ==
  ASSUME CInv, NEW u \in Uploads, Refuse(u) \/ StatPanics(u) \/ CreateFails(u)
  PROVE  CInv'
<1>1. /\ upload[u].step \in {"open", "write"} /\ Finish(u)
      /\ UNCHANGED <<status, rows, store, publish, mixed>>
  BY DEF Refuse, StatPanics, CreateFails, Extracted
<1>2. upload[u] # Idle
  BY <1>1, UnderWay DEF CInv
<1>3. TypeOK' /\ AloneMeetsNone' /\ FileIsOwn' /\ WrittenIsOwn'
  BY <1>1, <1>2, FinishFiles DEF CInv, TypeOK
<1>4. VersionHasPackage' /\ CheckedHasVersion'
  BY <1>1 DEF CInv, VersionHasPackage, CheckedHasVersion, Newest
<1> QED
  BY <1>3, <1>4 DEF CInv

\* It ends with a row: that of an upload which was alone has its package.
LEMMA CreateCInv ==
  ASSUME CInv, NEW u \in Uploads, CreateVersion(u)
  PROVE  CInv'
<1> DEFINE g == upload[u].game
           v == upload[u].version
           row == [version |-> v, package |-> upload[u].given]
<1>1. /\ upload[u].step = "write" /\ upload[u].todo = {} /\ Finish(u)
      /\ rows' = [rows EXCEPT ![g] = Append(rows[g], row)]
      /\ mixed' = IF upload[u].alone THEN mixed \ {Dir(u)} ELSE mixed \union {Dir(u)}
      /\ UNCHANGED <<status, store, publish>>
  BY DEF CreateVersion, Extracted
<1>2. upload[u] # Idle
  BY <1>1, UnderWay DEF CInv
<1>3. g \in Games /\ v \in Versions /\ upload[u].given \in Packages /\ Dir(u) = <<g, v>>
      /\ Dir(u) \in Games \X Versions
  BY <1>2, UploadType DEF CInv, Dir
<1>4. row \in Rows /\ row.version = v /\ row.package = upload[u].given
  BY <1>3 DEF Rows
<1>5. Alone(u) => \A n \in EntriesOf[upload[u].given] :
                    Private(g, v, n) => store[Place[<<g, v, n>>]] = upload[u].given
  BY <1>1 DEF CInv, WrittenIsOwn, PlaceOf
<1> HIDE DEF g, v, row
<1>6. rows[g] \in Seq(Rows)
  BY <1>3 DEF CInv, TypeOK
<1>7. /\ rows'[g] = Append(rows[g], row) /\ \A h \in Games \ {g} : rows'[h] = rows[h]
      /\ Append(rows[g], row) \in Seq(Rows) /\ Append(rows[g], row) # <<>>
      /\ Len(rows[g]) \in Nat
      /\ DOMAIN rows'[g] = 1..(Len(rows[g]) + 1) /\ DOMAIN rows[g] = 1..Len(rows[g])
      /\ rows'[g][Len(rows[g]) + 1] = row
      /\ \A i \in 1..Len(rows[g]) : rows'[g][i] = rows[g][i]
  <2>1. rows'[g] = Append(rows[g], row) /\ \A h \in Games \ {g} : rows'[h] = rows[h]
    BY <1>1, <1>3 DEF CInv, TypeOK
  <2>2. /\ Append(rows[g], row) \in Seq(Rows) /\ Len(rows[g]) \in Nat
        /\ Len(Append(rows[g], row)) = Len(rows[g]) + 1
        /\ Append(rows[g], row)[Len(rows[g]) + 1] = row
        /\ \A i \in 1..Len(rows[g]) : Append(rows[g], row)[i] = rows[g][i]
        /\ DOMAIN rows[g] = 1..Len(rows[g])
    BY <1>4, <1>6
  <2>3. DOMAIN Append(rows[g], row) = 1..(Len(rows[g]) + 1) /\ Append(rows[g], row) # <<>>
    BY <2>2
  <2> QED
    BY <2>1, <2>2, <2>3
<1>8. TypeOK'
  <2>1. rows' \in [Games -> Seq(Rows)]
    BY <1>1, <1>3, <1>7 DEF CInv, TypeOK
  <2>2. mixed' \subseteq Games \X Versions
    BY <1>1, <1>3 DEF CInv, TypeOK
  <2> QED
    BY <1>1, <1>2, <2>1, <2>2, FinishFiles DEF CInv, TypeOK
<1>9. AloneMeetsNone' /\ FileIsOwn' /\ WrittenIsOwn'
  BY <1>1, <1>2, FinishFiles
<1>10. VersionHasPackage'
  <2> SUFFICES ASSUME NEW h \in Games, NEW i \in DOMAIN rows'[h], Newest(h, i)',
                      <<h, rows'[h][i].version>> \notin mixed',
                      NEW n \in EntriesOf[rows'[h][i].package],
                      Private(h, rows'[h][i].version, n)
               PROVE  store[Place[<<h, rows'[h][i].version, n>>]] = rows'[h][i].package
    BY <1>1 DEF VersionHasPackage
  <2>1. CASE h = g /\ i = Len(rows[g]) + 1
    <3>1. rows'[h][i] = row /\ Alone(u)
      BY <1>1, <1>2, <1>3, <1>4, <1>7, <2>1 DEF Alone
    <3> QED
      BY <1>4, <1>5, <2>1, <3>1
  <2>2. CASE ~(h = g /\ i = Len(rows[g]) + 1)
    <3>1. i \in DOMAIN rows[h] /\ rows'[h][i] = rows[h][i]
      BY <1>7, <2>2
    <3>2. <<h, rows[h][i].version>> # Dir(u)
      <4>1. CASE h = g
        <5>1. Len(rows[g]) + 1 \in DOMAIN rows'[g] /\ Len(rows[g]) + 1 > i
          BY <1>7, <2>2, <3>1, <4>1
        <5>2. rows'[g][Len(rows[g]) + 1].version # rows'[g][i].version
          BY <4>1, <5>1 DEF Newest
        <5> QED
          BY <1>3, <1>4, <1>7, <3>1, <4>1, <5>2
      <4>2. CASE h # g
        BY <1>3, <4>2
      <4> QED
        BY <4>1, <4>2
    <3>3. <<h, rows[h][i].version>> \notin mixed
      BY <1>1, <3>1, <3>2
    <3>4. Newest(h, i)
      <4> SUFFICES ASSUME NEW j \in DOMAIN rows[h], j > i
                   PROVE  rows[h][j].version # rows[h][i].version
        BY DEF Newest
      <4>1. j \in DOMAIN rows'[h] /\ rows'[h][j] = rows[h][j]
        <5>1. CASE h = g
          <6>1. j \in 1..Len(rows[g]) /\ j \in 1..(Len(rows[g]) + 1)
            BY <1>7, <5>1
          <6> QED
            BY <1>7, <5>1, <6>1
        <5>2. CASE h # g
          <6>1. rows'[h] = rows[h]
            BY <1>7, <5>2
          <6> QED
            BY <6>1
        <5> QED
          BY <5>1, <5>2
      <4> QED
        BY <3>1, <4>1 DEF Newest
    <3> QED
      BY <3>1, <3>3, <3>4 DEF CInv, VersionHasPackage
  <2> QED
    BY <2>1, <2>2
<1>11. CheckedHasVersion'
  <2> SUFFICES ASSUME NEW p \in Publishes, publish[p].step = "set"
               PROVE  rows'[publish[p].game] # <<>>
    BY <1>1 DEF CheckedHasVersion
  <2>1. publish[p].game \in Games
    BY DEF CInv, TypeOK, Idle
  <2>2. CASE publish[p].game = g
    BY <1>7, <2>2
  <2>3. CASE publish[p].game # g
    BY <1>7, <2>1, <2>3 DEF CInv, CheckedHasVersion
  <2> QED
    BY <2>2, <2>3
<1> QED
  BY <1>8, <1>9, <1>10, <1>11 DEF CInv

\* CInv is an invariant of the catalog, whatever the numbers of uploads and publishers.
THEOREM CatalogInvariance == Spec => []CInv
<1>1. ASSUME CInv, [Next]_cvars PROVE CInv'
  <2>1. CASE PostGame \/ PutGame \/ RemoveGame \/ PostUnpublish
    <3>1. UNCHANGED <<rows, tmp, store, upload, publish, mixed>>
      BY <2>1 DEF PostGame, PutGame, RemoveGame, PostUnpublish, CreateGame, UpdateGame,
                  DeleteGame, UnpublishGame, adminVars
    <3>2. status' \in [Games -> Statuses \union {NoRow}]
      BY <1>1, <2>1 DEF PostGame, PutGame, RemoveGame, PostUnpublish, CreateGame, UpdateGame,
                        DeleteGame, UnpublishGame, CInv, TypeOK, Statuses
    <3> QED
      BY <1>1, <3>1, <3>2, GameCInv
  <2>2. CASE PostPublish \/ \E p \in Publishes : PublishSet(p)
    BY <1>1, <2>2, PublishCInv DEF PostPublish
  <2>3. CASE PostUpload
    BY <1>1, <2>3, BeginCInv DEF PostUpload
  <2>4. CASE \/ \E u \in Uploads : Open(u)
             \/ \E u \in Uploads, n \in Names : WriteEntry(u, n) \/ LoseEntry(u, n)
    BY <1>1, <2>4, OpenCInv, WriteCInv
  <2>5. CASE \E u \in Uploads : \/ Refuse(u) \/ StatPanics(u) \/ CreateFails(u)
                               \/ CreateVersion(u)
    BY <1>1, <2>5, FailCInv, CreateCInv
  <2>6. CASE UNCHANGED <<status, rows, adminVars>>
    <3>1. UNCHANGED <<status, rows, tmp, store, upload, publish, mixed>>
      BY <2>6 DEF adminVars
    <3> QED
      BY <1>1, <3>1, GameCInv DEF CInv, TypeOK
  <2>7. \/ PostGame \/ PutGame \/ RemoveGame \/ PostUnpublish \/ PostUpload \/ PostPublish
        \/ \E p \in Publishes : PublishSet(p)
        \/ \E u \in Uploads : Open(u)
        \/ \E u \in Uploads, n \in Names : WriteEntry(u, n) \/ LoseEntry(u, n)
        \/ \E u \in Uploads : Refuse(u) \/ StatPanics(u) \/ CreateFails(u) \/ CreateVersion(u)
        \/ UNCHANGED <<status, rows, adminVars>>
    BY <1>1 DEF Next, ReadGame, ReadLatest, GetGame, GetLatestVersion, Answered, Expired, Rest, cvars
  <2> QED
    BY <2>1, <2>2, <2>3, <2>4, <2>5, <2>6, <2>7
<1> QED
  BY InitCInv, <1>1, PTL DEF Spec

\* The newest row of a version has its own package behind it, for any packages and any way of
\* cleaning paths; what is excepted is named in VersionHasPackage (handler.go:116, 231-254).
THEOREM RowsHavePackages == Spec => []VersionHasPackage
<1>1. CInv => VersionHasPackage
  BY DEF CInv
<1> QED
  BY <1>1, CatalogInvariance, PTL

\* No step of PublishGame publishes a game without a version (handler.go:157-165).
THEOREM PublishingNeedsVersion == Spec => PublishedHasVersion
<1>1. ASSUME CInv, [Next]_cvars, UNCHANGED cvars \/ publish' = publish
      PROVE  [\A g \in Games : status'[g] # status[g] /\ publish' # publish
                => rows[g] # <<>>]_cvars
  BY <1>1 DEF cvars, adminVars
<1>2. ASSUME CInv, NEW p \in Publishes, PublishSet(p), NEW g \in Games, status'[g] # status[g]
      PROVE  rows[g] # <<>>
  <2>1. g = publish[p].game
    BY <1>2 DEF PublishSet, CInv, TypeOK
  <2> QED
    BY <1>2, <2>1 DEF PublishSet, CInv, CheckedHasVersion
<1>3. ASSUME NEW p \in Publishes, NEW g \in Games, NEW v \in Versions, PublishCheck(p, g, v)
      PROVE  status' = status
  BY <1>3 DEF PublishCheck
<1>4. [Next]_cvars => \/ UNCHANGED cvars \/ publish' = publish
                      \/ \E p \in Publishes : PublishSet(p)
                      \/ \E p \in Publishes, g \in Games, v \in Versions : PublishCheck(p, g, v)
  BY DEF Next, PostGame, PutGame, RemoveGame, PostUpload, PostPublish, PostUnpublish,
         CreateGame, UpdateGame, DeleteGame, UnpublishGame, UploadBegin, Refuse, Open,
         Writing, WriteEntry, LoseEntry, StatPanics, CreateFails, CreateVersion, ReadGame, ReadLatest, GetGame,
         GetLatestVersion, Answered, Expired, Rest, adminVars, cvars
<1>5. ASSUME CInv, [Next]_cvars
      PROVE  [\A g \in Games : status'[g] # status[g] /\ publish' # publish
                => rows[g] # <<>>]_cvars
  BY <1>1, <1>2, <1>3, <1>4, <1>5
<1> QED
  BY <1>5, CatalogInvariance, PTL DEF Spec, PublishedHasVersion

------------------------------------------------------------------------------
(* The game service's cache, which nobody tells of a change.                *)

\* What a cached answer can be, however old: a row of a version that is there, or a status
\* that some game that was created has had.
KnownTo(e, v, versions, games) ==
  IF e[1] = "latest" THEN v \in 1..Len(versions[e[2]]) ELSE v \in Statuses /\ e[2] \in games
Known(e, v) == KnownTo(e, v, rows, created)

\* A cached latest version, stale or not, is one that the table has; so a room is never
\* created with a version that is gone.
CachedVersionExists ==
  \A g \in Games : redis[<<"latest", g>>] # NoCopy => redis[<<"latest", g>>] \in DOMAIN rows[g]

Fills == {Cache!Resting} \union {Cache!AtQuery(e) : e \in Entries}
         \union {Cache!AtStore(e, v) : e \in Entries, v \in Statuses \union Nat}

\* The cache, and what readers are about to put into it.
CopiesKnown == /\ redis \in [Entries -> {NoCopy} \union Statuses \union Nat]
               /\ \A e \in Entries : redis[e] # NoCopy => Known(e, redis[e])
FillsKnown == /\ reader \in [Readers -> Fills]
              /\ \A r \in Readers : reader[r].step = "store" => Known(reader[r].key, reader[r].value)
RowsCreated == \A g \in Games : status[g] # NoRow => g \in created
CacheInv == CopiesKnown /\ FillsKnown /\ RowsCreated

LEMMA InitCacheInv == Init => CacheInv
<1> SUFFICES ASSUME Init PROVE CacheInv
  OBVIOUS
<1>1. redis = [e \in Entries |-> NoCopy] /\ reader = [r \in Readers |-> Cache!Resting]
  BY DEF Init, Cache!CacheInit
<1>2. Cache!Resting \in Fills /\ Cache!Resting.step # "store"
  BY DEF Fills, Cache!Resting
<1> QED
  BY <1>1, <1>2 DEF Init, CacheInv, CopiesKnown, FillsKnown, RowsCreated

\* The admin service's steps: rows are only added, games only created.
LEMMA AdminGrows ==
  ASSUME CInv, [Next]_cvars
  PROVE  /\ created \subseteq created'
         /\ \A g \in Games : Len(rows[g]) \in Nat /\ Len(rows'[g]) \in Nat /\ Len(rows[g]) <= Len(rows'[g])
<1>0. \A g \in Games : rows[g] \in Seq(Rows)
  BY DEF CInv, TypeOK
<1>1. CASE UNCHANGED rows
  <2>1. created \subseteq created'
    BY DEF Next, PostGame, PutGame, RemoveGame, PostUpload, PostPublish, PostUnpublish,
         CreateGame, UpdateGame, DeleteGame, UnpublishGame, PublishCheck, PublishSet, UploadBegin,
         Refuse, Open, Writing, WriteEntry, LoseEntry, StatPanics, CreateFails, CreateVersion, ReadGame, ReadLatest, GetGame,
         GetLatestVersion, Answered, Expired, Rest, adminVars, cvars
  <2> QED
    BY <1>0, <1>1, <2>1
<1>2. ASSUME NEW u \in Uploads, CreateVersion(u)
      PROVE  /\ created \subseteq created'
             /\ \A g \in Games : Len(rows'[g]) \in Nat /\ Len(rows[g]) <= Len(rows'[g])
  <2> DEFINE row == [version |-> upload[u].version, package |-> upload[u].given]
  <2>1. /\ rows' = [rows EXCEPT ![upload[u].game] = Append(@, row)]
        /\ UNCHANGED created /\ upload[u].step = "write"
    BY <1>2 DEF CreateVersion, Extracted
  <2>2. upload[u].game \in Games /\ row \in Rows
    BY <2>1, UnderWay, UploadType DEF CInv, Rows
  <2> HIDE DEF row
  <2>3. \A g \in Games : rows'[g] = IF g = upload[u].game THEN Append(rows[g], row) ELSE rows[g]
    BY <2>1, <2>2 DEF CInv, TypeOK
  <2> QED
    BY <1>0, <2>1, <2>2, <2>3
<1>3. UNCHANGED rows \/ \E u \in Uploads : CreateVersion(u)
  BY DEF Next, PostGame, PutGame, RemoveGame, PostUpload, PostPublish, PostUnpublish,
         CreateGame, UpdateGame, DeleteGame, UnpublishGame, PublishCheck, PublishSet, UploadBegin,
         Refuse, Open, Writing, WriteEntry, LoseEntry, StatPanics, CreateFails, ReadGame, ReadLatest, GetGame,
         GetLatestVersion, Answered, Expired, Rest, adminVars, cvars
<1> QED
  BY <1>0, <1>1, <1>2, <1>3

\* So what was known stays known.
LEMMA KnownStays ==
  ASSUME CInv, [Next]_cvars, NEW e \in Entries
  PROVE  \A v : Known(e, v) => KnownTo(e, v, rows', created')
<1>1. e[2] \in Games
  BY DEF Entries
<1>2. CASE e[1] = "latest"
  <2>1. /\ Len(rows[e[2]]) \in Nat /\ Len(rows'[e[2]]) \in Nat
        /\ Len(rows[e[2]]) <= Len(rows'[e[2]])
    BY <1>1, AdminGrows
  <2> QED
    BY <1>2, <2>1 DEF Known, KnownTo
<1>3. CASE e[1] # "latest"
  BY <1>3, AdminGrows DEF Known, KnownTo
<1> QED
  BY <1>2, <1>3

\* What the database answers is known.
LEMMA AnswerKnown ==
  ASSUME CInv, RowsCreated, NEW e \in Entries, Answer[e] # NoRow
  PROVE  Known(e, Answer[e]) /\ Answer[e] \in Statuses \union Nat
<1>1. e[2] \in Games /\ e[1] \in {"game", "latest"}
  BY DEF Entries
<1>2. CASE e[1] = "latest"
  <2>1. Answer[e] = Len(rows[e[2]]) /\ rows[e[2]] # <<>>
    BY <1>2 DEF Answer, LatestRow
  <2>2. Len(rows[e[2]]) \in Nat \ {0}
    BY <1>1, <2>1 DEF CInv, TypeOK
  <2> QED
    BY <1>2, <2>1, <2>2 DEF Known, KnownTo
<1>3. CASE e[1] = "game"
  <2>1. Answer[e] = status[e[2]]
    BY <1>3 DEF Answer, GameRow
  <2>2. status[e[2]] \in Statuses /\ e[2] \in created
    BY <1>1, <1>3, <2>1 DEF CInv, TypeOK, RowsCreated
  <2> QED
    BY <1>3, <2>1, <2>2 DEF Known, KnownTo
<1> QED
  BY <1>1, <1>2, <1>3

\* A step of a reader writes what it has, or asks.
LEMMA ReaderStep ==
  ASSUME CInv, CacheInv, NEW r \in Readers
  PROVE  /\ \A e \in Entries : Cache!Miss(r, e) \/ Cache!Unreachable(r, e)
              => UNCHANGED redis /\ reader' = [reader EXCEPT ![r] = Cache!AtQuery(e)]
         /\ Cache!Query(r) =>
              /\ UNCHANGED redis
              /\ \/ reader' = [reader EXCEPT ![r] = Cache!Resting]
                 \/ \E e \in Entries : \E v \in Statuses \union Nat :
                      Known(e, v) /\ reader' = [reader EXCEPT ![r] = Cache!AtStore(e, v)]
         /\ Cache!Store(r) \/ Cache!StoreLost(r) =>
              /\ reader' = [reader EXCEPT ![r] = Cache!Resting]
              /\ \/ UNCHANGED redis
                 \/ \E e \in Entries : \E v \in Statuses \union Nat :
                      Known(e, v) /\ redis' = [redis EXCEPT ![e] = v]
<1>0. reader[r] \in Fills
  BY DEF CacheInv, FillsKnown
<1>1. reader[r].step = "query" => reader[r].key \in Entries
  BY <1>0 DEF Fills, Cache!Resting, Cache!AtQuery, Cache!AtStore
<1>2. reader[r].step = "store" =>
        /\ reader[r].key \in Entries /\ reader[r].value \in Statuses \union Nat
        /\ Known(reader[r].key, reader[r].value)
  <2>1. reader[r].step = "store" =>
          reader[r].key \in Entries /\ reader[r].value \in Statuses \union Nat
    BY <1>0 DEF Fills, Cache!Resting, Cache!AtQuery, Cache!AtStore
  <2> QED
    BY <2>1 DEF CacheInv, FillsKnown
<1>3. ASSUME Cache!Query(r)
      PROVE  /\ UNCHANGED redis
             /\ \/ reader' = [reader EXCEPT ![r] = Cache!Resting]
                \/ \E e \in Entries : \E v \in Statuses \union Nat :
                     Known(e, v) /\ reader' = [reader EXCEPT ![r] = Cache!AtStore(e, v)]
  <2> DEFINE e == reader[r].key
  <2>1. /\ e \in Entries /\ UNCHANGED redis
        /\ \/ reader' = [reader EXCEPT ![r] = Cache!Resting]
           \/ Answer[e] # NoRow /\ reader' = [reader EXCEPT ![r] = Cache!AtStore(e, Answer[e])]
    BY <1>1, <1>3 DEF Cache!Query
  <2>2. Answer[e] # NoRow => Known(e, Answer[e]) /\ Answer[e] \in Statuses \union Nat
    BY <2>1, AnswerKnown DEF CacheInv
  <2> HIDE DEF e
  <2> QED
    BY <2>1, <2>2
<1>4. ASSUME Cache!Store(r) \/ Cache!StoreLost(r)
      PROVE  /\ reader' = [reader EXCEPT ![r] = Cache!Resting]
             /\ \/ UNCHANGED redis
                \/ \E e \in Entries : \E v \in Statuses \union Nat :
                     Known(e, v) /\ redis' = [redis EXCEPT ![e] = v]
  BY <1>2, <1>4 DEF Cache!Store, Cache!StoreLost
<1>5. ASSUME NEW e \in Entries, Cache!Miss(r, e) \/ Cache!Unreachable(r, e)
      PROVE  UNCHANGED redis /\ reader' = [reader EXCEPT ![r] = Cache!AtQuery(e)]
  BY <1>5 DEF Cache!Miss, Cache!Unreachable
<1> QED
  BY <1>3, <1>4, <1>5

\* A reader's next place, given what holds of the rows after the step.
LEMMA FillsStep ==
  ASSUME CInv, CacheInv, [Next]_cvars, NEW r \in Readers, NEW x \in Fills,
         reader' = [reader EXCEPT ![r] = x], x.step = "store" => Known(x.key, x.value)
  PROVE  FillsKnown'
<1>1. reader' \in [Readers -> Fills]
  BY DEF CacheInv, FillsKnown
<1>2. \A y \in Fills : y.step = "store" /\ Known(y.key, y.value)
                          => KnownTo(y.key, y.value, rows', created')
  <2>1. \A y \in Fills : y.step = "store" => y.key \in Entries
    BY DEF Fills, Cache!Resting, Cache!AtQuery, Cache!AtStore
  <2> QED
    BY <2>1, KnownStays
<1>3. ASSUME NEW q \in Readers, reader'[q].step = "store"
      PROVE  KnownTo(reader'[q].key, reader'[q].value, rows', created')
  <2>1. reader'[q] \in Fills /\ Known(reader'[q].key, reader'[q].value)
    BY <1>1, <1>3 DEF CacheInv, FillsKnown
  <2> QED
    BY <1>2, <1>3, <2>1
<1> QED
  BY <1>1, <1>3 DEF FillsKnown, Known

LEMMA FillsStay ==
  ASSUME CInv, CacheInv, [Next]_cvars, UNCHANGED reader
  PROVE  FillsKnown'
<1>1. CASE Readers = {}
  BY <1>1 DEF CacheInv, FillsKnown
<1>2. CASE Readers # {}
  <2>1. PICK r \in Readers : TRUE
    BY <1>2
  <2>2. /\ reader' = [reader EXCEPT ![r] = reader[r]] /\ reader[r] \in Fills
        /\ reader[r].step = "store" => Known(reader[r].key, reader[r].value)
    BY DEF CacheInv, FillsKnown
  <2>3. ASSUME NEW x \in Fills, reader' = [reader EXCEPT ![r] = x],
               x.step = "store" => Known(x.key, x.value)
        PROVE  FillsKnown'
    BY <2>3, FillsStep
  <2> QED
    BY <2>2, <2>3
<1> QED
  BY <1>1, <1>2

\* The copies after the step.
LEMMA CopiesStep ==
  ASSUME CInv, CacheInv, [Next]_cvars,
         \/ UNCHANGED redis
         \/ \E e \in Entries : redis' = [redis EXCEPT ![e] = NoCopy]
         \/ \E e \in Entries : \E v \in Statuses \union Nat :
              Known(e, v) /\ redis' = [redis EXCEPT ![e] = v]
  PROVE  CopiesKnown'
<1>1. redis' \in [Entries -> {NoCopy} \union Statuses \union Nat]
  BY DEF CacheInv, CopiesKnown
<1>2. ASSUME NEW d \in Entries, redis'[d] # NoCopy
      PROVE  KnownTo(d, redis'[d], rows', created')
  <2>1. Known(d, redis'[d])
    BY <1>2 DEF CacheInv, CopiesKnown
  <2> QED
    BY <2>1, KnownStays
<1> QED
  BY <1>1, <1>2 DEF CopiesKnown, Known

LEMMA NextCacheInv == CInv /\ CacheInv /\ [Next]_cvars => CacheInv'
<1> SUFFICES ASSUME CInv, CacheInv, [Next]_cvars PROVE CacheInv'
  OBVIOUS
<1>1. RowsCreated'
  <2>1. UNCHANGED <<status, created>> => RowsCreated'
    BY DEF CacheInv, RowsCreated
  <2>2. ASSUME NEW g \in Games, CreateGame(g) PROVE RowsCreated'
    BY <2>2 DEF CreateGame, CInv, TypeOK, CacheInv, RowsCreated
  <2>3. ASSUME NEW g \in Games, DeleteGame(g) \/ UnpublishGame(g) \/ \E t \in Statuses : UpdateGame(g, t)
        PROVE  RowsCreated'
    BY <2>3 DEF DeleteGame, UnpublishGame, UpdateGame, CInv, TypeOK, CacheInv, RowsCreated, adminVars
  <2>4. ASSUME NEW p \in Publishes, PublishSet(p) PROVE RowsCreated'
    BY <2>4 DEF PublishSet, CInv, TypeOK, CacheInv, RowsCreated
  <2>5. \/ UNCHANGED <<status, created>> \/ PostGame \/ PutGame \/ RemoveGame \/ PostUnpublish
        \/ \E p \in Publishes : PublishSet(p)
    BY DEF Next, PostUpload, PostPublish, PublishCheck, UploadBegin, Refuse, Open,
           Writing, WriteEntry, LoseEntry, StatPanics, CreateFails, CreateVersion, ReadGame, ReadLatest, GetGame,
           GetLatestVersion, Answered, Expired, Rest, adminVars, cvars
  <2> QED
    BY <2>1, <2>2, <2>3, <2>4, <2>5 DEF PostGame, PutGame, RemoveGame, PostUnpublish
<1>2. CASE UNCHANGED <<redis, reader>>
  BY <1>1, <1>2, FillsStay, CopiesStep DEF CacheInv
<1>3. ASSUME NEW r \in Readers, NEW e \in Entries, Cache!Miss(r, e) \/ Cache!Unreachable(r, e)
      PROVE  CacheInv'
  <2>1. UNCHANGED redis /\ reader' = [reader EXCEPT ![r] = Cache!AtQuery(e)]
    BY <1>3, ReaderStep
  <2>2. Cache!AtQuery(e) \in Fills /\ Cache!AtQuery(e).step # "store"
    BY DEF Fills, Cache!AtQuery
  <2>3. FillsKnown'
    BY <2>1, <2>2, FillsStep
  <2> QED
    BY <1>1, <2>1, <2>3, CopiesStep DEF CacheInv
<1>4. ASSUME NEW r \in Readers, Answered(r) PROVE CacheInv'
  <2>0. Cache!Resting \in Fills /\ Cache!Resting.step # "store"
    BY DEF Fills, Cache!Resting
  <2>1. CASE Cache!Query(r)
    <3>1. ASSUME NEW e \in Entries, NEW v \in Statuses \union Nat, Known(e, v),
                 reader' = [reader EXCEPT ![r] = Cache!AtStore(e, v)]
          PROVE  FillsKnown'
      <4>1. /\ Cache!AtStore(e, v) \in Fills /\ Cache!AtStore(e, v).key = e
            /\ Cache!AtStore(e, v).value = v
        BY DEF Fills, Cache!AtStore
      <4> QED
        BY <3>1, <4>1, FillsStep
    <3>2. FillsKnown'
      BY <2>0, <2>1, <3>1, ReaderStep, FillsStep
    <3> QED
      BY <1>1, <2>1, <3>2, ReaderStep, CopiesStep DEF CacheInv
  <2>2. CASE Cache!Store(r) \/ Cache!StoreLost(r)
    <3>1. FillsKnown'
      BY <2>0, <2>2, ReaderStep, FillsStep
    <3> QED
      BY <1>1, <2>2, <3>1, ReaderStep, CopiesStep DEF CacheInv
  <2> QED
    BY <1>4, <2>1, <2>2 DEF Answered
<1>5. ASSUME NEW e \in Entries, Expired(e) PROVE CacheInv'
  <2>1. redis' = [redis EXCEPT ![e] = NoCopy] /\ UNCHANGED reader
    BY <1>5 DEF Expired, Cache!Expire
  <2> QED
    BY <1>1, <2>1, FillsStay, CopiesStep DEF CacheInv
<1>6. \A g \in Games : <<"game", g>> \in Entries /\ <<"latest", g>> \in Entries
  BY DEF Entries
<1>7. \/ UNCHANGED <<redis, reader>>
      \/ \E r \in Readers, g \in Games : GetGame(r, g) \/ GetLatestVersion(r, g)
      \/ \E r \in Readers : Answered(r)
      \/ \E e \in Entries : Expired(e)
  BY DEF Next, PostGame, PutGame, RemoveGame, PostUpload, PostPublish, PostUnpublish,
         CreateGame, UpdateGame, DeleteGame, UnpublishGame, PublishCheck, PublishSet, UploadBegin,
         Refuse, Open, Writing, WriteEntry, LoseEntry, StatPanics, CreateFails, CreateVersion, ReadGame, ReadLatest,
         adminVars, cacheVars, cvars
<1>8. ASSUME NEW r \in Readers, NEW g \in Games, GetGame(r, g) \/ GetLatestVersion(r, g)
      PROVE  CacheInv'
  BY <1>3, <1>6, <1>8 DEF GetGame, GetLatestVersion
<1> QED
  BY <1>2, <1>4, <1>5, <1>7, <1>8

\* Whatever version the cache names is there, however old the copy (service.go:110-138): no
\* reader writes an answer that was not true, and no version is taken away.
THEOREM CachedVersionIsThere == Spec => []CachedVersionExists
<1>1. CInv /\ CacheInv => CachedVersionExists
  <2> SUFFICES ASSUME CInv, CacheInv, NEW g \in Games, NEW i, i = redis[<<"latest", g>>], i # NoCopy
               PROVE  i \in DOMAIN rows[g]
    BY DEF CachedVersionExists
  <2>1. <<"latest", g>> \in Entries
    BY DEF Entries
  <2>2. i \in 1..Len(rows[g])
    BY <2>1 DEF CacheInv, CopiesKnown, Known, KnownTo
  <2>3. rows[g] \in Seq(Rows)
    BY DEF CInv, TypeOK
  <2> QED
    BY <2>2, <2>3
<1>2. CInv /\ CacheInv /\ [Next]_cvars => CacheInv'
  BY NextCacheInv
<1> QED
  BY <1>1, <1>2, InitCacheInv, CatalogInvariance, PTL DEF Spec
==============================================================================
