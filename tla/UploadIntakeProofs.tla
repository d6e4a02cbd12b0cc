------------------------- MODULE UploadIntakeProofs -------------------------
(***************************************************************************)
(* Theorems about UploadIntake, for any number of requests at once, any    *)
(* batches and contents.                                                   *)
(***************************************************************************)
EXTENDS UploadIntake, FiniteSetTheorems, WellFoundedInduction, TLAPS

Open(u) == request[u].step \in {"file", "document", "create"}

TypeInv ==
    /\ request \in [Uploads -> Request]
    /\ phase \in [Jobs -> {"none", "pending", "indexed", "failed"}]
    /\ tries \in [Jobs -> Nat]
    /\ stored \subseteq Jobs
    /\ finished \in Seq(Jobs)
    /\ pages \subseteq {Page}
    /\ gone \subseteq Contents
    /\ current \in [Documents -> Contents \cup {None}]
    /\ before \in [Documents -> Contents \cup {None, Nothing}]

\* A request: its batch has a place for the file in hand, what it knows to be
\* indexed is, and a file past the duplicate test has failed it for a reason.
RequestInv(u) ==
    LET r == request[u] IN
    /\ r.step = "none" => r.target = None /\ \A i \in 1..MaxFiles : phase[<<u, i>>] = "none"
    /\ Open(u) => r.at \in DOMAIN r.files /\ r.at \in 1..MaxFiles /\ Len(r.files) <= MaxFiles
    /\ r.step \in {"document", "create"} => File(u) \in Contents
    /\ r.step = "document" =>
         r.target = None /\ r.found \in ToSet(finished) /\ raw_content_hash(r.found) = File(u)
    /\ r.step = "create" /\ File(u) \in r.known => File(u) \in gone
    /\ r.known # {} => r.target = None
    /\ \A c \in r.known : Indexed(c) # {}
    /\ r.target \in Jobs => r.target \in stored /\ phase[r.target] = "indexed"
    /\ r.target = Page => pages # {}

\* A job: where its document is, and what its version has done to another's.
JobInv(j) ==
    LET d == target_document_id(j) IN
    /\ phase[j] # "none" => j[2] \in DOMAIN request[j[1]].files
                            /\ raw_content_hash(j) \in Contents
                            /\ (raw_content_hash(j) \in request[j[1]].known
                                => raw_content_hash(j) \in gone)
    /\ j \in stored => phase[j] \in {"pending", "indexed"} /\ d = None
    /\ j \in ToSet(finished) <=> phase[j] = "indexed"
    /\ phase[j] = "indexed" /\ d = None => j \in stored \/ raw_content_hash(j) \in gone
    /\ phase[j] = "pending" /\ j \in stored => current[j] = raw_content_hash(j)

\* A version that has begun: what its target goes back to is kept.
BegunInv(j) ==
    LET d == target_document_id(j) IN
    Versioning(j) /\ tries[j] = 1 =>
        /\ before[d] # Nothing /\ current[d] = raw_content_hash(j)
        /\ \A k \in Jobs : Versioning(k) /\ tries[k] = 1 /\ target_document_id(k) = d => k = j

Settled(d) == d \in pages \/ (d \in stored /\ phase[d] = "indexed")

\* The content a document has, or goes back to, has an indexed job.
HeldInv(d) ==
    /\ ~ Settled(d) => before[d] = Nothing
    /\ Settled(d) => LET c == IF before[d] = Nothing THEN current[d] ELSE before[d] IN
                     c # None => Indexed(c) # {}

IInv ==
    /\ TypeInv
    /\ \A u \in Uploads : RequestInv(u)
    /\ \A j \in Jobs : JobInv(j) /\ BegunInv(j)
    /\ \A d \in Documents : HeldInv(d)
    /\ pages # {} => gone = {}
-----------------------------------------------------------------------------
(* The duplicate test: the newest job.                                     *)

\* A set of numbers that is not empty has a least one: the library's
\* well-founded order of finite sets, applied to the intervals up to each.
LEMMA LeastNat ==
  ASSUME NEW T \in SUBSET Nat, T # {}
  PROVE  \E m \in T : \A n \in T : m <= n
<1> DEFINE R == StrictSubsetOrdering(Nat)
           U == {0..n : n \in T}
<1>1. IsWellFoundedOn(R, FiniteSubsetsOf(Nat))
  BY FS_StrictSubsetOrderingWellFounded, Zenon
<1>2. U \subseteq FiniteSubsetsOf(Nat) /\ U # {}
  <2>1. ASSUME NEW n \in T PROVE 0..n \in FiniteSubsetsOf(Nat)
    <3>1. 0 \in Int /\ n \in Int
      OBVIOUS
    <3>2. IsFiniteSet(0..n)
      BY <3>1, FS_Interval, Zenon
    <3>3. 0..n \subseteq Nat
      OBVIOUS
    <3> QED
      BY <3>2, <3>3 DEF FiniteSubsetsOf
  <2> QED
    BY <2>1
<1>3. \E X \in U : \A Y \in U : ~ (<<Y, X>> \in R)
  <2> HIDE DEF R, U
  <2> QED BY <1>1, <1>2, WFMin, Zenon
<1>4. PICK m \in T : \A n \in T : ~ (<<0..n, 0..m>> \in R)
  BY <1>3
<1>5. ASSUME NEW n \in T, n < m PROVE FALSE
  <2>1. 0..n \subseteq 0..m /\ m \in 0..m /\ m \notin 0..n
    BY <1>5
  <2>2. 0..n \in SUBSET Nat /\ 0..m \in SUBSET Nat
    OBVIOUS
  <2>3. 0..n # 0..m
    BY <2>1
  <2>4. <<0..n, 0..m>> \in R
    BY <2>1, <2>2, <2>3, Zenon DEF StrictSubsetOrdering
  <2> QED
    BY <2>4, <1>4
<1> QED
  BY <1>5

\* ... and one below a bound a greatest.
LEMMA GreatestNat ==
  ASSUME NEW b \in Nat, NEW T \in SUBSET (1..b), T # {}
  PROVE  Max(T) \in T
<1> DEFINE D == {b - n : n \in T}
<1>1. D \in SUBSET Nat /\ D # {}
  <2>1. \A n \in T : b - n \in Nat
    OBVIOUS
  <2> QED
    BY <2>1
<1>2. \E m \in D : \A n \in D : m <= n
  <2> HIDE DEF D
  <2> QED
    BY <1>1, LeastNat
<1>3. PICK x \in T : \A y \in T : b - x <= b - y
  BY <1>2
<1>4. \A y \in T : x >= y
  BY <1>3
<1> QED
  BY <1>4, Zenon DEF Max

\* Of the jobs asked for, one that is indexed is found if there is one.
LEMMA NewestIsOne ==
  ASSUME TypeInv, NEW S
  PROVE  /\ Newest(S) # None => Newest(S) \in S /\ Newest(S) \in ToSet(finished)
         /\ S \cap ToSet(finished) # {} => Newest(S) \in S /\ Newest(S) \in ToSet(finished)
<1> DEFINE places == {i \in DOMAIN finished : finished[i] \in S}
<1>1. DOMAIN finished = 1..Len(finished) /\ Len(finished) \in Nat
  BY DEF TypeInv
<1>2. S \cap ToSet(finished) # {} => places # {}
  BY DEF ToSet
<1>3. places # {} => Max(places) \in places
  <2> SUFFICES ASSUME places # {} PROVE Max(places) \in places
    OBVIOUS
  <2>1. places \in SUBSET (1..Len(finished))
    BY <1>1
  <2> HIDE DEF places
  <2> QED
    BY <1>1, <2>1, GreatestNat
<1>4. Newest(S) = IF places = {} THEN None ELSE finished[Max(places)]
  BY DEF Newest
<1>5. places # {} => finished[Max(places)] \in S /\ finished[Max(places)] \in ToSet(finished)
  BY <1>3, Zenon DEF ToSet
<1> QED
  BY <1>2, <1>4, <1>5

-----------------------------------------------------------------------------
(* What steps leave as it was.                                             *)

\* A step of one request that keeps its batch, its target and what it knows.
Moved(u) ==
    /\ request' \in [Uploads -> Request]
    /\ \A v \in Uploads \ {u} : request'[v] = request[v]
    /\ request'[u].files = request[u].files
    /\ request'[u].target = request[u].target
    /\ request'[u].known = request[u].known

\* The jobs that there are keep what their requests said of them.
SameJobs ==
    \A j \in Jobs : phase[j] # "none" =>
        /\ request'[j[1]].files = request[j[1]].files
        /\ request'[j[1]].target = request[j[1]].target
        /\ request'[j[1]].known = request[j[1]].known

\* A job is a request and a place in its batch.
LEMMA JobsTyped == \A j \in Jobs : j[1] \in Uploads /\ j[2] \in 1..MaxFiles /\ j = <<j[1], j[2]>>
  BY DEF Jobs

\* A job keeps content, target and document.
LEMMA JobFrame ==
  ASSUME SameJobs, NEW j \in Jobs, phase[j] # "none"
  PROVE  /\ raw_content_hash(j)' = raw_content_hash(j)
         /\ target_document_id(j)' = target_document_id(j)
         /\ document_id(j)' = document_id(j)
  BY DEF SameJobs, raw_content_hash, target_document_id, document_id

\* Indexed jobs are indexed on.
LEMMA IndexedFrame ==
  ASSUME TypeInv, \A j \in Jobs : JobInv(j),
         \A j \in ToSet(finished) : raw_content_hash(j)' = raw_content_hash(j),
         ToSet(finished) \subseteq ToSet(finished')
  PROVE  \A c : Indexed(c) \subseteq Indexed(c)'
  BY DEF Indexed

\* What is in the order of finished_at is indexed.
LEMMA FinishedAreJobs ==
  ASSUME TypeInv, \A j \in Jobs : JobInv(j)
  PROVE  \A j \in ToSet(finished) : j \in Jobs /\ phase[j] = "indexed"
<1>1. ToSet(finished) \subseteq Jobs
  BY DEF TypeInv, ToSet
<1> QED
  BY <1>1 DEF JobInv

\* A request that moves on disturbs nothing but itself.
LEMMA RequestMoves ==
  ASSUME IInv, NEW u \in Uploads, request[u].step # "none", Moved(u),
         UNCHANGED <<promiseVars, documentVars>>, RequestInv(u)'
  PROVE  IInv'
<1>0. /\ UNCHANGED <<phase, tries, stored, current, before, finished, pages, gone>>
      /\ TypeInv /\ (\A v \in Uploads : RequestInv(v)) /\ (\A j \in Jobs : JobInv(j))
      /\ (\A j \in Jobs : BegunInv(j)) /\ (\A d \in Documents : HeldInv(d))
  BY DEF IInv, promiseVars, documentVars
<1>1. /\ TypeInv' /\ (pages' # {} => gone' = {})
  BY <1>0 DEF TypeInv, Moved, IInv
<1>2. \A j \in Jobs : /\ request'[j[1]].files = request[j[1]].files
                      /\ request'[j[1]].target = request[j[1]].target
                      /\ request'[j[1]].known = request[j[1]].known
  BY JobsTyped DEF Moved
<1>3. \A j \in Jobs : /\ raw_content_hash(j)' = raw_content_hash(j)
                      /\ target_document_id(j)' = target_document_id(j)
  BY <1>2 DEF raw_content_hash, target_document_id
<1>4. \A c : Indexed(c)' = Indexed(c)
  BY <1>0, <1>3, FinishedAreJobs DEF Indexed
<1>5. ASSUME NEW v \in Uploads PROVE RequestInv(v)'
  <2>1. CASE v = u
    BY <2>1
  <2>2. CASE v # u
    <3>1. request'[v] = request[v] /\ RequestInv(v)
      BY <2>2, <1>0 DEF Moved
    <3>2. request[v].step = "document" =>
            raw_content_hash(request[v].found)' = raw_content_hash(request[v].found)
      BY <3>1, <1>0, <1>3, FinishedAreJobs DEF RequestInv
    <3> QED
      BY <3>1, <3>2, <1>0, <1>4 DEF RequestInv, File, Open
  <2> QED
    BY <2>1, <2>2
<1>6. ASSUME NEW j \in Jobs PROVE JobInv(j)'
  BY <1>0, <1>2, <1>3 DEF JobInv
<1>7. ASSUME NEW j \in Jobs PROVE BegunInv(j)'
  BY <1>0, <1>3 DEF BegunInv, Versioning
<1>8. ASSUME NEW d \in Documents PROVE HeldInv(d)'
  BY <1>0, <1>4 DEF HeldInv, Settled
<1> QED
  BY <1>1, <1>5, <1>6, <1>7, <1>8 DEF IInv

\* On with the next file: the step and the place of a request that moves on.
LEMMA NextFileMoves ==
  ASSUME IInv, NEW u \in Uploads, Open(u), NextFile(u)
  PROVE  /\ Moved(u)
         /\ request'[u].step \in {"ended", "file"}
         /\ request'[u].step = "file" =>
              request'[u].at \in DOMAIN request[u].files /\ request'[u].at \in 1..MaxFiles
<1>1. request \in [Uploads -> Request] /\ RequestInv(u)
  BY DEF IInv, TypeInv
<1>2. request[u] \in Request
  BY <1>1
<1>3. DOMAIN request[u].files = 1..Len(request[u].files) /\ Len(request[u].files) \in Nat
  BY <1>2 DEF Request
<1>4. request[u].at \in 1..Len(request[u].files) /\ Len(request[u].files) <= MaxFiles
  BY <1>1, <1>3 DEF RequestInv
<1>5. PICK a \in Nat : a = request[u].at + 1
  BY <1>2 DEF Request
<1>6. PICK s \in {"file", "ended"} :
        s = IF request[u].at = Len(request[u].files) THEN "ended" ELSE "file"
  OBVIOUS
<1>7. PICK r : r = [request[u] EXCEPT !.at = a, !.found = None, !.step = s]
  OBVIOUS
<1>8. request' = [request EXCEPT ![u] = r]
  BY <1>1, <1>2, <1>5, <1>6, <1>7 DEF NextFile
<1>9. /\ r \in Request /\ r.at = a /\ r.step = s
      /\ r.files = request[u].files /\ r.target = request[u].target /\ r.known = request[u].known
  BY <1>2, <1>7 DEF Request
<1>10. request'[u] = r /\ request' \in [Uploads -> Request]
       /\ \A v \in Uploads \ {u} : request'[v] = request[v]
  BY <1>1, <1>8, <1>9
<1>11. MaxFiles \in Nat
  BY IntakeAssumption
<1> QED
  BY <1>3, <1>4, <1>5, <1>6, <1>9, <1>10, <1>11 DEF Moved

\* The invariant of a request that has moved on to its next file or response.
LEMMA NextFileInv ==
  ASSUME IInv, NEW u \in Uploads, Open(u), NextFile(u),
         UNCHANGED <<stored, finished, pages>>,
         \A j \in Jobs : phase[j] = "indexed" => phase'[j] = "indexed"
  PROVE  RequestInv(u)'
<1>1. /\ Moved(u)
      /\ request'[u].step \in {"ended", "file"}
      /\ request'[u].step = "file" =>
           request'[u].at \in DOMAIN request[u].files /\ request'[u].at \in 1..MaxFiles
  BY NextFileMoves
<1>2. TypeInv /\ RequestInv(u) /\ \A j \in Jobs : JobInv(j)
  BY DEF IInv
<1>3. \A j \in ToSet(finished) : raw_content_hash(j)' = raw_content_hash(j)
  BY <1>1, <1>2, JobsTyped, FinishedAreJobs DEF Moved, raw_content_hash
<1>4. \A c : Indexed(c)' = Indexed(c)
  BY <1>3 DEF Indexed
<1>5. Open(u)' => request'[u].step = "file"
  BY <1>1 DEF Open
<1> QED
  BY <1>1, <1>2, <1>4, <1>5 DEF RequestInv, Moved, Open

-----------------------------------------------------------------------------
(* The steps of a request.                                                 *)

\* reject: a file that is not taken.
LEMMA RejectStep ==
  ASSUME IInv, NEW u \in Uploads, reject(u)
  PROVE  IInv'
<1>1. Open(u) /\ request[u].step # "none" /\ NextFile(u)
      /\ UNCHANGED <<promiseVars, documentVars>>
  BY DEF reject, At, Open
<1>2. UNCHANGED <<phase, stored, finished, pages>>
  BY <1>1 DEF promiseVars, documentVars
<1> QED
  BY <1>1, <1>2, NextFileMoves, NextFileInv, RequestMoves

\* Changing nothing but the step and the job found.
LEMMA StepMoves ==
  ASSUME TypeInv, NEW u \in Uploads, NEW j \in Jobs \cup {None},
         NEW s \in {"document", "create", "ended"},
         request' = [request EXCEPT ![u].found = j, ![u].step = s]
  PROVE  Moved(u) /\ request'[u].step = s /\ request'[u].found = j
         /\ request'[u].at = request[u].at
<1>1. request \in [Uploads -> Request] /\ request[u] \in Request
  BY DEF TypeInv
<1>2. PICK r : r = [request[u] EXCEPT !.found = j, !.step = s]
  OBVIOUS
<1>3. request' = [request EXCEPT ![u] = r]
  BY <1>1, <1>2
<1>4. /\ r \in Request /\ r.step = s /\ r.found = j /\ r.at = request[u].at
      /\ r.files = request[u].files /\ r.target = request[u].target /\ r.known = request[u].known
  BY <1>1, <1>2 DEF Request
<1> QED
  BY <1>1, <1>3, <1>4 DEF Moved

\* find_indexed_job_by_raw_hash: what it knows to be indexed, it finds.
LEMMA FindStep ==
  ASSUME IInv, NEW u \in Uploads, find_indexed_job_by_raw_hash(u)
  PROVE  IInv'
<1>1. /\ TypeInv /\ RequestInv(u) /\ \A j \in Jobs : JobInv(j)
  BY DEF IInv
<1>2. PICK j : j = IF request[u].target = None THEN find_indexed_job(File(u)) ELSE None
  OBVIOUS
<1>3. PICK s : s = IF j = None THEN "create" ELSE "document"
  OBVIOUS
<1>4. /\ request[u].step = "file" /\ File(u) # Refused
      /\ request' = [request EXCEPT ![u].found = j, ![u].step = s]
      /\ UNCHANGED <<promiseVars, documentVars>>
  BY <1>2, <1>3 DEF find_indexed_job_by_raw_hash, At
<1>5. File(u) \in Contents /\ Open(u)
  <2>1. request[u].at \in DOMAIN request[u].files /\ Open(u)
    BY <1>1, <1>4 DEF RequestInv, Open
  <2>2. request[u].files \in Seq(Contents \cup {Refused})
    BY <1>1 DEF TypeInv, Request
  <2> QED
    BY <1>4, <2>1, <2>2 DEF File
<1>6. /\ j # None => j \in Indexed(File(u)) /\ request[u].target = None
      /\ request[u].target = None /\ Indexed(File(u)) # {} => j # None
  <2>1. Indexed(File(u)) \subseteq ToSet(finished)
    BY DEF Indexed
  <2>2. None \notin Indexed(File(u))
    BY <1>1, <2>1, FinishedAreJobs, IntakeAssumption
  <2>3. find_indexed_job(File(u)) = Newest(Indexed(File(u)))
    BY DEF find_indexed_job
  <2>4. /\ Newest(Indexed(File(u))) # None => Newest(Indexed(File(u))) \in Indexed(File(u))
        /\ Indexed(File(u)) # {} => Newest(Indexed(File(u))) \in Indexed(File(u))
    BY <1>1, <2>1, NewestIsOne
  <2> QED
    BY <1>2, <2>2, <2>3, <2>4
<1>7. j \in Jobs \cup {None} /\ s \in {"document", "create", "ended"}
  BY <1>1, <1>3, <1>6, FinishedAreJobs DEF Indexed
<1>8. Moved(u) /\ request'[u].step = s /\ request'[u].found = j
      /\ request'[u].at = request[u].at
  BY <1>1, <1>4, <1>7, StepMoves
<1>9. UNCHANGED <<phase, stored, finished, pages, gone>>
  BY <1>4 DEF promiseVars, documentVars
<1>10. /\ \A k \in ToSet(finished) : raw_content_hash(k)' = raw_content_hash(k)
       /\ File(u)' = File(u) /\ Open(u)'
  <2>1. File(u)' = File(u)
    BY <1>8 DEF Moved, File
  <2>2. Open(u)'
    BY <1>3, <1>8 DEF Open
  <2>3. \A k \in ToSet(finished) : raw_content_hash(k)' = raw_content_hash(k)
    BY <1>1, <1>8, JobsTyped, FinishedAreJobs DEF Moved, raw_content_hash
  <2> QED
    BY <2>1, <2>2, <2>3
<1>11. \A c : Indexed(c)' = Indexed(c)
  BY <1>9, <1>10 DEF Indexed
<1>12. /\ s = "document" => request[u].target = None /\ j \in ToSet(finished)
                            /\ raw_content_hash(j) = File(u)
       /\ s = "create" /\ File(u) \in request[u].known => File(u) \in gone
  <2>1. s = "create" => File(u) \notin request[u].known
    BY <1>1, <1>3, <1>6 DEF RequestInv
  <2> QED
    BY <1>3, <1>6, <2>1 DEF Indexed
<1>13. RequestInv(u)'
  BY <1>1, <1>3, <1>5, <1>8, <1>9, <1>10, <1>11, <1>12 DEF RequestInv, Moved
<1> QED
  BY <1>4, <1>8, <1>13, RequestMoves

\* get_document: a job found without its document was a version of the page.
LEMMA DocumentStep ==
  ASSUME IInv, NEW u \in Uploads, get_document(u)
  PROVE  IInv'
<1>1. /\ TypeInv /\ RequestInv(u) /\ \A j \in Jobs : JobInv(j)
      /\ \A v \in Uploads : RequestInv(v)
  BY DEF IInv
<1>2. request[u].step = "document" /\ Open(u)
      /\ UNCHANGED <<promiseVars, documentVars>>
  BY DEF get_document, At, Open
<1>3. UNCHANGED <<phase, stored, finished, pages, gone>>
  BY <1>2 DEF promiseVars, documentVars
<1>4. CASE NextFile(u)
  BY <1>2, <1>3, <1>4, NextFileMoves, NextFileInv, RequestMoves
<1>5. CASE /\ document_id(request[u].found) \notin stored \cup pages
           /\ request' = [request EXCEPT ![u].step = "create"]
  <2>1. request[u] \in Request /\ request \in [Uploads -> Request]
    BY <1>1 DEF TypeInv
  <2>2. request' = [request EXCEPT ![u].found = request[u].found, ![u].step = "create"]
    BY <1>5, <2>1 DEF Request
  <2>3. PICK j \in Jobs \cup {None} : j = request[u].found
    BY <2>1 DEF Request
  <2>4. Moved(u) /\ request'[u].step = "create" /\ request'[u].found = j
        /\ request'[u].at = request[u].at
    <3>1. request' = [request EXCEPT ![u].found = j, ![u].step = "create"]
      BY <2>2, <2>3
    <3> QED
      BY <1>1, <3>1, StepMoves
  <2>5. /\ j \in ToSet(finished) /\ j \in Jobs /\ phase[j] = "indexed"
        /\ raw_content_hash(j) = File(u)
    BY <1>1, <1>2, <2>3, FinishedAreJobs DEF RequestInv
  <2>6. raw_content_hash(j) \in gone
    <3>1. j[1] \in Uploads
      BY <2>5, JobsTyped
    <3>2. JobInv(j) /\ RequestInv(j[1]) /\ request[j[1]] \in Request
      BY <1>1, <2>1, <2>5, <3>1
    <3>3. target_document_id(j) = None => raw_content_hash(j) \in gone
      BY <1>5, <2>3, <2>5, <3>2 DEF JobInv, document_id
    <3>4. target_document_id(j) # None => target_document_id(j) \in stored \cup pages
      <4>1. target_document_id(j) \in Jobs \cup {Page, None}
        BY <3>2 DEF Request, target_document_id
      <4>2. pages # {} => Page \in pages
        BY <1>1 DEF TypeInv
      <4> QED
        BY <4>1, <4>2, <3>2 DEF RequestInv, target_document_id
    <3> QED
      BY <1>5, <2>3, <3>3, <3>4 DEF document_id
  <2>7. /\ \A k \in ToSet(finished) : raw_content_hash(k)' = raw_content_hash(k)
        /\ File(u)' = File(u) /\ Open(u)'
    BY <1>1, <2>4, JobsTyped, FinishedAreJobs DEF Moved, raw_content_hash, File, Open
  <2>8. \A c : Indexed(c)' = Indexed(c)
    BY <1>3, <2>7 DEF Indexed
  <2>9. RequestInv(u)'
    BY <1>1, <1>2, <1>3, <2>4, <2>5, <2>6, <2>7, <2>8 DEF RequestInv, Moved
  <2> QED
    BY <1>2, <2>4, <2>9, RequestMoves
<1> QED
  BY <1>4, <1>5, Zenon DEF get_document

\* accept_raises: the request ends where it is.
LEMMA RaiseStep ==
  ASSUME IInv, NEW u \in Uploads, accept_raises(u)
  PROVE  IInv'
<1>1. /\ TypeInv /\ RequestInv(u) /\ \A j \in Jobs : JobInv(j)
  BY DEF IInv
<1>2. request[u].step # "none" /\ UNCHANGED <<promiseVars, documentVars>>
      /\ UNCHANGED <<phase, stored, finished, pages, gone>>
  BY DEF accept_raises, promiseVars, documentVars
<1>3. Moved(u) /\ request'[u].step = "ended"
  <2>1. request' = [request EXCEPT ![u].found = None, ![u].step = "ended"]
    <3>1. request[u] \in Request /\ request \in [Uploads -> Request]
      BY <1>1 DEF TypeInv
    <3>2. PICK q : q = [request[u] EXCEPT !.step = "ended", !.found = None]
      OBVIOUS
    <3>3. q = [request[u] EXCEPT !.found = None, !.step = "ended"]
      BY <3>1, <3>2 DEF Request
    <3> QED
      BY <3>1, <3>2, <3>3 DEF accept_raises
  <2> QED
    BY <1>1, <2>1, StepMoves
<1>4. \A k \in ToSet(finished) : raw_content_hash(k)' = raw_content_hash(k)
  BY <1>1, <1>3, JobsTyped, FinishedAreJobs DEF Moved, raw_content_hash
<1>5. \A c : Indexed(c)' = Indexed(c)
  BY <1>2, <1>4 DEF Indexed
<1>6. RequestInv(u)'
  BY <1>1, <1>2, <1>3, <1>5 DEF RequestInv, Moved, Open
<1> QED
  BY <1>2, <1>3, <1>6, RequestMoves

\* create_ingestion_job: the new job has passed the duplicate test.
LEMMA CreateStep ==
  ASSUME IInv, NEW u \in Uploads, create_ingestion_job(u)
  PROVE  IInv'
<1>1. /\ TypeInv /\ (\A v \in Uploads : RequestInv(v)) /\ (\A j \in Jobs : JobInv(j))
      /\ (\A j \in Jobs : BegunInv(j)) /\ (\A d \in Documents : HeldInv(d))
  BY DEF IInv
<1>2. PICK j : j = <<u, request[u].at>>
  OBVIOUS
<1>3. /\ request[u].step = "create" /\ Open(u) /\ NextFile(u)
      /\ phase[j] \in {"none", "failed"}
      /\ phase' = [phase EXCEPT ![j] = "pending"]
      /\ tries' = [tries EXCEPT ![j] = 0]
      /\ UNCHANGED <<stored, current, before, finished, pages, gone>>
  BY <1>2 DEF create_ingestion_job, At, Open, Promise!Submit, documentVars
<1>4. /\ j \in Jobs /\ j[1] = u /\ j[2] = request[u].at
      /\ j[2] \in DOMAIN request[u].files /\ raw_content_hash(j) = File(u)
  BY <1>1, <1>2, <1>3 DEF RequestInv, Jobs, raw_content_hash, File
<1>5. /\ Moved(u) /\ request'[u].step \in {"ended", "file"} /\ RequestInv(u)'
  <2>1. \A k \in Jobs : phase[k] = "indexed" => phase'[k] = "indexed"
    BY <1>1, <1>3, <1>4 DEF TypeInv
  <2> QED
    BY <1>3, <2>1, NextFileMoves, NextFileInv
<1>6. TypeInv' /\ (pages' # {} => gone' = {})
  BY <1>1, <1>3, <1>5 DEF TypeInv, IInv, Moved
<1>7. \A k \in Jobs : /\ request'[k[1]].files = request[k[1]].files
                      /\ request'[k[1]].target = request[k[1]].target
                      /\ request'[k[1]].known = request[k[1]].known
                      /\ raw_content_hash(k)' = raw_content_hash(k)
                      /\ target_document_id(k)' = target_document_id(k)
  BY <1>5, JobsTyped DEF Moved, raw_content_hash, target_document_id
<1>8. \A c : Indexed(c)' = Indexed(c)
  BY <1>1, <1>3, <1>7, FinishedAreJobs DEF Indexed
<1>9. /\ phase'[j] = "pending" /\ tries'[j] = 0 /\ j \notin stored /\ j \notin ToSet(finished)
      /\ \A k \in Jobs \ {j} : phase'[k] = phase[k] /\ tries'[k] = tries[k]
      /\ \A k \in Jobs : phase'[k] = "indexed" <=> phase[k] = "indexed"
  BY <1>1, <1>3, <1>4 DEF TypeInv, JobInv
<1>10. ASSUME NEW v \in Uploads PROVE RequestInv(v)'
  <2>1. CASE v = u
    BY <2>1, <1>5
  <2>2. CASE v # u
    <3>1. request'[v] = request[v] /\ RequestInv(v)
      BY <2>2, <1>1, <1>5 DEF Moved
    <3>2. request[v].step = "document" =>
            raw_content_hash(request[v].found)' = raw_content_hash(request[v].found)
      BY <3>1, <1>1, <1>7, FinishedAreJobs DEF RequestInv
    <3>3. \A i \in 1..MaxFiles : phase'[<<v, i>>] = phase[<<v, i>>]
      BY <1>4, <1>9, <2>2 DEF Jobs
    <3> QED
      BY <3>1, <3>2, <3>3, <1>3, <1>8, <1>9 DEF RequestInv, File, Open
  <2> QED
    BY <2>1, <2>2
<1>11. ASSUME NEW k \in Jobs PROVE JobInv(k)'
  <2>1. CASE k = j
    <3>1. File(u) \in Contents /\ (File(u) \in request[u].known => File(u) \in gone)
      BY <1>1, <1>3 DEF RequestInv
    <3> QED
      BY <2>1, <3>1, <1>3, <1>4, <1>7, <1>9 DEF JobInv
  <2>2. CASE k # j
    BY <2>2, <1>1, <1>3, <1>7, <1>9 DEF JobInv
  <2> QED
    BY <2>1, <2>2
<1>12. ASSUME NEW k \in Jobs PROVE BegunInv(k)'
  <2>1. \A l \in Jobs : (Versioning(l) /\ tries[l] = 1)' => Versioning(l) /\ tries[l] = 1
    BY <1>7, <1>9 DEF Versioning
  <2> QED
    BY <2>1, <1>1, <1>3, <1>7 DEF BegunInv
<1>13. ASSUME NEW d \in Documents PROVE HeldInv(d)'
  BY <1>1, <1>3, <1>8, <1>9 DEF HeldInv, Settled, TypeInv
<1> QED
  BY <1>6, <1>10, <1>11, <1>12, <1>13 DEF IInv

\* A target is a document that is there: the page, or of an indexed job.
LEMMA TargetsAreSettled ==
  ASSUME IInv, NEW j \in ToSet(finished), document_id(j) \in stored
  PROVE  document_id(j) \in Jobs /\ phase[document_id(j)] = "indexed"
<1>1. /\ TypeInv /\ (\A v \in Uploads : RequestInv(v)) /\ (\A k \in Jobs : JobInv(k))
  BY DEF IInv
<1>2. j \in Jobs /\ phase[j] = "indexed" /\ j[1] \in Uploads
  BY <1>1, FinishedAreJobs, JobsTyped
<1>3. document_id(j) \in Jobs
  BY <1>1 DEF TypeInv
<1> QED
  BY <1>1, <1>2, <1>3 DEF document_id, target_document_id, RequestInv

\* accept: the batch of a request that had no jobs yet.
LEMMA AcceptStep ==
  ASSUME IInv, NEW u \in Uploads, accept(u)
  PROVE  IInv'
<1>1. /\ TypeInv /\ (\A v \in Uploads : RequestInv(v)) /\ (\A j \in Jobs : JobInv(j))
      /\ (\A j \in Jobs : BegunInv(j)) /\ (\A d \in Documents : HeldInv(d))
  BY DEF IInv
<1>2. /\ request[u].step = "none"
      /\ UNCHANGED <<phase, tries, stored, current, before, finished, pages, gone>>
  BY DEF accept, promiseVars, documentVars
<1>3. PICK n \in 1..MaxFiles : \E files \in [1..n -> Contents \cup {Refused}] :
      \E target \in {document_id(j) : j \in ToSet(finished)} \cup pages \cup {None} :
           /\ target # None => n = 1 /\ target \in stored \cup pages
           /\ request' = [request EXCEPT ![u] =
                [step |-> "file", files |-> files, target |-> target, at |-> 1,
                 found |-> None,
                 known |-> IF target = None THEN {c \in Contents : Indexed(c) # {}} ELSE {}]]
  BY DEF accept
<1>4. PICK files \in [1..n -> Contents \cup {Refused}] :
      \E target \in {document_id(j) : j \in ToSet(finished)} \cup pages \cup {None} :
           /\ target # None => n = 1 /\ target \in stored \cup pages
           /\ request' = [request EXCEPT ![u] =
                [step |-> "file", files |-> files, target |-> target, at |-> 1,
                 found |-> None,
                 known |-> IF target = None THEN {c \in Contents : Indexed(c) # {}} ELSE {}]]
  BY <1>3
<1>5. PICK target \in {document_id(j) : j \in ToSet(finished)} \cup pages \cup {None} :
           /\ target # None => n = 1 /\ target \in stored \cup pages
           /\ request' = [request EXCEPT ![u] =
                [step |-> "file", files |-> files, target |-> target, at |-> 1,
                 found |-> None,
                 known |-> IF target = None THEN {c \in Contents : Indexed(c) # {}} ELSE {}]]
  BY <1>4
<1>6. PICK known \in SUBSET Contents :
        known = IF target = None THEN {c \in Contents : Indexed(c) # {}} ELSE {}
  OBVIOUS
<1>7. PICK r : r = [step |-> "file", files |-> files, target |-> target, at |-> 1,
                    found |-> None, known |-> known]
  OBVIOUS
<1>8. request' = [request EXCEPT ![u] = r]
  BY <1>5, <1>6, <1>7
<1>9. target \in Jobs \cup {Page, None}
  BY <1>1, <1>5 DEF TypeInv
<1>10. MaxFiles \in Nat /\ n \in Nat /\ files \in Seq(Contents \cup {Refused}) /\ Len(files) = n
  BY IntakeAssumption
<1>11. r \in Request
  BY <1>7, <1>9, <1>10 DEF Request
<1>12. /\ request'[u] = r /\ request' \in [Uploads -> Request]
       /\ \A v \in Uploads \ {u} : request'[v] = request[v]
  BY <1>1, <1>8, <1>11 DEF TypeInv
<1>13. TypeInv' /\ (pages' # {} => gone' = {})
  BY <1>1, <1>2, <1>12 DEF TypeInv, IInv
<1>14. \A j \in Jobs : phase[j] # "none" => j[1] # u
  BY <1>1, <1>2, JobsTyped DEF RequestInv
<1>15. \A j \in Jobs : phase[j] # "none" =>
          /\ request'[j[1]] = request[j[1]]
          /\ raw_content_hash(j)' = raw_content_hash(j)
          /\ target_document_id(j)' = target_document_id(j)
  BY <1>12, <1>14, JobsTyped DEF raw_content_hash, target_document_id
<1>16. \A c : Indexed(c)' = Indexed(c)
  BY <1>1, <1>2, <1>15, FinishedAreJobs DEF Indexed
<1>17. ASSUME NEW v \in Uploads PROVE RequestInv(v)'
  <2>1. CASE v # u
    <3>1. request'[v] = request[v] /\ RequestInv(v)
      BY <2>1, <1>1, <1>12
    <3>2. request[v].step = "document" =>
            raw_content_hash(request[v].found)' = raw_content_hash(request[v].found)
      BY <3>1, <1>1, <1>15, FinishedAreJobs DEF RequestInv
    <3> QED
      BY <3>1, <3>2, <1>2, <1>16 DEF RequestInv, File, Open
  <2>2. CASE v = u
    <3>1. 1 \in DOMAIN files /\ 1 \in 1..MaxFiles /\ Len(files) <= MaxFiles
      BY <1>10
    <3>2. target \in Jobs => target \in stored /\ phase[target] = "indexed"
      <4>1. target \in Jobs => target \in stored /\ target \notin pages \cup {None}
        BY <1>1, <1>5, IntakeAssumption DEF TypeInv
      <4> QED
        BY <4>1, <1>5, TargetsAreSettled
    <3>3. target = Page => pages # {}
      <4>1. Page \notin stored /\ Page # None
        BY <1>1, IntakeAssumption DEF TypeInv
      <4> QED
        BY <4>1, <1>5
    <3>4. (known # {} => target = None) /\ \A c \in known : Indexed(c) # {}
      BY <1>6
    <3>5. /\ request'[u].step = "file" /\ request'[u].files = files /\ request'[u].at = 1
          /\ request'[u].target = target /\ request'[u].known = known
      BY <1>7, <1>12
    <3> QED
      BY <2>2, <3>1, <3>2, <3>3, <3>4, <3>5, <1>2, <1>16 DEF RequestInv, Open
  <2> QED
    BY <2>1, <2>2
<1>18. ASSUME NEW j \in Jobs PROVE JobInv(j)' /\ BegunInv(j)'
  <2>1. \A k \in Jobs : (Versioning(k) /\ tries[k] = 1)' => Versioning(k) /\ tries[k] = 1
    BY <1>2, <1>15 DEF Versioning
  <2>2. BegunInv(j)'
    BY <2>1, <1>1, <1>2, <1>15 DEF BegunInv, Versioning
  <2>3. phase[j] = "none" => j \notin stored /\ j \notin ToSet(finished)
    BY <1>1 DEF JobInv
  <2>4. JobInv(j)'
    BY <2>3, <1>1, <1>2, <1>15 DEF JobInv
  <2> QED
    BY <2>2, <2>4
<1>19. ASSUME NEW d \in Documents PROVE HeldInv(d)'
  BY <1>1, <1>2, <1>16 DEF HeldInv, Settled
<1> QED
  BY <1>13, <1>17, <1>18, <1>19 DEF IInv

-----------------------------------------------------------------------------
(* The steps of a job.                                                     *)

\* A target is settled, so that it is no job under way.
LEMMA TargetSettled ==
  ASSUME IInv, NEW j \in Jobs, target_document_id(j) # None
  PROVE  target_document_id(j) \in Documents /\ Settled(target_document_id(j))
<1>1. TypeInv /\ (\A v \in Uploads : RequestInv(v)) /\ j[1] \in Uploads
  BY JobsTyped DEF IInv
<1>2. target_document_id(j) \in Jobs \cup {Page, None}
  BY <1>1 DEF TypeInv, Request, target_document_id
<1>3. pages # {} => Page \in pages
  BY <1>1 DEF TypeInv
<1> QED
  BY <1>1, <1>2, <1>3 DEF Settled, Documents, RequestInv, target_document_id

\* What a request is said to be does not depend on the jobs under way.
LEMMA RequestFrame ==
  ASSUME IInv, NEW v \in Uploads, UNCHANGED <<request, pages, gone>>,
         \A k \in Jobs : /\ phase[k] = "none" => phase'[k] = "none"
                         /\ k \in stored /\ phase[k] = "indexed"
                            => k \in stored' /\ phase'[k] = "indexed",
         \A c : Indexed(c) \subseteq Indexed(c)',
         ToSet(finished) \subseteq ToSet(finished')
  PROVE  RequestInv(v)'
<1>1. RequestInv(v)
  BY DEF IInv
<1>2. \A i \in 1..MaxFiles : <<v, i>> \in Jobs
  BY DEF Jobs
<1> QED
  BY <1>1, <1>2 DEF RequestInv, Open, File, raw_content_hash

\* A job that is indexed comes last in the order of finished_at.
LEMMA AppendAdds ==
  ASSUME TypeInv, NEW j \in Jobs, finished' = Append(finished, j)
  PROVE  finished' \in Seq(Jobs) /\ ToSet(finished') = ToSet(finished) \cup {j}
<1>1. finished \in Seq(Jobs)
  BY DEF TypeInv
<1>2. Len(finished) \in Nat /\ finished' \in Seq(Jobs)
      /\ DOMAIN finished' = 1..(Len(finished) + 1) /\ DOMAIN finished = 1..Len(finished)
      /\ finished'[Len(finished) + 1] = j
      /\ \A i \in 1..Len(finished) : finished'[i] = finished[i]
  BY <1>1
<1>3. DOMAIN finished' = DOMAIN finished \cup {Len(finished) + 1}
  BY <1>2
<1>4. {finished'[i] : i \in DOMAIN finished'} = {finished[i] : i \in DOMAIN finished} \cup {j}
  BY <1>2, <1>3
<1> QED
  BY <1>2, <1>4, Zenon DEF ToSet

\* job_works: a job under way writes no document but its own.
LEMMA WorkStep ==
  ASSUME IInv, NEW j \in Jobs, job_works(j)
  PROVE  IInv'
<1>1. /\ TypeInv /\ (\A v \in Uploads : RequestInv(v)) /\ (\A k \in Jobs : JobInv(k))
      /\ (\A k \in Jobs : BegunInv(k)) /\ (\A d \in Documents : HeldInv(d))
  BY DEF IInv
<1>2. /\ target_document_id(j) = None /\ phase[j] = "pending"
      /\ current' = [current EXCEPT ![j] = IF j \in stored' THEN raw_content_hash(j) ELSE None]
      /\ UNCHANGED <<request, before, finished, pages, gone>>
  BY DEF job_works, Fresh, Promise!Try, Promise!Store, Promise!GiveUp
<1>3. /\ phase' \in [Jobs -> {"none", "pending", "indexed", "failed"}]
      /\ tries' \in [Jobs -> Nat]
      /\ \A k \in Jobs \ {j} : phase'[k] = phase[k] /\ tries'[k] = tries[k]
                               /\ (k \in stored' <=> k \in stored)
      /\ stored' \subseteq Jobs
      /\ phase'[j] \in {"pending", "failed"} /\ (j \in stored' => phase'[j] = "pending")
  <2>1. CASE Promise!Try(j)
    BY <2>1, <1>1, <1>2 DEF Promise!Try, TypeInv
  <2>2. CASE Promise!Store(j)
    BY <2>2, <1>1, <1>2 DEF Promise!Store, TypeInv
  <2>3. CASE Promise!GiveUp(j)
    BY <2>3, <1>1, <1>2 DEF Promise!GiveUp, TypeInv
  <2> QED
    BY <2>1, <2>2, <2>3 DEF job_works
<1>4. raw_content_hash(j) \in Contents
  BY <1>1, <1>2 DEF JobInv
<1>5. /\ \A d \in Documents \ {j} : current'[d] = current[d]
      /\ current' \in [Documents -> Contents \cup {None}]
      /\ current'[j] = IF j \in stored' THEN raw_content_hash(j) ELSE None
  BY <1>1, <1>2, <1>4 DEF TypeInv, Documents
<1>6. \A k \in Jobs : /\ raw_content_hash(k)' = raw_content_hash(k)
                      /\ target_document_id(k)' = target_document_id(k)
  BY <1>2 DEF raw_content_hash, target_document_id
<1>7. \A c : Indexed(c)' = Indexed(c)
  BY <1>1, <1>2, <1>6, FinishedAreJobs DEF Indexed
<1>8. \A v \in Uploads : RequestInv(v)'
  BY <1>2, <1>3, <1>7, RequestFrame
<1>9. ASSUME NEW k \in Jobs PROVE JobInv(k)'
  <2>1. CASE k = j
    BY <2>1, <1>1, <1>2, <1>3, <1>5, <1>6 DEF JobInv
  <2>2. CASE k # j
    BY <2>2, <1>1, <1>2, <1>3, <1>5, <1>6 DEF JobInv, Documents
  <2> QED
    BY <2>1, <2>2
<1>10. ASSUME NEW k \in Jobs PROVE BegunInv(k)'
  <2>1. \A l \in Jobs : (Versioning(l) /\ tries[l] = 1)' =>
          Versioning(l) /\ tries[l] = 1 /\ l # j
    BY <1>2, <1>3, <1>6 DEF Versioning
  <2>2. Versioning(k) => target_document_id(k) \in Documents /\ target_document_id(k) # j
    <3>1. j \notin pages /\ ~ Settled(j)
      BY <1>1, <1>2, IntakeAssumption DEF TypeInv, Settled
    <3> QED
      BY <3>1, TargetSettled DEF Versioning
  <2> QED
    BY <2>1, <2>2, <1>1, <1>2, <1>5, <1>6 DEF BegunInv
<1>11. ASSUME NEW d \in Documents PROVE HeldInv(d)'
  <2>1. ~ Settled(j) /\ ~ Settled(j)'
    BY <1>1, <1>2, <1>3, IntakeAssumption DEF TypeInv, Settled
  <2>2. CASE d = j
    BY <2>1, <2>2, <1>1, <1>2 DEF HeldInv, Documents
  <2>3. CASE d # j
    <3>1. Settled(d)' = Settled(d)
      BY <2>3, <1>1, <1>2, <1>3 DEF Settled, TypeInv
    <3> QED
      BY <2>3, <3>1, <1>1, <1>2, <1>5, <1>7 DEF HeldInv
  <2> QED
    BY <2>2, <2>3
<1>12. TypeInv' /\ (pages' # {} => gone' = {})
  BY <1>1, <1>2, <1>3, <1>5 DEF TypeInv, IInv
<1> QED
  BY <1>8, <1>9, <1>10, <1>11, <1>12 DEF IInv

\* complete_job: the content of its document is now that of an indexed job.
LEMMA CompleteStep ==
  ASSUME IInv, NEW j \in Jobs, complete_job(j)
  PROVE  IInv'
<1>1. /\ TypeInv /\ (\A v \in Uploads : RequestInv(v)) /\ (\A k \in Jobs : JobInv(k))
      /\ (\A k \in Jobs : BegunInv(k)) /\ (\A d \in Documents : HeldInv(d))
  BY DEF IInv
<1>2. /\ target_document_id(j) = None /\ phase[j] = "pending" /\ j \in stored
      /\ phase' = [phase EXCEPT ![j] = "indexed"]
      /\ finished' = Append(finished, j)
      /\ UNCHANGED <<request, tries, stored, current, before, pages, gone>>
  BY DEF complete_job, Fresh, Promise!Index
<1>3. /\ phase' \in [Jobs -> {"none", "pending", "indexed", "failed"}]
      /\ phase'[j] = "indexed"
      /\ \A k \in Jobs \ {j} : phase'[k] = phase[k]
  BY <1>1, <1>2 DEF TypeInv
<1>4. finished' \in Seq(Jobs) /\ ToSet(finished') = ToSet(finished) \cup {j}
  BY <1>1, <1>2, AppendAdds
<1>5. \A k \in Jobs : /\ raw_content_hash(k)' = raw_content_hash(k)
                      /\ target_document_id(k)' = target_document_id(k)
  BY <1>2 DEF raw_content_hash, target_document_id
<1>6. /\ \A c : Indexed(c) \subseteq Indexed(c)'
      /\ j \in Indexed(raw_content_hash(j))'
  BY <1>1, <1>4, <1>5, FinishedAreJobs DEF Indexed
<1>7. \A v \in Uploads : RequestInv(v)'
  BY <1>2, <1>3, <1>4, <1>6, RequestFrame
<1>8. ASSUME NEW k \in Jobs PROVE JobInv(k)'
  BY <1>1, <1>2, <1>3, <1>4, <1>5 DEF JobInv
<1>9. ASSUME NEW k \in Jobs PROVE BegunInv(k)'
  <2>1. \A l \in Jobs : Versioning(l)' => Versioning(l)
    BY <1>2, <1>3, <1>5 DEF Versioning
  <2> QED
    BY <2>1, <1>1, <1>2, <1>5 DEF BegunInv
<1>10. ASSUME NEW d \in Documents PROVE HeldInv(d)'
  <2>1. CASE d = j
    <3>1. before[j] = Nothing /\ current[j] = raw_content_hash(j)
      <4>1. ~ Settled(j)
        BY <1>1, <1>2, IntakeAssumption DEF TypeInv, Settled
      <4> QED
        BY <4>1, <1>1, <1>2 DEF HeldInv, JobInv, Documents
    <3> QED
      BY <2>1, <3>1, <1>2, <1>5, <1>6 DEF HeldInv
  <2>2. CASE d # j
    <3>1. Settled(d)' = Settled(d)
      BY <2>2, <1>1, <1>2, <1>3 DEF Settled, TypeInv
    <3> QED
      BY <3>1, <1>1, <1>2, <1>6 DEF HeldInv
  <2> QED
    BY <2>1, <2>2
<1>11. TypeInv' /\ (pages' # {} => gone' = {})
  BY <1>1, <1>2, <1>3, <1>4 DEF TypeInv, IInv
<1> QED
  BY <1>7, <1>8, <1>9, <1>10, <1>11 DEF IInv

\* retry_job: a failed job has no document and no new one yet.
LEMMA RetryStep ==
  ASSUME IInv, NEW j \in Jobs, retry_job(j)
  PROVE  IInv'
<1>1. /\ TypeInv /\ (\A v \in Uploads : RequestInv(v)) /\ (\A k \in Jobs : JobInv(k))
      /\ (\A k \in Jobs : BegunInv(k)) /\ (\A d \in Documents : HeldInv(d))
  BY DEF IInv
<1>2. /\ phase[j] = "failed"
      /\ phase' = [phase EXCEPT ![j] = "pending"] /\ tries' = [tries EXCEPT ![j] = 0]
      /\ UNCHANGED <<request, stored, current, before, finished, pages, gone>>
  BY DEF retry_job, Promise!Submit, documentVars
<1>3. /\ phase' \in [Jobs -> {"none", "pending", "indexed", "failed"}]
      /\ tries' \in [Jobs -> Nat]
      /\ phase'[j] = "pending" /\ tries'[j] = 0
      /\ \A k \in Jobs \ {j} : phase'[k] = phase[k] /\ tries'[k] = tries[k]
  BY <1>1, <1>2 DEF TypeInv
<1>4. \A k \in Jobs : /\ raw_content_hash(k)' = raw_content_hash(k)
                      /\ target_document_id(k)' = target_document_id(k)
  BY <1>2 DEF raw_content_hash, target_document_id
<1>5. \A c : Indexed(c)' = Indexed(c)
  BY <1>1, <1>2, <1>4, FinishedAreJobs DEF Indexed
<1>6. \A v \in Uploads : RequestInv(v)'
  BY <1>2, <1>3, <1>5, RequestFrame
<1>7. ASSUME NEW k \in Jobs PROVE JobInv(k)'
  BY <1>1, <1>2, <1>3, <1>4 DEF JobInv
<1>8. ASSUME NEW k \in Jobs PROVE BegunInv(k)'
  <2>1. \A l \in Jobs : (Versioning(l) /\ tries[l] = 1)' => Versioning(l) /\ tries[l] = 1
    BY <1>2, <1>3, <1>4 DEF Versioning
  <2> QED
    BY <2>1, <1>1, <1>2, <1>4 DEF BegunInv
<1>9. ASSUME NEW d \in Documents PROVE HeldInv(d)'
  BY <1>1, <1>2, <1>3, <1>5 DEF HeldInv, Settled, TypeInv
<1>10. TypeInv' /\ (pages' # {} => gone' = {})
  BY <1>1, <1>2, <1>3 DEF TypeInv, IInv
<1> QED
  BY <1>6, <1>7, <1>8, <1>9, <1>10 DEF IInv

\* upsert_document_version: the content it replaces is kept to go back to.
LEMMA VersionStep ==
  ASSUME IInv, NEW j \in Jobs, upsert_document_version(j)
  PROVE  IInv'
<1>1. /\ TypeInv /\ (\A v \in Uploads : RequestInv(v)) /\ (\A k \in Jobs : JobInv(k))
      /\ (\A k \in Jobs : BegunInv(k)) /\ (\A d \in Documents : HeldInv(d))
  BY DEF IInv
<1>2. PICK d : d = target_document_id(j)
  OBVIOUS
<1>3. /\ Versioning(j) /\ phase[j] = "pending" /\ d # None /\ before[d] = Nothing
      /\ before' = [before EXCEPT ![d] = current[d]]
      /\ current' = [current EXCEPT ![d] = raw_content_hash(j)]
      /\ tries' = [tries EXCEPT ![j] = 1]
      /\ UNCHANGED <<request, phase, stored, finished, pages, gone>>
  BY <1>2 DEF upsert_document_version, Versioning
<1>4. d \in Documents /\ Settled(d) /\ raw_content_hash(j) \in Contents
  BY <1>1, <1>2, <1>3, TargetSettled DEF JobInv
<1>5. /\ before' \in [Documents -> Contents \cup {None, Nothing}]
      /\ current' \in [Documents -> Contents \cup {None}]
      /\ tries' \in [Jobs -> Nat]
      /\ before'[d] = current[d] /\ current'[d] = raw_content_hash(j)
      /\ \A e \in Documents \ {d} : before'[e] = before[e] /\ current'[e] = current[e]
      /\ tries'[j] = 1 /\ \A k \in Jobs \ {j} : tries'[k] = tries[k]
  BY <1>1, <1>3, <1>4 DEF TypeInv
<1>6. current[d] # Nothing
  BY <1>1, <1>4, IntakeAssumption DEF TypeInv
<1>7. \A k \in Jobs : /\ raw_content_hash(k)' = raw_content_hash(k)
                      /\ target_document_id(k)' = target_document_id(k)
  BY <1>3 DEF raw_content_hash, target_document_id
<1>8. \A c : Indexed(c)' = Indexed(c)
  BY <1>1, <1>3, <1>7, FinishedAreJobs DEF Indexed
<1>9. \A v \in Uploads : RequestInv(v)'
  BY <1>3, <1>8, RequestFrame
<1>10. ASSUME NEW k \in Jobs PROVE JobInv(k)'
  <2>1. phase[k] = "pending" => k # d
    BY <1>1, <1>4, IntakeAssumption DEF Settled, TypeInv
  <2>2. k \in Documents
    BY DEF Documents
  <2> QED
    BY <2>1, <2>2, <1>1, <1>3, <1>5, <1>7 DEF JobInv
<1>11. ASSUME NEW k \in Jobs PROVE BegunInv(k)'
  <2>1. \A l \in Jobs : Versioning(l)' = Versioning(l)
    BY <1>3, <1>7 DEF Versioning
  <2>2. \A l \in Jobs : Versioning(l) /\ tries[l] = 1 => target_document_id(l) # d
    BY <1>1, <1>3 DEF BegunInv
  <2>3. CASE k = j
    BY <2>1, <2>2, <2>3, <1>2, <1>5, <1>6, <1>7 DEF BegunInv
  <2>4. CASE k # j
    <3>1. Versioning(k) => target_document_id(k) \in Documents
      BY TargetSettled DEF Versioning
    <3>2. SUFFICES ASSUME Versioning(k), tries[k] = 1
          PROVE /\ before'[target_document_id(k)] # Nothing
                /\ current'[target_document_id(k)] = raw_content_hash(k)
                /\ \A l \in Jobs : Versioning(l) /\ tries'[l] = 1
                      /\ target_document_id(l) = target_document_id(k) => l = k
      BY <2>1, <2>4, <1>5, <1>7 DEF BegunInv
    <3>3. target_document_id(k) # d
      BY <2>2, <3>2
    <3>4. BegunInv(k)
      BY <1>1
    <3> QED
      BY <3>1, <3>2, <3>3, <3>4, <1>2, <1>5 DEF BegunInv
  <2> QED
    BY <2>3, <2>4
<1>12. ASSUME NEW e \in Documents PROVE HeldInv(e)'
  <2>1. Settled(e)' = Settled(e) /\ HeldInv(e)
    BY <1>1, <1>3 DEF Settled
  <2>2. CASE e = d
    BY <2>1, <2>2, <1>3, <1>4, <1>5, <1>6, <1>8 DEF HeldInv
  <2>3. CASE e # d
    BY <2>1, <2>3, <1>5, <1>8 DEF HeldInv
  <2> QED
    BY <2>2, <2>3
<1>13. TypeInv' /\ (pages' # {} => gone' = {})
  BY <1>1, <1>3, <1>5 DEF TypeInv, IInv
<1> QED
  BY <1>9, <1>10, <1>11, <1>12, <1>13 DEF IInv

\* version_settles: the target has the new content, now indexed, or the old.
LEMMA SettleStep ==
  ASSUME IInv, NEW j \in Jobs, version_settles(j)
  PROVE  IInv'
<1>1. /\ TypeInv /\ (\A v \in Uploads : RequestInv(v)) /\ (\A k \in Jobs : JobInv(k))
      /\ (\A k \in Jobs : BegunInv(k)) /\ (\A d \in Documents : HeldInv(d))
  BY DEF IInv
<1>2. PICK d : d = target_document_id(j)
  OBVIOUS
<1>3. PICK s \in {"indexed", "failed"} :
        /\ phase' = [phase EXCEPT ![j] = s]
        /\ IF s = "indexed" THEN finished' = Append(finished, j) /\ UNCHANGED current
           ELSE current' = [current EXCEPT ![d] = before[d]] /\ UNCHANGED finished
  BY <1>2 DEF version_settles
<1>4. /\ Versioning(j) /\ phase[j] = "pending" /\ d # None /\ tries[j] = 1
      /\ before' = [before EXCEPT ![d] = Nothing]
      /\ UNCHANGED <<request, pages, gone, tries, stored>>
  BY <1>2 DEF version_settles, Versioning
<1>5. d \in Documents /\ Settled(d) /\ j \notin stored /\ raw_content_hash(j) \in Contents
  BY <1>1, <1>2, <1>4, TargetSettled DEF JobInv
<1>6. /\ before[d] # Nothing /\ current[d] = raw_content_hash(j)
      /\ \A k \in Jobs : Versioning(k) /\ tries[k] = 1 /\ target_document_id(k) = d => k = j
  BY <1>1, <1>2, <1>4 DEF BegunInv
<1>7. /\ before' \in [Documents -> Contents \cup {None, Nothing}]
      /\ current' \in [Documents -> Contents \cup {None}]
      /\ phase' \in [Jobs -> {"none", "pending", "indexed", "failed"}]
      /\ before'[d] = Nothing
      /\ current'[d] = IF s = "indexed" THEN raw_content_hash(j) ELSE before[d]
      /\ \A e \in Documents \ {d} : before'[e] = before[e] /\ current'[e] = current[e]
      /\ phase'[j] = s /\ \A k \in Jobs \ {j} : phase'[k] = phase[k]
  BY <1>1, <1>3, <1>4, <1>5, <1>6 DEF TypeInv
<1>8. \A k \in Jobs : /\ raw_content_hash(k)' = raw_content_hash(k)
                      /\ target_document_id(k)' = target_document_id(k)
  BY <1>4 DEF raw_content_hash, target_document_id
<1>9. /\ finished' \in Seq(Jobs)
      /\ ToSet(finished') = IF s = "indexed" THEN ToSet(finished) \cup {j} ELSE ToSet(finished)
  BY <1>1, <1>3, AppendAdds DEF TypeInv
<1>10. /\ \A c : Indexed(c) \subseteq Indexed(c)'
       /\ s = "indexed" => j \in Indexed(raw_content_hash(j))'
  BY <1>1, <1>8, <1>9, FinishedAreJobs DEF Indexed
<1>11. \A v \in Uploads : RequestInv(v)'
  BY <1>4, <1>5, <1>7, <1>9, <1>10, RequestFrame
<1>12. ASSUME NEW k \in Jobs PROVE JobInv(k)'
  <2>1. phase[k] = "pending" => k # d
    BY <1>1, <1>5, IntakeAssumption DEF Settled, TypeInv
  <2>2. k \in Documents
    BY DEF Documents
  <2>3. CASE k = j
    BY <2>3, <1>1, <1>2, <1>4, <1>5, <1>7, <1>8, <1>9 DEF JobInv
  <2>4. CASE k # j
    BY <2>1, <2>2, <2>4, <1>1, <1>4, <1>7, <1>8, <1>9 DEF JobInv
  <2> QED
    BY <2>3, <2>4
<1>13. ASSUME NEW k \in Jobs PROVE BegunInv(k)'
  <2>1. \A l \in Jobs : Versioning(l)' => Versioning(l) /\ l # j
    BY <1>4, <1>7, <1>8 DEF Versioning
  <2>2. Versioning(k) => target_document_id(k) \in Documents
    BY TargetSettled DEF Versioning
  <2> QED
    BY <2>1, <2>2, <1>1, <1>4, <1>6, <1>7, <1>8 DEF BegunInv
<1>14. ASSUME NEW e \in Documents PROVE HeldInv(e)'
  <2>1. Settled(e)' = Settled(e) /\ HeldInv(e)
    BY <1>1, <1>4, <1>5, <1>7 DEF Settled, TypeInv
  <2>2. CASE e = d
    <3>1. CASE s = "indexed"
      BY <2>1, <2>2, <3>1, <1>5, <1>7, <1>8, <1>10 DEF HeldInv
    <3>2. CASE s = "failed"
      BY <2>1, <2>2, <3>2, <1>5, <1>6, <1>7, <1>10 DEF HeldInv
    <3> QED
      BY <3>1, <3>2
  <2>3. CASE e # d
    BY <2>1, <2>3, <1>7, <1>10 DEF HeldInv
  <2> QED
    BY <2>2, <2>3
<1>15. TypeInv' /\ (pages' # {} => gone' = {})
  BY <1>1, <1>4, <1>7, <1>9 DEF TypeInv, IInv
<1> QED
  BY <1>11, <1>12, <1>13, <1>14, <1>15 DEF IInv

-----------------------------------------------------------------------------
(* The cleanup of a failed sync run.                                       *)

\* cleanup_sync_run: what had the page for a document is now gone.
LEMMA CleanupStep ==
  ASSUME IInv, cleanup_sync_run
  PROVE  IInv'
<1>1. /\ TypeInv /\ (\A v \in Uploads : RequestInv(v)) /\ (\A k \in Jobs : JobInv(k))
      /\ (\A k \in Jobs : BegunInv(k)) /\ (\A d \in Documents : HeldInv(d))
  BY DEF IInv
<1>2. /\ pages # {} /\ before[Page] = Nothing /\ pages' = {}
      /\ gone' = {raw_content_hash(j) : j \in {k \in ToSet(finished) : document_id(k) = Page}}
      /\ current' = [current EXCEPT ![Page] = None]
      /\ UNCHANGED <<phase, tries, stored, before, finished>>
  BY DEF cleanup_sync_run, promiseVars
<1>3. pages = {Page} /\ gone = {} /\ Page \in Documents /\ Page \notin Jobs /\ Page # None
  BY <1>1, <1>2, IntakeAssumption DEF IInv, TypeInv, Documents
<1>4. /\ request' \in [Uploads -> Request]
      /\ \A v \in Uploads :
           IF request[v].target = Page
           THEN /\ request'[v].target = None
                /\ request'[v].step = IF request[v].step \in {"file", "create"}
                                      THEN "ended" ELSE request[v].step
                /\ request'[v].files = request[v].files /\ request'[v].at = request[v].at
                /\ request'[v].found = request[v].found /\ request'[v].known = request[v].known
           ELSE request'[v] = request[v]
  <2>1. request' = [v \in Uploads |->
         IF request[v].target = Page
         THEN [request[v] EXCEPT !.target = None,
                                 !.step = IF request[v].step \in {"file", "create"}
                                          THEN "ended" ELSE request[v].step]
         ELSE request[v]]
    BY DEF cleanup_sync_run
  <2>2. ASSUME NEW v \in Uploads, request[v].target = Page
        PROVE  /\ request'[v] \in Request
               /\ request'[v].target = None
               /\ request'[v].step = IF request[v].step \in {"file", "create"}
                                     THEN "ended" ELSE request[v].step
               /\ request'[v].files = request[v].files /\ request'[v].at = request[v].at
               /\ request'[v].found = request[v].found /\ request'[v].known = request[v].known
    <3>1. request[v] \in Request
      BY <1>1 DEF TypeInv
    <3>2. PICK s \in {"none", "file", "document", "create", "ended"} :
            s = IF request[v].step \in {"file", "create"} THEN "ended" ELSE request[v].step
      BY <3>1 DEF Request
    <3>3. PICK r : r = [request[v] EXCEPT !.target = None, !.step = s]
      OBVIOUS
    <3>4. request'[v] = r
      BY <2>1, <2>2, <3>2, <3>3
    <3>5. /\ r \in Request /\ r.target = None /\ r.step = s /\ r.files = request[v].files
          /\ r.at = request[v].at /\ r.found = request[v].found /\ r.known = request[v].known
      BY <3>1, <3>3 DEF Request
    <3> QED
      BY <3>2, <3>4, <3>5
  <2>3. ASSUME NEW v \in Uploads, request[v].target # Page
        PROVE  request'[v] = request[v] /\ request'[v] \in Request
    BY <2>1, <2>3, <1>1 DEF TypeInv
  <2>4. request' \in [Uploads -> Request]
    BY <2>1, <2>2, <2>3
  <2> QED
    BY <2>2, <2>3, <2>4
<1>5. \A k \in Jobs :
        /\ k[1] \in Uploads
        /\ request'[k[1]].files = request[k[1]].files
        /\ request'[k[1]].known = request[k[1]].known
        /\ raw_content_hash(k)' = raw_content_hash(k)
        /\ target_document_id(k)' = IF target_document_id(k) = Page THEN None
                                    ELSE target_document_id(k)
  BY <1>4, JobsTyped DEF raw_content_hash, target_document_id
<1>6. \A c : Indexed(c)' = Indexed(c)
  BY <1>1, <1>2, <1>5, FinishedAreJobs DEF Indexed
<1>7. gone' \subseteq Contents
  BY <1>1, <1>2, FinishedAreJobs DEF JobInv
<1>8. /\ current' \in [Documents -> Contents \cup {None}] /\ current'[Page] = None
      /\ \A e \in Documents \ {Page} : current'[e] = current[e]
  BY <1>1, <1>2, <1>3 DEF TypeInv
<1>9. TypeInv' /\ (pages' # {} => gone' = {})
  BY <1>1, <1>2, <1>4, <1>7, <1>8 DEF TypeInv
<1>10. ASSUME NEW v \in Uploads PROVE RequestInv(v)'
  <2>1. RequestInv(v)
    BY <1>1
  <2>2. File(v)' = File(v)
    <3>1. request'[v].files = request[v].files /\ request'[v].at = request[v].at
      BY <1>4
    <3> QED
      BY <3>1 DEF File
  <2>3. PICK k : k = request[v].found
    OBVIOUS
  <2>4. request[v].step = "document" => raw_content_hash(k)' = raw_content_hash(k)
    BY <2>1, <2>3, <1>1, <1>5, FinishedAreJobs DEF RequestInv
  <2>5. CASE request[v].target = Page
    <3>1. request[v].step # "document" /\ request[v].known = {} /\ request[v].step # "none"
      BY <2>1, <2>5, <1>3 DEF RequestInv
    <3>2. request'[v].step = "ended"
      <4>1. request[v].step \in {"none", "file", "document", "create", "ended"}
        BY <1>1 DEF TypeInv, Request
      <4> QED
        BY <2>5, <3>1, <4>1, <1>4
    <3> QED
      BY <2>1, <2>5, <3>1, <3>2, <1>3, <1>4, IntakeAssumption DEF RequestInv, Open
  <2>6. CASE request[v].target # Page
    <3>1. request'[v] = request[v]
      BY <2>6, <1>4
    <3> QED
      BY <2>1, <2>2, <2>3, <2>4, <2>6, <3>1, <1>2, <1>3, <1>6 DEF RequestInv, Open
  <2> QED
    BY <2>5, <2>6
<1>11. ASSUME NEW k \in Jobs PROVE JobInv(k)'
  <2>1. JobInv(k) /\ k \in Documents /\ k # Page
    BY <1>1, <1>3 DEF Documents
  <2>2. phase[k] = "indexed" /\ target_document_id(k) = Page =>
          k \in stored \/ raw_content_hash(k) \in gone'
    <3>1. SUFFICES ASSUME phase[k] = "indexed", target_document_id(k) = Page
                   PROVE raw_content_hash(k) \in gone'
      OBVIOUS
    <3>2. k \in ToSet(finished)
      BY <2>1, <3>1 DEF JobInv
    <3> QED
      BY <3>1, <3>2, <1>2, <1>3 DEF document_id
  <2>3. CASE phase[k] # "none"
    BY <2>1, <2>2, <2>3, <1>2, <1>3, <1>5, <1>8 DEF JobInv
  <2>4. CASE phase[k] = "none"
    BY <2>1, <2>4, <1>2, <1>5 DEF JobInv
  <2> QED
    BY <2>3, <2>4
<1>12. ASSUME NEW k \in Jobs PROVE BegunInv(k)'
  <2>1. \A l \in Jobs : (Versioning(l) /\ tries[l] = 1)' =>
          Versioning(l) /\ tries[l] = 1 /\ target_document_id(l) # Page
    BY <1>2, <1>5 DEF Versioning
  <2>2. Versioning(k) => target_document_id(k) \in Documents
    BY TargetSettled DEF Versioning
  <2> QED
    BY <2>1, <2>2, <1>1, <1>2, <1>5, <1>8 DEF BegunInv
<1>13. ASSUME NEW e \in Documents PROVE HeldInv(e)'
  <2>1. CASE e = Page
    <3>1. ~ Settled(Page)'
      BY <1>1, <1>2, <1>3 DEF Settled, TypeInv
    <3> QED
      BY <2>1, <3>1, <1>2 DEF HeldInv
  <2>2. CASE e # Page
    <3>1. Settled(e)' = Settled(e)
      BY <2>2, <1>2, <1>3 DEF Settled
    <3> QED
      BY <2>2, <3>1, <1>1, <1>2, <1>6, <1>8 DEF HeldInv
  <2> QED
    BY <2>1, <2>2
<1> QED
  BY <1>9, <1>10, <1>11, <1>12, <1>13 DEF IInv

-----------------------------------------------------------------------------
(* The invariant and what follows from it.                                 *)

\* No request, no job, and a page without content.
LEMMA IntakeInit == Init => IInv
<1> SUFFICES ASSUME Init PROVE IInv
  OBVIOUS
<1>1. /\ request = [u \in Uploads |-> [step |-> "none", files |-> << >>, target |-> None,
                                      at |-> 1, found |-> None, known |-> {}]]
      /\ phase = [j \in Jobs |-> "none"] /\ tries = [j \in Jobs |-> 0] /\ stored = {}
      /\ finished = << >> /\ pages = {Page} /\ gone = {}
      /\ current = [d \in Documents |-> None] /\ before = [d \in Documents |-> Nothing]
  BY DEF Init, Promise!Init
<1>2. ToSet(finished) = {}
  BY <1>1 DEF ToSet
<1>3. TypeInv
  BY <1>1 DEF TypeInv, Request
<1>4. ASSUME NEW u \in Uploads PROVE RequestInv(u)
  <2>1. /\ request[u].step = "none" /\ request[u].target = None /\ request[u].known = {}
        /\ \A i \in 1..MaxFiles : phase[<<u, i>>] = "none"
    BY <1>1 DEF Jobs
  <2> QED
    BY <2>1, <1>1, IntakeAssumption DEF RequestInv, Open
<1>5. ASSUME NEW j \in Jobs PROVE JobInv(j) /\ BegunInv(j)
  BY <1>1, <1>2 DEF JobInv, BegunInv, Versioning
<1>6. ASSUME NEW d \in Documents PROVE HeldInv(d)
  BY <1>1, <1>3 DEF HeldInv, TypeInv
<1> QED
  BY <1>1, <1>3, <1>4, <1>5, <1>6 DEF IInv

\* The invariant is inductive.
LEMMA IntakeStep == IInv /\ [Next]_vars => IInv'
<1> SUFFICES ASSUME IInv, [Next]_vars PROVE IInv'
  OBVIOUS
<1>1. ASSUME NEW u \in Uploads, Serve(u) PROVE IInv'
  BY <1>1, AcceptStep, RejectStep, FindStep, DocumentStep, CreateStep, RaiseStep DEF Serve
<1>2. ASSUME NEW j \in Jobs, Work(j) PROVE IInv'
  BY <1>2, WorkStep, CompleteStep, RetryStep, VersionStep, SettleStep DEF Work
<1>3. CASE UNCHANGED vars
  <2>1. UNCHANGED <<request, phase, tries, stored, current, before, finished, pages, gone>>
    BY <1>3 DEF vars, promiseVars, documentVars
  <2>2. \A c : Indexed(c)' = Indexed(c)
    BY <2>1 DEF Indexed, raw_content_hash
  <2>3. \A v \in Uploads : RequestInv(v)'
    BY <2>1, <2>2, RequestFrame
  <2>4. \A k \in Jobs : JobInv(k)' /\ BegunInv(k)'
    BY <2>1 DEF IInv, JobInv, BegunInv, Versioning, raw_content_hash, target_document_id
  <2>5. \A d \in Documents : HeldInv(d)'
    BY <2>1, <2>2 DEF IInv, HeldInv, Settled
  <2>6. TypeInv' /\ (pages' # {} => gone' = {})
    BY <2>1 DEF IInv, TypeInv
  <2> QED
    BY <2>3, <2>4, <2>5, <2>6 DEF IInv
<1> QED
  BY <1>1, <1>2, <1>3, CleanupStep DEF Next

\* Places in batches, jobs and contents agree, however requests and jobs are
\* interleaved.
THEOREM IntakeInvariant == Spec => []IInv
  BY IntakeInit, IntakeStep, PTL DEF Spec

\* A content that was indexed when a request came in is not made a document by
\* it: not by a later file of its batch, nor by the retry of a job, whatever
\* other requests, versions and workers do between the duplicate test and the
\* insertion of the job (accept, find_indexed_job_by_raw_hash, retry_job).
THEOREM NeverDuplicatedLate == Spec => []NoLateDuplicate
<1>1. IInv => NoLateDuplicate
  <2> SUFFICES ASSUME IInv, NEW j \in stored,
                      raw_content_hash(j) \in request[j[1]].known
               PROVE  raw_content_hash(j) \in gone
    BY DEF NoLateDuplicate
  <2>1. j \in Jobs /\ JobInv(j)
    BY DEF IInv, TypeInv
  <2> QED
    BY <2>1 DEF JobInv
<1> QED
  BY <1>1, IntakeInvariant, PTL

\* The newest indexed job of a content leads to a document that is there, for
\* every content that an indexed document or the page of a sync run has, but
\* those of versions that the page took with it.
THEOREM HeldIsAlwaysFound == Spec => []HeldIsFound
<1>1. IInv => HeldIsFound
  <2> SUFFICES ASSUME IInv, NEW d \in {j \in stored : phase[j] = "indexed"} \cup pages,
                      before[d] = Nothing, current[d] \notin gone \cup {None}
               PROVE  /\ find_indexed_job(current[d]) # None
                      /\ document_id(find_indexed_job(current[d])) \in stored \cup pages
    BY DEF HeldIsFound
  <2>1. /\ TypeInv /\ (\A v \in Uploads : RequestInv(v)) /\ (\A k \in Jobs : JobInv(k))
        /\ Settled(d) /\ d \in Documents /\ HeldInv(d)
    BY DEF IInv, TypeInv, Settled, Documents
  <2>2. Indexed(current[d]) # {}
    BY <2>1 DEF HeldInv
  <2>3. PICK k : k = find_indexed_job(current[d])
    OBVIOUS
  <2>4. k \in ToSet(finished) /\ raw_content_hash(k) = current[d]
    <3>1. Indexed(current[d]) \cap ToSet(finished) # {}
      BY <2>2 DEF Indexed
    <3>2. k \in Indexed(current[d])
      BY <2>1, <2>3, <3>1, NewestIsOne DEF find_indexed_job
    <3> QED
      BY <3>2 DEF Indexed
  <2>5. k \in Jobs /\ phase[k] = "indexed" /\ k[1] \in Uploads /\ JobInv(k)
    BY <2>1, <2>4, FinishedAreJobs, JobsTyped
  <2>6. document_id(k) \in stored \cup pages
    <3>1. CASE target_document_id(k) = None
      BY <3>1, <2>4, <2>5 DEF JobInv, document_id
    <3>2. CASE target_document_id(k) # None
      <4>1. Settled(target_document_id(k))
        BY <2>5, <3>2, TargetSettled
      <4> QED
        BY <3>2, <4>1 DEF Settled, document_id
    <3> QED
      BY <3>1, <3>2
  <2> QED
    BY <2>3, <2>5, <2>6, IntakeAssumption
<1> QED
  BY <1>1, IntakeInvariant, PTL

=============================================================================
