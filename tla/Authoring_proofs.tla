--------------------------- MODULE Authoring_proofs ---------------------------
(***************************************************************************)
(* Theorems about what stands on a project's files, for any number of      *)
(* requests, names and episodes.                                           *)
(*                                                                         *)
(* ArchiveInstall: without a lock on the name, what a request may rely on  *)
(* is that nobody else is at work on it; InstallInv says what then stands  *)
(* under the name at every step of the request.                            *)
(* ShotAssets: ShotsInv says whose each file, task and cell of a grid is,  *)
(* so far as no removed shot has left it behind.                           *)
(* ReferenceUnits: UnitsInv says of everybody at work on a unit that he    *)
(* knows what the unit is of, or that its number was given away meanwhile. *)
(* EpisodePlanner: LedgerInv says that a plan only continues what is read  *)
(* and a replan only cuts a stretch of it anew, at each step of a commit.  *)
(***************************************************************************)
EXTENDS ArchiveInstall, EpisodeWriting, ShotAssets, ReferenceUnits, EpisodePlanner, FiniteSetTheorems,
        WellFoundedInduction, TLAPS

LEMMA DirFacts ==
  /\ NoDir \in DirStates /\ NoDir.project = "none" /\ NoDir.whole = FALSE
  /\ \A p : Dir(p, TRUE).project = p /\ Dir(p, TRUE).whole /\ Dir(p, FALSE).project = p
  /\ \A p \in Requests \cup {"old"} :
       Dir(p, TRUE) \in DirStates /\ Dir(p, FALSE) \in DirStates
       /\ Dir(p, TRUE) # NoDir /\ Dir(p, FALSE) # NoDir
  /\ \A d \in DirStates : d # NoDir => d.project \in Requests \cup {"old"}
  BY ArchiveAssumption DEF DirStates, NoDir, Dir

AllRequests == {Idle} \cup [step : Steps, name : ProjectNames, policy : Policies]

ArchiveShapes ==
    /\ dirs \in [ProjectNames -> DirStates] /\ aside \in [Requests -> DirStates]
    /\ requests \in [Requests -> AllRequests]

\* What stands under the name of a request at its steps.
Stands(r) ==
    LET n == Name(r) IN
    /\ IsAt(r, "resolved") =>
         /\ aside[r] = NoDir
         /\ Exists(n) => requests[r].policy = "overwrite" /\ (dirs[n].whole \/ crashed)
    /\ IsAt(r, "clear") => dirs[n] = NoDir
    /\ IsAt(r, "moving") => dirs[n] = Dir(r, FALSE)
    /\ requests[r].step \in {"moved", "installed"} => dirs[n] = Dir(r, TRUE)
    /\ IsAt(r, "failed") /\ Exists(n) => dirs[n].project = r \/ dirs[n].project \in doomed
    /\ aside[r] # NoDir => aside[r].whole \/ crashed

AtWork == {r \in Requests : requests[r] # Idle}

InstallInv ==
    /\ ArchiveShapes
    /\ ~overlap =>
        /\ \A r, q \in AtWork : Name(r) = Name(q) => r = q
        /\ \A r \in AtWork : Stands(r) /\ r \notin owned \cup outgoing
        /\ \A p \in owned : \E n \in ProjectNames : dirs[n] = Dir(p, TRUE) /\ ~Busy(n)
        /\ \A p \in outgoing \ doomed : Kept(p)
        /\ \A n \in ProjectNames : Exists(n) /\ ~Busy(n) => dirs[n].whole \/ crashed
        /\ owned \cup outgoing \subseteq Requests \cup {"old"}

LEMMA InstallInvInit == ArchiveInit => InstallInv
  <1> SUFFICES ASSUME ArchiveInit PROVE InstallInv
    OBVIOUS
  <1>1. PICK n \in ProjectNames :
          dirs = [m \in ProjectNames |-> IF m = n THEN Dir("old", TRUE) ELSE NoDir]
    BY DEF ArchiveInit
  <1>2. Dir("old", TRUE) \in DirStates /\ NoDir \in DirStates
    BY DirFacts
  <1>3. dirs \in [ProjectNames -> DirStates]
    BY <1>1, <1>2
  <1>4. aside \in [Requests -> DirStates]
    BY <1>2 DEF ArchiveInit
  <1>5. ArchiveShapes
    BY <1>3, <1>4 DEF ArchiveInit, ArchiveShapes, AllRequests
  <1>6. AtWork = {} /\ \A m \in ProjectNames : ~Busy(m)
    BY DEF ArchiveInit, AtWork, Busy
  <1>7. dirs[n] = Dir("old", TRUE) /\ \A m \in ProjectNames : Exists(m) => dirs[m].whole
    BY <1>1, DirFacts DEF Exists
  <1> QED BY <1>5, <1>6, <1>7 DEF ArchiveInit, InstallInv

\* A request that goes on keeps its name and its policy.
LEMMA RequestGoes ==
  ASSUME ArchiveShapes, NEW r \in Requests, requests[r] # Idle, NEW step \in Steps, Go(r, step)
  PROVE  /\ requests' \in [Requests -> AllRequests]
         /\ requests'[r] # Idle /\ requests'[r].step = step
         /\ requests'[r].name = requests[r].name /\ requests[r].name \in ProjectNames
         /\ requests'[r].policy = requests[r].policy
         /\ \A q \in Requests \ {r} : requests'[q] = requests[q]
  <1>1. requests[r] \in [step : Steps, name : ProjectNames, policy : Policies]
    BY DEF ArchiveShapes, AllRequests
  <1>2. requests' = [requests EXCEPT ![r] = [requests[r] EXCEPT !.step = step]]
    BY DEF Go
  <1> DEFINE new == [requests[r] EXCEPT !.step = step]
  <1>3. /\ new \in [step : Steps, name : ProjectNames, policy : Policies] /\ new.step = step
        /\ new.name = requests[r].name /\ new.policy = requests[r].policy /\ new # Idle
    BY <1>1 DEF Idle, Steps
  <1> HIDE DEF new
  <1>4. requests' = [requests EXCEPT ![r] = new]
    BY <1>2 DEF new
  <1> QED BY <1>1, <1>3, <1>4 DEF ArchiveShapes, AllRequests

\* A step of one request that leaves the name to it.
LEMMA RequestKeeps ==
  ASSUME InstallInv, NEW r \in Requests, r \in AtWork, NEW step \in Steps, Go(r, step),
         UNCHANGED <<owned, outgoing, overlap, crashed>>, doomed \subseteq doomed',
         dirs' \in [ProjectNames -> DirStates], aside' \in [Requests -> DirStates],
         \A n \in ProjectNames \ {Name(r)} : dirs'[n] = dirs[n],
         \A q \in Requests \ {r} : aside'[q] = aside[q],
         ~overlap => /\ Stands(r)'
                     /\ \A p \in outgoing \ doomed' :
                          p # r => \/ dirs[Name(r)] # Dir(p, TRUE) /\ aside[r] # Dir(p, TRUE)
                                  \/ dirs'[Name(r)] = Dir(p, TRUE) \/ aside'[r] = Dir(p, TRUE)
  PROVE  InstallInv'
  <1>1. /\ requests' \in [Requests -> AllRequests]
        /\ requests'[r] # Idle /\ requests'[r].name = requests[r].name
        /\ requests[r].name \in ProjectNames
        /\ \A q \in Requests \ {r} : requests'[q] = requests[q]
    BY RequestGoes DEF InstallInv, AtWork
  <1>2. AtWork' = AtWork /\ \A q \in Requests : Name(q)' = Name(q)
    BY <1>1 DEF AtWork, Name
  <1>3. \A n \in ProjectNames : Busy(n)' = Busy(n)
    BY <1>1, <1>2 DEF Busy, AtWork, Name
  <1>4. ArchiveShapes'
    BY <1>1 DEF ArchiveShapes
  <1> SUFFICES ASSUME ~overlap
               PROVE  InstallInv'
    BY <1>4 DEF InstallInv
  <1>5. ASSUME NEW q \in AtWork
        PROVE  Stands(q)'
    <2>1. CASE q = r
      BY <2>1
    <2>2. CASE q # r
      <3>1. q \in Requests /\ Name(q) # Name(r) /\ Name(q) \in ProjectNames /\ Stands(q)
        BY <2>2 DEF InstallInv, AtWork, ArchiveShapes, AllRequests, Name
      <3>2. requests'[q] = requests[q] /\ dirs'[Name(q)] = dirs[Name(q)] /\ aside'[q] = aside[q]
        BY <1>1, <2>2, <3>1
      <3> QED BY <3>1, <3>2 DEF Stands, Name, IsAt, Exists
    <2> QED BY <2>1, <2>2
  <1>6. Busy(Name(r)) /\ Name(r) \in ProjectNames
    BY <1>1 DEF Busy, AtWork, Name
  <1>7. ASSUME NEW p \in owned
        PROVE  \E n \in ProjectNames : dirs'[n] = Dir(p, TRUE) /\ ~Busy(n)'
    BY <1>3, <1>6 DEF InstallInv
  <1>8. ASSUME NEW p \in outgoing \ doomed'
        PROVE  Kept(p)'
    <2>1. p # r
      BY DEF InstallInv
    <2>2. CASE \E n \in ProjectNames : n # Name(r) /\ dirs[n] = Dir(p, TRUE)
      BY <2>2 DEF Kept
    <2>3. CASE \E q \in Requests : q # r /\ aside[q] = Dir(p, TRUE)
      BY <2>3 DEF Kept
    <2>4. CASE dirs[Name(r)] = Dir(p, TRUE) \/ aside[r] = Dir(p, TRUE)
      BY <2>1, <2>4, <1>6 DEF Kept
    <2> QED BY <2>2, <2>3, <2>4 DEF InstallInv, Kept
  <1>9. ASSUME NEW n \in ProjectNames, Exists(n)', ~Busy(n)'
        PROVE  dirs'[n].whole \/ crashed'
    BY <1>3, <1>6, <1>9 DEF InstallInv, Exists
  <1>10. \A p, q \in AtWork' : Name(p)' = Name(q)' => p = q
    BY <1>2 DEF InstallInv, AtWork
  <1>11. \A q \in AtWork' : q \notin owned' \cup outgoing'
    BY <1>2 DEF InstallInv
  <1> QED BY <1>2, <1>4, <1>5, <1>7, <1>8, <1>9, <1>10, <1>11 DEF InstallInv

\* A request takes a name that is free, or whose project it may overwrite.
\* What a request relies on stays while nobody touches it.
LEMMA StandsOn ==
  ASSUME NEW q, Stands(q), requests'[q] = requests[q], aside'[q] = aside[q],
         dirs'[Name(q)] = dirs[Name(q)], doomed \subseteq doomed', crashed' = crashed
  PROVE  Stands(q)'
  <1> DEFINE n == Name(q)
  <1>1. Name(q)' = n
    BY DEF Name
  <1>2. \A step : IsAt(q, step)' <=> IsAt(q, step)
    BY DEF IsAt
  <1>3. Exists(n)' <=> Exists(n)
    BY <1>1 DEF Exists
  <1> HIDE DEF n
  <1>4. dirs'[n] = dirs[n]
    BY DEF n
  <1>5. IsAt(q, "failed")' /\ Exists(n)' => dirs'[n].project = q \/ dirs'[n].project \in doomed'
    BY <1>2, <1>3, <1>4 DEF Stands, n
  <1>6. IsAt(q, "resolved")' =>
          /\ aside'[q] = NoDir
          /\ Exists(n)' => requests'[q].policy = "overwrite" /\ (dirs'[n].whole \/ crashed')
    BY <1>2, <1>3, <1>4 DEF Stands, n
  <1>7. /\ IsAt(q, "clear")' => dirs'[n] = NoDir
        /\ IsAt(q, "moving")' => dirs'[n] = Dir(q, FALSE)
        /\ requests'[q].step \in {"moved", "installed"} => dirs'[n] = Dir(q, TRUE)
        /\ aside'[q] # NoDir => aside'[q].whole \/ crashed'
    BY <1>2, <1>4 DEF Stands, n
  <1>8. /\ Exists(n)' <=> dirs'[n] # NoDir
        /\ \A step : IsAt(q, step)' <=> requests'[q].step = step
    BY <1>3, <1>4 DEF Exists, IsAt
  <1> QED BY <1>1, <1>5, <1>6, <1>7, <1>8 DEF Stands, Exists, IsAt

LEMMA ResolveKeeps ==
  ASSUME InstallInv, NEW r \in Requests, NEW n \in ProjectNames, NEW policy \in Policies,
         Resolve(r, n, policy)
  PROVE  InstallInv'
  <1> DEFINE new == [step |-> "resolved", name |-> n, policy |-> policy]
  <1>1. /\ Fresh(r) /\ (Exists(n) => policy = "overwrite")
        /\ requests' = [requests EXCEPT ![r] = new] /\ overlap' = (overlap \/ Busy(n))
        /\ UNCHANGED <<dirs, aside, doomed, crashed>>
    BY DEF Resolve
  <1>2. /\ new \in AllRequests /\ new # Idle /\ new.step = "resolved" /\ new.name = n
        /\ new.policy = policy
    BY DEF AllRequests, Steps, Idle
  <1> HIDE DEF new
  <1>3. /\ requests' \in [Requests -> AllRequests] /\ requests'[r] = new
        /\ \A q \in Requests \ {r} : requests'[q] = requests[q]
    BY <1>1, <1>2 DEF InstallInv, ArchiveShapes
  <1>4. ArchiveShapes'
    BY <1>1, <1>3 DEF InstallInv, ArchiveShapes
  <1> SUFFICES ASSUME ~overlap, ~Busy(n)
               PROVE  InstallInv'
    BY <1>1, <1>4 DEF InstallInv
  <1>5. AtWork' = AtWork \cup {r} /\ AtWork \subseteq Requests /\ r \notin AtWork
    BY <1>1, <1>2, <1>3 DEF AtWork, Fresh
  <1>6. Name(r)' = n /\ \A q \in AtWork : Name(q)' = Name(q) /\ Name(q) # n
    BY <1>2, <1>3, <1>5 DEF Name, Busy, AtWork
  <1>7. r \notin owned \cup outgoing
    <2>1. \A m \in ProjectNames : dirs[m] # Dir(r, TRUE)
      BY <1>1, DirFacts DEF Fresh
    <2>2. \A q \in Requests : aside[q] # Dir(r, TRUE)
      BY <1>1, DirFacts DEF Fresh
    <2>3. r \notin doomed
      BY <1>1 DEF Fresh
    <2> QED BY <2>1, <2>2, <2>3 DEF InstallInv, Kept
  <1>8. Stands(r)'
    <2>1. requests'[r].step = "resolved" /\ requests'[r].policy = policy
      BY <1>2, <1>3
    <2>2. Exists(n) => dirs[n].whole \/ crashed
      BY DEF InstallInv
    <2> QED BY <1>1, <1>6, <2>1, <2>2 DEF Stands, IsAt, Exists, Fresh
  <1>9. ASSUME NEW q \in AtWork
        PROVE  Stands(q)'
    <2>1. Stands(q) /\ requests'[q] = requests[q]
      BY <1>3, <1>5 DEF InstallInv
    <2> QED BY <1>1, <2>1, StandsOn
  <1>10. \A m \in ProjectNames \ {n} : Busy(m)' = Busy(m)
    BY <1>3, <1>5, <1>6 DEF Busy, AtWork, Name
  <1> DEFINE p0 == dirs[n].project
  <1>11. ASSUME NEW p \in owned'
         PROVE  \E m \in ProjectNames : dirs'[m] = Dir(p, TRUE) /\ ~Busy(m)'
    <2>1. p \in owned
      BY DEF Resolve
    <2>2. PICK m \in ProjectNames : dirs[m] = Dir(p, TRUE) /\ ~Busy(m)
      BY <2>1 DEF InstallInv
    <2>3. m # n
      <3>1. SUFFICES ASSUME m = n PROVE FALSE
        OBVIOUS
      <3>2. p \in Requests \cup {"old"}
        BY <2>1 DEF InstallInv
      <3>3. Exists(n) /\ p0 = p
        BY <2>2, <3>1, <3>2, DirFacts DEF Exists
      <3> QED BY <1>1, <2>1, <3>3 DEF Resolve
    <2> QED BY <1>1, <1>10, <2>2, <2>3
  <1>12. ASSUME NEW p \in outgoing' \ doomed'
         PROVE  Kept(p)'
    <2>1. p \in outgoing \ doomed \/ p \in owned
      BY <1>1 DEF Resolve
    <2>2. Kept(p)
      BY <2>1 DEF InstallInv, Kept
    <2> QED BY <1>1, <2>2 DEF Kept
  <1>13. /\ owned' \cup outgoing' \subseteq Requests \cup {"old"}
         /\ owned' \cup outgoing' \subseteq owned \cup outgoing
    BY DEF Resolve, InstallInv
  <1>14. \A q \in AtWork' : Stands(q)' /\ q \notin owned' \cup outgoing'
    BY <1>5, <1>7, <1>8, <1>9, <1>13 DEF InstallInv
  <1>15. \A q, x \in AtWork' : Name(q)' = Name(x)' => q = x
    BY <1>5, <1>6 DEF InstallInv
  <1>16. ASSUME NEW m \in ProjectNames, Exists(m)', ~Busy(m)'
         PROVE  dirs'[m].whole \/ crashed'
    <2>1. Busy(n)'
      BY <1>5, <1>6 DEF Busy, AtWork, Name
    <2> QED BY <1>1, <1>10, <1>16, <2>1 DEF InstallInv, Exists
  <1> QED BY <1>4, <1>11, <1>12, <1>13, <1>14, <1>15, <1>16 DEF InstallInv

\* A request that ends leaves its name; `rest` stands there.
Ends(r, rest) ==
    /\ rest \in DirStates /\ (rest = NoDir \/ rest.whole \/ crashed)
    /\ requests' = [requests EXCEPT ![r] = Idle] /\ aside' = [aside EXCEPT ![r] = NoDir]
    /\ dirs' = [dirs EXCEPT ![Name(r)] = rest]
    /\ overlap' = overlap /\ crashed' = crashed /\ doomed' = doomed
    /\ owned' \subseteq owned \cup {r} /\ (r \notin owned' \/ rest = Dir(r, TRUE))
    /\ outgoing' \subseteq outgoing
    /\ ~overlap => \A p \in outgoing' \ doomed :
         \/ rest = Dir(p, TRUE)
         \/ dirs[Name(r)] # Dir(p, TRUE) /\ aside[r] # Dir(p, TRUE)

LEMMA EndKeeps ==
  ASSUME InstallInv, NEW r \in Requests, r \in AtWork, NEW rest, Ends(r, rest)
  PROVE  InstallInv'
  <1> USE DEF Ends
  <1>1. /\ Name(r) \in ProjectNames /\ AtWork \subseteq Requests
        /\ \A q \in Requests : requests[q] \in AllRequests
    BY DEF InstallInv, ArchiveShapes, AtWork, AllRequests, Name
  <1>2. /\ ArchiveShapes' /\ dirs'[Name(r)] = rest /\ requests'[r] = Idle /\ aside'[r] = NoDir
        /\ \A n \in ProjectNames \ {Name(r)} : dirs'[n] = dirs[n]
        /\ \A q \in Requests \ {r} : requests'[q] = requests[q] /\ aside'[q] = aside[q]
    BY <1>1, DirFacts DEF InstallInv, ArchiveShapes, AllRequests
  <1>3. AtWork' = AtWork \ {r} /\ \A q \in AtWork' : Name(q)' = Name(q)
    BY <1>1, <1>2 DEF AtWork, Name
  <1> SUFFICES ASSUME ~overlap
               PROVE  InstallInv'
    BY <1>2 DEF InstallInv
  <1>4. \A q \in AtWork' : Name(q) # Name(r)
    BY <1>3 DEF InstallInv
  <1>5. \A n \in ProjectNames \ {Name(r)} : Busy(n)' = Busy(n)
    BY <1>1, <1>2, <1>3 DEF Busy, AtWork, Name
  <1>6. Busy(Name(r)) /\ \A n \in ProjectNames : n = Name(r) => ~Busy(n)'
    <2>1. Busy(Name(r))
      BY DEF Busy, AtWork, Name
    <2>2. \A q \in Requests : requests'[q] # Idle => q \in AtWork' /\ requests'[q].name # Name(r)
      BY <1>3, <1>4 DEF AtWork, Name
    <2> QED BY <2>1, <2>2 DEF Busy, Name
  <1>7. \A q \in AtWork' : Stands(q)' /\ q \notin owned' \cup outgoing'
    <2>1. ASSUME NEW q \in AtWork'
          PROVE  Stands(q)'
      <3>1. q \in AtWork /\ q # r /\ Stands(q) /\ Name(q) \in ProjectNames
        BY <1>1, <1>3 DEF InstallInv, AtWork, AllRequests, Name
      <3>2. requests'[q] = requests[q] /\ dirs'[Name(q)] = dirs[Name(q)] /\ aside'[q] = aside[q]
        BY <1>1, <1>2, <1>4, <3>1
      <3> QED BY <1>1, <3>1, <3>2, StandsOn
    <2> QED BY <2>1, <1>3 DEF InstallInv
  <1>8. ASSUME NEW p \in owned'
        PROVE  \E n \in ProjectNames : dirs'[n] = Dir(p, TRUE) /\ ~Busy(n)'
    <2>1. CASE p = r
      BY <1>1, <1>2, <1>6, <2>1
    <2>2. CASE p # r
      BY <1>2, <1>5, <1>6, <2>2 DEF InstallInv
    <2> QED BY <2>1, <2>2
  <1>9. ASSUME NEW p \in outgoing' \ doomed'
        PROVE  Kept(p)'
    <2>1. CASE rest = Dir(p, TRUE)
      BY <1>1, <1>2, <2>1 DEF Kept
    <2>2. CASE dirs[Name(r)] # Dir(p, TRUE) /\ aside[r] # Dir(p, TRUE)
      BY <1>2, <2>2 DEF InstallInv, Kept
    <2> QED BY <2>1, <2>2
  <1>10. ASSUME NEW n \in ProjectNames, Exists(n)', ~Busy(n)'
         PROVE  dirs'[n].whole \/ crashed'
    BY <1>2, <1>5, <1>6, <1>10 DEF InstallInv, Exists
  <1>11. \A p, q \in AtWork' : Name(p)' = Name(q)' => p = q
    BY <1>3 DEF InstallInv
  <1>12. owned' \cup outgoing' \subseteq Requests \cup {"old"}
    BY DEF InstallInv
  <1> QED BY <1>2, <1>7, <1>8, <1>9, <1>10, <1>11, <1>12 DEF InstallInv

LEMMA InstallInvStep == InstallInv /\ [ArchiveNext]_archiveVars => InstallInv'
  <1> SUFFICES ASSUME InstallInv, [ArchiveNext]_archiveVars PROVE InstallInv'
    OBVIOUS
  <1>1. CASE UNCHANGED archiveVars
    <2>1. UNCHANGED <<dirs, requests, aside, owned, outgoing, doomed, overlap, crashed>>
      BY <1>1 DEF archiveVars
    <2>2. /\ AtWork' = AtWork /\ \A q \in Requests : Stands(q)' = Stands(q) /\ Name(q)' = Name(q)
          /\ \A n \in ProjectNames : Busy(n)' = Busy(n) /\ Exists(n)' = Exists(n)
          /\ \A p : Kept(p)' = Kept(p)
      BY <2>1 DEF Stands, AtWork, Kept, Busy, Exists, Name, IsAt
    <2>3. AtWork \subseteq Requests
      BY DEF AtWork
    <2>4. ArchiveShapes'
      BY <2>1 DEF InstallInv, ArchiveShapes
    <2> SUFFICES ASSUME ~overlap PROVE InstallInv'
      BY <2>1, <2>4 DEF InstallInv
    <2>5. \A r, q \in AtWork' : Name(r)' = Name(q)' => r = q
      BY <2>2, <2>3 DEF InstallInv
    <2>6. \A r \in AtWork' : Stands(r)' /\ r \notin owned' \cup outgoing'
      BY <2>1, <2>2, <2>3 DEF InstallInv
    <2>7. \A p \in owned' : \E n \in ProjectNames : dirs'[n] = Dir(p, TRUE) /\ ~Busy(n)'
      BY <2>1, <2>2 DEF InstallInv
    <2>8. \A p \in outgoing' \ doomed' : Kept(p)'
      BY <2>1, <2>2 DEF InstallInv
    <2>9. \A n \in ProjectNames : Exists(n)' /\ ~Busy(n)' => dirs'[n].whole \/ crashed'
      BY <2>1, <2>2 DEF InstallInv
    <2> QED BY <2>1, <2>4, <2>5, <2>6, <2>7, <2>8, <2>9 DEF InstallInv
  <1>2. ASSUME NEW r \in Requests, NEW n \in ProjectNames, NEW policy \in Policies,
               Resolve(r, n, policy)
        PROVE  InstallInv'
    BY <1>2, ResolveKeeps
  \* A request under way, and what it finds.
  <1>3. ASSUME NEW r \in Requests, r \in AtWork
        PROVE  /\ Name(r) \in ProjectNames /\ requests[r].step \in Steps
               /\ dirs[Name(r)] \in DirStates /\ aside[r] \in DirStates
               /\ ~overlap => Stands(r)
    BY <1>3 DEF InstallInv, ArchiveShapes, AllRequests, AtWork, Name
  <1>4. ASSUME NEW r \in Requests, requests[r].step # "idle"
        PROVE  r \in AtWork
    BY <1>4 DEF AtWork, Idle
  <1>5. ASSUME NEW r \in Requests, PutAside(r)
        PROVE  InstallInv'
    <2>1. r \in AtWork /\ IsAt(r, "resolved") /\ Go(r, "clear")
          /\ UNCHANGED <<owned, outgoing, doomed, overlap, crashed>>
      BY <1>4, <1>5 DEF PutAside, IsAt
    <2>2. requests'[r].step = "clear" /\ requests'[r].name = requests[r].name
      BY <2>1, RequestGoes DEF InstallInv, AtWork, Steps
    <2>3. CASE requests[r].policy = "overwrite" /\ Exists(Name(r))
      <3>1. /\ aside' = [aside EXCEPT ![r] = dirs[Name(r)]]
            /\ dirs' = [dirs EXCEPT ![Name(r)] = NoDir]
        BY <1>5, <2>3 DEF PutAside, Put
      <3>2. /\ dirs' \in [ProjectNames -> DirStates] /\ aside' \in [Requests -> DirStates]
            /\ dirs'[Name(r)] = NoDir /\ aside'[r] = dirs[Name(r)]
            /\ \A n \in ProjectNames \ {Name(r)} : dirs'[n] = dirs[n]
            /\ \A q \in Requests \ {r} : aside'[q] = aside[q]
        BY <1>3, <2>1, <3>1, DirFacts DEF InstallInv, ArchiveShapes
      <3>3. ASSUME ~overlap
            PROVE  /\ aside[r] = NoDir /\ (dirs[Name(r)].whole \/ crashed) /\ Stands(r)'
        BY <1>3, <2>1, <2>2, <2>3, <3>2, <3>3 DEF Stands, IsAt, Name, Exists
      <3>4. ASSUME ~overlap, NEW p \in outgoing
            PROVE  aside[r] # Dir(p, TRUE)
        <4>1. p \in Requests \cup {"old"}
          BY <3>4 DEF InstallInv
        <4> QED BY <3>3, <3>4, <4>1, DirFacts
      <3> QED BY <2>1, <3>2, <3>3, <3>4, RequestKeeps DEF Steps
    <2>4. CASE ~(requests[r].policy = "overwrite" /\ Exists(Name(r)))
      <3>1. UNCHANGED <<dirs, aside>>
        BY <1>5, <2>4 DEF PutAside
      <3>2. ~overlap => Stands(r)'
        BY <1>3, <2>1, <2>2, <2>4, <3>1 DEF Stands, IsAt, Name, Exists
      <3> QED BY <2>1, <3>1, <3>2, RequestKeeps DEF InstallInv, ArchiveShapes, Steps
    <2> QED BY <2>3, <2>4
  <1>6. ASSUME NEW r \in Requests, BeginMove(r)
        PROVE  InstallInv'
    <2>1. /\ r \in AtWork /\ IsAt(r, "clear") /\ Go(r, "moving")
          /\ UNCHANGED <<aside, owned, outgoing, doomed, overlap, crashed>>
          /\ dirs' = dirs \/ dirs' = [dirs EXCEPT ![Name(r)] = Dir(r, FALSE)]
          /\ dirs[Name(r)] = NoDir => dirs' = [dirs EXCEPT ![Name(r)] = Dir(r, FALSE)]
      BY <1>4, <1>6 DEF BeginMove, IsAt, Put, Exists
    <2>2. requests'[r].step = "moving" /\ requests'[r].name = requests[r].name
      BY <2>1, RequestGoes DEF InstallInv, AtWork, Steps
    <2>3. /\ dirs' \in [ProjectNames -> DirStates]
          /\ \A n \in ProjectNames \ {Name(r)} : dirs'[n] = dirs[n]
          /\ dirs[Name(r)] = NoDir => dirs'[Name(r)] = Dir(r, FALSE)
      <3>1. Name(r) \in ProjectNames /\ Dir(r, FALSE) \in DirStates
        BY <1>3, <2>1, DirFacts
      <3>2. dirs \in [ProjectNames -> DirStates]
        BY DEF InstallInv, ArchiveShapes
      <3> QED BY <2>1, <3>1, <3>2
    <2>4. ASSUME ~overlap
          PROVE  Stands(r)' /\ dirs[Name(r)] = NoDir
      <3>1. Stands(r)
        BY <1>3, <2>1, <2>4
      <3>2. dirs[Name(r)] = NoDir /\ Name(r)' = Name(r)
        BY <2>1, <2>2, <3>1 DEF Stands, Name
      <3> QED BY <2>1, <2>2, <2>3, <3>1, <3>2 DEF Stands, IsAt
    <2>5. ASSUME ~overlap, NEW p \in outgoing
          PROVE  dirs[Name(r)] # Dir(p, TRUE)
      <3>1. p \in Requests \cup {"old"}
        BY <2>5 DEF InstallInv
      <3> QED BY <2>4, <2>5, <3>1, DirFacts
    <2> QED BY <2>1, <2>3, <2>4, <2>5, RequestKeeps DEF InstallInv, ArchiveShapes, Steps
  <1>7. ASSUME NEW r \in Requests, EndMove(r)
        PROVE  InstallInv'
    <2>1. /\ r \in AtWork /\ IsAt(r, "moving") /\ Go(r, "moved")
          /\ UNCHANGED <<aside, owned, outgoing, doomed, overlap, crashed>>
          /\ dirs' = dirs \/ dirs' = [dirs EXCEPT ![Name(r)] = Dir(r, TRUE)]
          /\ dirs[Name(r)].project = r => dirs' = [dirs EXCEPT ![Name(r)] = Dir(r, TRUE)]
      BY <1>4, <1>7 DEF EndMove, IsAt, Put
    <2>2. requests'[r].step = "moved" /\ requests'[r].name = requests[r].name
      BY <2>1, RequestGoes DEF InstallInv, AtWork, Steps
    <2>3. /\ dirs' \in [ProjectNames -> DirStates]
          /\ \A n \in ProjectNames \ {Name(r)} : dirs'[n] = dirs[n]
          /\ dirs[Name(r)].project = r => dirs'[Name(r)] = Dir(r, TRUE)
      <3>1. Name(r) \in ProjectNames /\ Dir(r, TRUE) \in DirStates
        BY <1>3, <2>1, DirFacts
      <3>2. dirs \in [ProjectNames -> DirStates]
        BY DEF InstallInv, ArchiveShapes
      <3> QED BY <2>1, <3>1, <3>2
    <2>4. ASSUME ~overlap
          PROVE  Stands(r)' /\ dirs[Name(r)].project = r
      <3>1. Stands(r)
        BY <1>3, <2>1, <2>4
      <3>2. dirs[Name(r)].project = r /\ Name(r)' = Name(r)
        BY <2>1, <2>2, <3>1, DirFacts, ZenonT(40) DEF Stands, Name
      <3> QED BY <2>1, <2>2, <2>3, <3>1, <3>2 DEF Stands, IsAt
    <2>5. ASSUME ~overlap, NEW p \in outgoing, p # r
          PROVE  dirs[Name(r)] # Dir(p, TRUE)
      BY <2>4, <2>5, DirFacts
    <2> QED BY <2>1, <2>3, <2>4, <2>5, RequestKeeps DEF InstallInv, ArchiveShapes, Steps
  <1>8. ASSUME NEW r \in Requests, SyncProfile(r) \/ InstallFails(r)
        PROVE  InstallInv'
    <2>1. PICK step \in {"installed", "failed"} :
            /\ r \in AtWork /\ Go(r, step)
            /\ UNCHANGED <<dirs, aside, owned, outgoing, overlap, crashed>>
            /\ doomed \subseteq doomed'
            /\ step = "installed" => IsAt(r, "moved")
            /\ \/ IsAt(r, "clear") \/ IsAt(r, "moving") \/ IsAt(r, "moved")
               \/ dirs[Name(r)].project \in doomed'
      BY <1>4, <1>8 DEF SyncProfile, InstallFails, IsAt
    <2>2. requests'[r].step = step /\ requests'[r].name = requests[r].name
      BY <2>1, RequestGoes DEF InstallInv, AtWork, Steps
    <2>3. ASSUME ~overlap
          PROVE  Stands(r)'
      <3>1. /\ Stands(r)
            /\ Exists(Name(r)) => dirs[Name(r)].project = r \/ dirs[Name(r)].project \in doomed'
            /\ step = "installed" => dirs[Name(r)] = Dir(r, TRUE)
        <4>1. Stands(r)
          BY <1>3, <2>1, <2>3
        <4>2. \/ dirs[Name(r)] = NoDir
              \/ dirs[Name(r)] = Dir(r, FALSE) \/ dirs[Name(r)] = Dir(r, TRUE)
              \/ dirs[Name(r)].project \in doomed'
          BY <2>1, <4>1 DEF Stands, IsAt
        <4>3. step = "installed" => dirs[Name(r)] = Dir(r, TRUE)
          BY <2>1, <4>1 DEF Stands, IsAt
        <4> QED BY <4>1, <4>2, <4>3, DirFacts DEF Exists
      <3>2. dirs' = dirs /\ aside' = aside /\ Name(r)' = Name(r) /\ crashed' = crashed
        BY <2>1, <2>2 DEF Name
      <3>3. aside[r] # NoDir => aside[r].whole \/ crashed
        BY <3>1 DEF Stands
      <3>4. CASE step = "installed"
        BY <2>2, <3>1, <3>2, <3>3, <3>4 DEF Stands, IsAt
      <3>5. CASE step = "failed"
        BY <2>2, <3>1, <3>2, <3>3, <3>5 DEF Stands, IsAt, Exists
      <3> QED BY <3>4, <3>5
    <2> QED BY <2>1, <2>3, RequestKeeps DEF InstallInv, ArchiveShapes, Steps
  <1>9. ASSUME NEW r \in Requests, PutBack(r)
        PROVE  InstallInv'
    <2>1. /\ r \in AtWork /\ IsAt(r, "failed") /\ dirs' = [dirs EXCEPT ![Name(r)] = aside[r]]
          /\ aside' = [aside EXCEPT ![r] = NoDir] /\ requests' = [requests EXCEPT ![r] = Idle]
          /\ UNCHANGED <<owned, outgoing, doomed, overlap, crashed>>
      BY <1>4, <1>9 DEF PutBack, IsAt, Put
    <2>2. CASE overlap
      BY <1>3, <2>1, <2>2, DirFacts DEF InstallInv, ArchiveShapes, AllRequests
    <2>3. CASE ~overlap
      <3> DEFINE rest == aside[r]
      <3>1. /\ rest \in DirStates /\ (rest = NoDir \/ rest.whole \/ crashed)
            /\ Exists(Name(r)) => dirs[Name(r)].project = r \/ dirs[Name(r)].project \in doomed
            /\ r \notin owned /\ r \notin outgoing
        BY <1>3, <2>1, <2>3 DEF Stands, InstallInv
      <3>2. ASSUME NEW p \in outgoing \ doomed
            PROVE  rest = Dir(p, TRUE) \/ (dirs[Name(r)] # Dir(p, TRUE) /\ aside[r] # Dir(p, TRUE))
        <4>1. p \in Requests \cup {"old"} /\ p # r
          BY <2>3, <3>1 DEF InstallInv
        <4> QED BY <3>1, <4>1, DirFacts DEF Exists
      <3>3. dirs' = [dirs EXCEPT ![Name(r)] = rest]
        BY <2>1
      <3>4. /\ owned' \subseteq owned \cup {r} /\ r \notin owned' /\ outgoing' = outgoing
            /\ overlap' = overlap /\ crashed' = crashed /\ doomed' = doomed
        BY <2>1, <3>1
      <3> HIDE DEF rest
      <3>5. Ends(r, rest)
        BY <2>1, <3>1, <3>2, <3>3, <3>4 DEF Ends
      <3> QED BY <2>1, <3>5, EndKeeps
    <2> QED BY <2>2, <2>3
  <1>10. ASSUME NEW r \in Requests, DropAside(r)
         PROVE  InstallInv'
    <2>1. /\ r \in AtWork /\ IsAt(r, "installed")
          /\ aside' = [aside EXCEPT ![r] = NoDir] /\ requests' = [requests EXCEPT ![r] = Idle]
          /\ owned' = owned \cup {r} /\ outgoing' = outgoing \ {aside[r].project}
          /\ UNCHANGED <<dirs, doomed, overlap, crashed>>
      BY <1>4, <1>10 DEF DropAside, IsAt
    <2>2. CASE overlap
      BY <2>1, <2>2, DirFacts DEF InstallInv, ArchiveShapes, AllRequests
    <2>3. CASE ~overlap
      <3> DEFINE rest == dirs[Name(r)]
      <3>1. /\ rest = Dir(r, TRUE) /\ rest \in DirStates /\ rest.whole /\ rest.project = r
            /\ r \notin outgoing /\ Name(r) \in ProjectNames
        <4>1. Stands(r) /\ Name(r) \in ProjectNames /\ rest \in DirStates
          BY <1>3, <2>1, <2>3
        <4>2. rest = Dir(r, TRUE)
          BY <2>1, <4>1 DEF Stands, IsAt
        <4>3. r \notin outgoing
          BY <2>1, <2>3 DEF InstallInv
        <4> QED BY <4>1, <4>2, <4>3, DirFacts
      <3>2. dirs' = [dirs EXCEPT ![Name(r)] = rest]
        BY <2>1, <3>1 DEF InstallInv, ArchiveShapes
      <3>3. ASSUME NEW p \in outgoing'
            PROVE  dirs[Name(r)] # Dir(p, TRUE) /\ aside[r] # Dir(p, TRUE)
        <4>1. p \in outgoing /\ p # r /\ p # aside[r].project
          BY <2>1, <3>1
        <4>2. Dir(p, TRUE).project = p
          BY DirFacts
        <4> QED BY <3>1, <4>1, <4>2
      <3>4. /\ owned' \subseteq owned \cup {r} /\ outgoing' \subseteq outgoing
            /\ overlap' = overlap /\ crashed' = crashed /\ doomed' = doomed
        BY <2>1
      <3> HIDE DEF rest
      <3>5. Ends(r, rest)
        BY <2>1, <3>1, <3>2, <3>3, <3>4 DEF Ends
      <3> QED BY <2>1, <3>5, EndKeeps
    <2> QED BY <2>2, <2>3
  <1>11. ASSUME NEW n \in ProjectNames, DeleteProject(n)
         PROVE  InstallInv'
    <2>1. /\ dirs' = [dirs EXCEPT ![n] = NoDir] /\ overlap' = (overlap \/ Busy(n))
          /\ owned' = owned \ {dirs[n].project} /\ outgoing' = outgoing \ {dirs[n].project}
          /\ UNCHANGED <<requests, aside, doomed, crashed>>
      BY <1>11 DEF DeleteProject, Put
    <2>2. /\ ArchiveShapes' /\ dirs'[n] = NoDir
          /\ \A m \in ProjectNames \ {n} : dirs'[m] = dirs[m]
      BY <2>1, DirFacts DEF InstallInv, ArchiveShapes
    <2> SUFFICES ASSUME ~overlap, ~Busy(n)
                 PROVE  InstallInv'
      BY <2>1, <2>2 DEF InstallInv
    <2>3. /\ AtWork' = AtWork /\ AtWork \subseteq Requests
          /\ \A q \in Requests : Name(q)' = Name(q)
          /\ \A m \in ProjectNames : Busy(m)' = Busy(m)
      BY <2>1 DEF AtWork, Name, Busy
    <2>4. \A q \in AtWork : Stands(q)'
      <3>1. TAKE q \in AtWork
      <3>2. Stands(q) /\ Name(q) \in ProjectNames /\ Name(q) # n
        BY <2>3, <1>3 DEF InstallInv, Busy, AtWork
      <3>3. requests'[q] = requests[q] /\ aside'[q] = aside[q] /\ dirs'[Name(q)] = dirs[Name(q)]
        BY <2>1, <2>2, <3>2
      <3> QED BY <2>1, <3>2, <3>3, StandsOn
    <2>5. \A p \in owned' : \E m \in ProjectNames : dirs'[m] = Dir(p, TRUE) /\ ~Busy(m)'
      <3>1. TAKE p \in owned'
      <3>2. PICK m \in ProjectNames : dirs[m] = Dir(p, TRUE) /\ ~Busy(m)
        BY <2>1, <3>1 DEF InstallInv
      <3>3. m # n
        BY <2>1, <3>1, <3>2, DirFacts
      <3> QED BY <2>2, <2>3, <3>2, <3>3
    <2>6. \A p \in outgoing' \ doomed' : Kept(p)'
      <3>1. TAKE p \in outgoing' \ doomed'
      <3>2. Kept(p) /\ dirs[n] # Dir(p, TRUE)
        BY <2>1, <3>1, DirFacts DEF InstallInv
      <3> QED BY <2>1, <2>2, <3>2 DEF Kept
    <2>7. \A m \in ProjectNames : Exists(m)' /\ ~Busy(m)' => dirs'[m].whole \/ crashed'
      BY <2>1, <2>2, <2>3 DEF InstallInv, Exists
    <2>8. /\ \A r, q \in AtWork' : Name(r)' = Name(q)' => r = q
          /\ \A r \in AtWork' : r \notin owned' \cup outgoing'
          /\ owned' \cup outgoing' \subseteq Requests \cup {"old"}
      BY <2>1, <2>3 DEF InstallInv
    <2> QED BY <2>2, <2>3, <2>4, <2>5, <2>6, <2>7, <2>8 DEF InstallInv
  <1>12. CASE CrashServer
    <2>1. /\ requests' = [r \in Requests |-> Idle] /\ crashed'
          /\ UNCHANGED <<dirs, aside, owned, outgoing, doomed, overlap>>
      BY <1>12 DEF CrashServer
    <2>2. AtWork' = {} /\ \A n \in ProjectNames : ~Busy(n)'
      BY <2>1 DEF AtWork, Busy
    <2>3. ArchiveShapes'
      BY <2>1 DEF InstallInv, ArchiveShapes, AllRequests
    <2> QED BY <2>1, <2>2, <2>3 DEF InstallInv, Kept
  <1> QED BY <1>1, <1>2, <1>5, <1>6, <1>7, <1>8, <1>9, <1>10, <1>11, <1>12 DEF ArchiveNext

\* project_archive: while nobody else is at work on the name, a project is under
\* its name or, until the new one is complete, put aside, through any error or
\* crash; no error leaves half a project: for any number of requests and names.
THEOREM InstallKeepsAProject == ArchiveSpec => []InstallKeepsOne
  <1>1. InstallInv => InstallKeepsOne
    BY DEF InstallInv, InstallKeepsOne
  <1> QED BY <1>1, InstallInvInit, InstallInvStep, PTL DEF ArchiveSpec

-----------------------------------------------------------------------------
(* EpisodeWriting: a writer that has missed no change knows the project    *)
(* as it stands (Knows), and what it leaves is right for every other that  *)
(* has missed none; the two counts of clips agree because an ad, and only  *)
(* an ad, has shots.                                                       *)

WriterStates ==
    [kind : {"none", "script", "step", "overview"},
     at : {"idle", "checked", "loaded", "read", "saved", "missing"},
     mode : GenModes, hook : Texts, step : Texts, text : Texts, moved : BOOLEAN]
DraftStates == [ver : Texts, of : Texts]

\* What a writer that has missed nothing has read is as it stands.
Knows(w) ==
    LET r == writers[w] IN
    /\ r.at \in {"checked", "loaded"} => r.kind = "script"
    /\ r.kind = "none" => r.at = "idle"
    /\ ~r.moved =>
         /\ r.kind = "script" /\ r.at \in {"loaded", "read"} =>
              r.mode = EffectiveMode /\ (contentMode # "ad" => r.hook = outline.hook)
         /\ r.kind = "script" /\ r.at = "read" /\ contentMode # "ad" =>
              r.step = drafts[EditorFile(EffectiveMode)].ver
         /\ r.kind \in {"step", "overview"} /\ r.at = "read" => r.text = novel
         /\ r.kind = "script" /\ r.at = "saved" =>
              /\ written.shape = ShapeOf(EffectiveMode)
              /\ contentMode # "ad" => /\ written.hook = outline.hook
                                       /\ written.step = drafts[EditorFile(EffectiveMode)].ver
         /\ r.kind = "step" /\ r.at = "saved" => drafts["normalized"].of = novel
         /\ r.kind = "overview" /\ r.at = "saved" => overview.of = novel
         /\ r.kind = "script" /\ r.at = "missing" => ~HasDraft(EditorFile(EffectiveMode))
         /\ r.kind \in {"step", "overview"} /\ r.at = "missing" => novel = 0

AdsHaveShots == written.shape = "shots" <=> contentMode = "ad"

WritingInv ==
    /\ WritingTypeOK /\ StaysWellFormed /\ AdsHaveShots
    /\ \A w \in Writers : Knows(w)

LEMMA ModeFacts ==
  ASSUME WritingTypeOK
  PROVE  /\ EffectiveMode \in GenModes /\ EffectiveMode # "unset"
         /\ \A mode \in GenModes :
              /\ EditorFile(mode) \in StepFiles /\ GeneratorFile(mode) = EditorFile(mode)
              /\ contentMode # "ad" => ToolFile(mode) = EditorFile(mode)
              /\ ShapeOf(mode) \in Shapes
              /\ ShapeOf(mode) = "shots" <=> contentMode = "ad"
  <1>1. contentMode \in {"narration", "drama", "ad"}
    BY WritingAssumption DEF WritingTypeOK
  <1>2. EffectiveMode \in GenModes /\ EffectiveMode # "unset"
    BY DEF WritingTypeOK, EffectiveMode, GenModes
  <1>3. ASSUME NEW mode \in GenModes
        PROVE  /\ EditorFile(mode) \in StepFiles /\ GeneratorFile(mode) = EditorFile(mode)
               /\ contentMode # "ad" => ToolFile(mode) = EditorFile(mode)
    BY <1>1 DEF EditorFile, GeneratorFile, ToolFile, StepFiles
  <1>4. ASSUME NEW mode \in GenModes
        PROVE  ShapeOf(mode) \in Shapes /\ (ShapeOf(mode) = "shots" <=> contentMode = "ad")
    BY <1>1 DEF ShapeOf, Shapes
  <1> QED BY <1>2, <1>3, <1>4

\* A writer that somebody overtakes is told so.
LEMMA MovedFacts ==
  ASSUME WritingTypeOK, NEW S
  PROVE  /\ Moved(S) \in [Writers -> WriterStates]
         /\ \A v \in Writers :
              /\ Moved(S)[v].kind = writers[v].kind /\ Moved(S)[v].at = writers[v].at
              /\ Moved(S)[v].moved \/ writers[v].at = "idle" \/ v \in S
              /\ v \in S => Moved(S)[v] = writers[v]
  <1>1. writers \in [Writers -> WriterStates]
    BY DEF WritingTypeOK, WriterStates
  <1>2. ASSUME NEW v \in Writers
        PROVE  /\ [writers[v] EXCEPT !.moved = TRUE] \in WriterStates
               /\ [writers[v] EXCEPT !.moved = TRUE].kind = writers[v].kind
               /\ [writers[v] EXCEPT !.moved = TRUE].at = writers[v].at
               /\ [writers[v] EXCEPT !.moved = TRUE].moved
    BY <1>1 DEF WriterStates
  <1>3. Unoccupied.at = "idle"
    BY DEF Unoccupied
  <1> QED BY <1>1, <1>2, <1>3 DEF Moved

LEMMA WritingInvInit == WritingInit => WritingInv
  <1> SUFFICES ASSUME WritingInit PROVE WritingInv
    OBVIOUS
  <1>1. 0 \in Texts /\ 1 \in Texts /\ MaxChanges \in Nat /\ MaxFaults \in Nat
    BY WritingAssumption DEF Texts
  <1>2. PICK m \in GenModes : genMode = [project |-> m, episode |-> "unset"]
    BY DEF WritingInit
  <1>3. genMode \in [{"project", "episode"} -> GenModes]
    BY <1>2 DEF GenModes
  <1>4. writers \in [Writers -> WriterStates] /\ \A w \in Writers : writers[w].at = "idle" /\ writers[w].kind = "none"
    BY <1>1 DEF WritingInit, Unoccupied, WriterStates, GenModes
  <1>5. EffectiveMode \in GenModes /\ EffectiveMode # "unset"
    BY <1>3 DEF EffectiveMode, GenModes
  <1>6. /\ ShapeOf(EffectiveMode) \in Shapes
        /\ ShapeOf(EffectiveMode) = "shots" <=> contentMode = "ad"
    BY <1>5, WritingAssumption DEF ShapeOf, Shapes, WritingInit
  <1>7. PICK s \in {"missing", "corrupt", "invalid"} :
          written = [NotWritten EXCEPT !.state = s, !.shape = ShapeOf(EffectiveMode)]
    BY DEF WritingInit
  <1>8. /\ written \in [state : {"missing", "corrupt", "invalid", "valid"}, shape : Shapes,
                        hook : Texts, step : Texts, clips : Progress, units : Progress,
                        good : BOOLEAN]
        /\ ~written.good /\ written.shape = ShapeOf(EffectiveMode)
    BY <1>1, <1>6, <1>7 DEF NotWritten, Shapes, Progress
  <1>9. outline \in [hook : Texts, status : {"planned", "consumed", "stale"}]
    BY <1>1 DEF WritingInit
  <1>10. WritingTypeOK
    BY <1>1, <1>3, <1>4, <1>8, <1>9 DEF WritingTypeOK, WriterStates, WritingInit, NoDraft
  <1> QED BY <1>4, <1>6, <1>8, <1>10 DEF WritingInv, Knows, StaysWellFormed, AdsHaveShots

\* After a change by hand no writer that is at work knows anything.
LEMMA HandKeeps ==
  ASSUME WritingInv, writers' = Moved({}), contentMode' = contentMode, WritingTypeOK',
         written' = written
  PROVE  WritingInv'
  <1>1. \A v \in Writers : Knows(v)'
    <2>1. TAKE v \in Writers
    <2>2. /\ writers'[v].kind = writers[v].kind /\ writers'[v].at = writers[v].at
          /\ writers'[v].moved \/ writers[v].at = "idle"
      BY MovedFacts DEF WritingInv
    <2>3. Knows(v)
      BY DEF WritingInv
    <2> QED BY <2>2, <2>3 DEF Knows
  <1> QED BY <1>1 DEF WritingInv, StaysWellFormed, AdsHaveShots

LEMMA HandType ==
  ASSUME WritingInv, HandChanges
  PROVE  WritingTypeOK'
  <1>1. /\ changes' \in 0..MaxChanges /\ contentMode' = contentMode /\ faults' = faults
    <2>1. ByHand
      BY DEF HandChanges, PatchMode, Recut, PutSource, DeleteSource, PutDraft, DeleteDraft,
       EditOverview, UpdateScene, UpdateShot, ReorderShots, UpdateSegment, EditScript
    <2> QED BY <2>1, WritingAssumption DEF ByHand, WritingInv, WritingTypeOK
  <1>2. writers' \in [Writers -> WriterStates]
    <2>1. writers' = writers \/ writers' = Moved({})
      BY DEF HandChanges, PatchMode, Recut, PutSource, DeleteSource, PutDraft, DeleteDraft,
       EditOverview, UpdateScene, UpdateShot, ReorderShots, UpdateSegment, EditScript
    <2> QED BY <2>1, MovedFacts DEF WritingInv, WritingTypeOK, WriterStates
  <1>3. genMode' \in [{"project", "episode"} -> GenModes]
    <2>1. \/ genMode' = genMode
          \/ \E level \in {"project", "episode"}, mode \in GenModes : PatchMode(level, mode)
      BY DEF HandChanges, Recut, PutSource, DeleteSource, PutDraft, DeleteDraft, EditOverview,
       UpdateScene, UpdateShot, ReorderShots, UpdateSegment, EditScript
    <2>2. genMode \in [{"project", "episode"} -> GenModes]
      BY DEF WritingInv, WritingTypeOK
    <2> QED BY <2>1, <2>2 DEF PatchMode
  <1>4. /\ outline' \in [hook : Texts, status : {"planned", "consumed", "stale"}]
        /\ novel' \in Texts
    <2>1. outline' = outline \/ Recut
      BY DEF HandChanges, PatchMode, Recut, PutSource, DeleteSource, PutDraft, DeleteDraft,
       EditOverview, UpdateScene, UpdateShot, ReorderShots, UpdateSegment, EditScript
    <2>2. novel' = novel \/ PutSource \/ DeleteSource
      BY DEF HandChanges, PatchMode, Recut, PutSource, DeleteSource, PutDraft, DeleteDraft,
       EditOverview, UpdateScene, UpdateShot, ReorderShots, UpdateSegment, EditScript
    <2>3. outline.hook \in Nat /\ novel \in Nat /\ MaxTexts \in Nat
      BY WritingAssumption DEF WritingInv, WritingTypeOK, Texts
    <2> QED BY <2>1, <2>2, <2>3 DEF WritingInv, WritingTypeOK, Recut, PutSource, DeleteSource, Texts
  <1>5. overview' \in [by : {"none", "model", "hand"}, of : Texts]
    BY DEF WritingInv, WritingTypeOK, HandChanges, PatchMode, Recut,
       PutSource, DeleteSource, PutDraft, DeleteDraft, EditOverview, UpdateScene, UpdateShot,
       ReorderShots, UpdateSegment, EditScript
  <1>6. drafts' \in [StepFiles -> DraftStates]
    <2>1. EditorFile(EffectiveMode) \in StepFiles /\ 0 \in Texts
      BY ModeFacts, WritingAssumption DEF WritingInv, Texts
    <2>2. CASE PutDraft
      BY <2>1, <2>2, WritingAssumption DEF PutDraft, NextDraft, WritingInv, WritingTypeOK, Texts, DraftStates
    <2>3. CASE DeleteDraft
      <3>1. PICK file : drafts' = [drafts EXCEPT ![file] = NoDraft]
        BY <2>3 DEF DeleteDraft
      <3>2. NoDraft \in DraftStates
        BY <2>1 DEF NoDraft, DraftStates
      <3> QED BY <3>1, <3>2 DEF WritingInv, WritingTypeOK, DraftStates
    <2> QED BY <2>2, <2>3 DEF WritingInv, WritingTypeOK, DraftStates, HandChanges, PatchMode, Recut,
       PutSource, DeleteSource, EditOverview, UpdateScene, UpdateShot,
       ReorderShots, UpdateSegment, EditScript
  <1>7. written' \in [state : {"missing", "corrupt", "invalid", "valid"}, shape : Shapes,
                      hook : Texts, step : Texts, clips : Progress, units : Progress,
                      good : BOOLEAN]
    <2>1. CASE UpdateScene \/ UpdateShot \/ ReorderShots \/ UpdateSegment
      <3>1. PICK shape \in {"scenes", "shots", "segments"} : EditScript(shape)
        BY <2>1 DEF UpdateScene, UpdateShot, ReorderShots, UpdateSegment
      <3>2. \E state \in {"invalid", "valid"}, good \in BOOLEAN :
              written' = [written EXCEPT !.state = state, !.good = good]
        BY <3>1 DEF EditScript, WritingInv, WritingTypeOK
      <3>3. written \in [state : {"missing", "corrupt", "invalid", "valid"}, shape : Shapes,
                         hook : Texts, step : Texts, clips : Progress, units : Progress,
                         good : BOOLEAN]
        BY DEF WritingInv, WritingTypeOK
      <3> QED BY <3>2, <3>3
    <2>2. CASE ~(UpdateScene \/ UpdateShot \/ ReorderShots \/ UpdateSegment)
      <3>1. written' = written
        BY <2>2 DEF HandChanges, PatchMode, Recut, PutSource, DeleteSource, PutDraft, DeleteDraft,
         EditOverview
      <3> QED BY <3>1 DEF WritingInv, WritingTypeOK
    <2> QED BY <2>1, <2>2
  <1> QED BY <1>1, <1>2, <1>3, <1>4, <1>5, <1>6, <1>7
          DEF WritingInv, WritingTypeOK, WriterStates, DraftStates

\* What knows goes on knowing while what it has read stays.
LEMMA StillKnows ==
  ASSUME WritingTypeOK, NEW v \in Writers, Knows(v), writers'[v] = writers[v],
         UNCHANGED <<contentMode, genMode, outline, novel, drafts>>,
         overview'.of = overview.of, written'.shape = written.shape,
         written'.hook = written.hook, written'.step = written.step
  PROVE  Knows(v)'
  <1>1. EffectiveMode' = EffectiveMode
    BY DEF EffectiveMode
  <1>2. \A mode : EditorFile(mode)' = EditorFile(mode) /\ ShapeOf(mode)' = ShapeOf(mode)
    BY DEF EditorFile, ShapeOf
  <1>3. \A file : HasDraft(file)' = HasDraft(file)
    BY DEF HasDraft
  <1> QED BY <1>1, <1>2, <1>3 DEF Knows

\* A step of a writer that writes nothing.
LEMMA OwnStep ==
  ASSUME WritingInv, NEW w \in Writers, NEW r \in WriterStates, Keep(w, r), Stay,
         UNCHANGED <<overview, drafts, written>>, faults' \in 0..MaxFaults,
         writers'[w] = r => Knows(w)'
  PROVE  WritingInv'
  <1>1. /\ writers' \in [Writers -> WriterStates] /\ writers'[w] = r
        /\ \A v \in Writers \ {w} : writers'[v] = writers[v]
    BY DEF Keep, WritingInv, WritingTypeOK, WriterStates
  <1>2. WritingTypeOK'
    BY <1>1 DEF WritingInv, WritingTypeOK, WriterStates, Stay
  <1>3. ASSUME NEW v \in Writers
        PROVE  Knows(v)'
    <2>1. CASE v = w
      BY <1>1, <2>1
    <2>2. CASE v # w
      BY <1>1, <2>2, StillKnows DEF WritingInv, Stay
    <2> QED BY <2>1, <2>2
  <1> QED BY <1>2, <1>3 DEF WritingInv, StaysWellFormed, AdsHaveShots, Stay

LEMMA OwnSteps ==
  ASSUME WritingInv, NEW w \in Writers,
         \/ ToolCheck(w) \/ LoadProject(w) \/ ReadStep(w) \/ WritingFails(w) \/ PromptOnly(w)
         \/ Answered(w) \/ \E kind \in {"step", "overview"} : ReadSource(w, kind)
  PROVE  WritingInv'
  <1>1. /\ writers[w] \in WriterStates /\ Unoccupied \in WriterStates /\ outline.hook \in Texts
        /\ novel \in Texts /\ Unoccupied.at = "idle" /\ Unoccupied.kind = "none" /\ 0 \in Texts
        /\ \A f \in StepFiles : drafts[f].ver \in Texts
        /\ Knows(w) /\ faults \in 0..MaxFaults
    BY WritingAssumption DEF WritingInv, WritingTypeOK, WriterStates, Unoccupied, Texts, GenModes
  <1>2. /\ EffectiveMode \in GenModes /\ EditorFile(EffectiveMode) \in StepFiles
        /\ GeneratorFile(writers[w].mode) \in StepFiles
        /\ GeneratorFile(writers[w].mode) = EditorFile(writers[w].mode)
        /\ contentMode # "ad" => ToolFile(EffectiveMode) = EditorFile(EffectiveMode)
    BY <1>1, ModeFacts DEF WritingInv, WriterStates
  <1>3. Stay => /\ contentMode' = contentMode /\ EffectiveMode' = EffectiveMode
                /\ outline' = outline /\ novel' = novel
                /\ \A mode : EditorFile(mode)' = EditorFile(mode)
    BY DEF Stay, EffectiveMode, EditorFile
  <1>4. ASSUME Keep(w, Unoccupied), Stay, UNCHANGED <<overview, drafts, written>>,
               faults' \in 0..MaxFaults
        PROVE  WritingInv'
    <2>1. writers'[w] = Unoccupied => Knows(w)'
      BY <1>1 DEF Knows
    <2> QED BY <1>1, <1>4, <2>1, OwnStep
  <1>5. CASE WritingFails(w)
    <2>1. faults' \in 0..MaxFaults
      BY <1>1, <1>5, WritingAssumption DEF WritingFails
    <2> QED BY <1>4, <1>5, <2>1 DEF WritingFails
  <1>6. CASE PromptOnly(w) \/ Answered(w)
    BY <1>1, <1>4, <1>6 DEF PromptOnly, Answered
  <1>7. CASE ToolCheck(w)
    <2> DEFINE at == IF contentMode # "ad" /\ ~HasDraft(ToolFile(EffectiveMode))
                     THEN "missing" ELSE "checked"
               r == [Unoccupied EXCEPT !.kind = "script", !.at = at]
    <2>1. r \in WriterStates /\ r.kind = "script" /\ r.at = at /\ at \in {"missing", "checked"}
      BY <1>1 DEF WriterStates, Unoccupied
    <2>2. Keep(w, r) /\ Stay /\ UNCHANGED <<overview, drafts, written, faults>>
      BY <1>7 DEF ToolCheck
    <2>3. at = "missing" => ~HasDraft(EditorFile(EffectiveMode))
      BY <1>2
    <2>4. HasDraft(EditorFile(EffectiveMode))' = HasDraft(EditorFile(EffectiveMode))
      BY <1>3, <2>2 DEF HasDraft
    <2> HIDE DEF r, at
    <2>5. writers'[w] = r => Knows(w)'
      BY <2>1, <2>3, <2>4 DEF Knows
    <2> QED BY <1>1, <2>1, <2>2, <2>5, OwnStep
  <1>8. CASE LoadProject(w)
    <2> DEFINE r == [writers[w] EXCEPT !.at = "loaded", !.mode = EffectiveMode,
                                       !.hook = IF contentMode = "ad" THEN 0 ELSE outline.hook]
    <2>1. /\ r \in WriterStates /\ r.kind = "script" /\ r.at = "loaded" /\ r.mode = EffectiveMode
          /\ contentMode # "ad" => r.hook = outline.hook
      BY <1>1, <1>2, <1>8 DEF WriterStates, LoadProject
    <2>2. Keep(w, r) /\ Stay /\ UNCHANGED <<overview, drafts, written, faults>>
      BY <1>8 DEF LoadProject
    <2> HIDE DEF r
    <2>3. writers'[w] = r => Knows(w)'
      BY <1>3, <2>1, <2>2 DEF Knows
    <2> QED BY <1>1, <2>1, <2>2, <2>3, OwnStep
  <1>9. CASE ReadStep(w)
    <2> DEFINE f == GeneratorFile(writers[w].mode)
               r == IF contentMode = "ad" THEN [writers[w] EXCEPT !.at = "read"]
                    ELSE IF HasDraft(f) THEN [writers[w] EXCEPT !.at = "read", !.step = drafts[f].ver]
                    ELSE [writers[w] EXCEPT !.at = "missing"]
    <2>1. writers[w].at = "loaded" /\ writers[w].kind = "script"
      BY <1>1, <1>9 DEF ReadStep, Knows
    <2>2. /\ r \in WriterStates /\ r.kind = "script" /\ r.mode = writers[w].mode
          /\ r.hook = writers[w].hook /\ r.moved = writers[w].moved /\ r.at \in {"read", "missing"}
          /\ r.at = "read" /\ contentMode # "ad" => r.step = drafts[f].ver
          /\ r.at = "missing" => ~HasDraft(f)
      BY <1>1, <1>2, <2>1 DEF WriterStates
    <2>3. Keep(w, r) /\ Stay /\ UNCHANGED <<overview, drafts, written, faults>>
      BY <1>9 DEF ReadStep
    <2> HIDE DEF r
    <2>4. ~r.moved => r.mode = EffectiveMode /\ f = EditorFile(EffectiveMode)
                      /\ (contentMode # "ad" => r.hook = outline.hook)
      BY <1>1, <1>2, <2>1, <2>2 DEF Knows
    <2> HIDE DEF f
    <2>5. /\ contentMode' = contentMode /\ outline' = outline /\ drafts' = drafts
          /\ EffectiveMode' = EffectiveMode
          /\ EditorFile(EffectiveMode)' = EditorFile(EffectiveMode)
          /\ HasDraft(EditorFile(EffectiveMode))' = HasDraft(EditorFile(EffectiveMode))
      BY <1>3, <2>3 DEF HasDraft
    <2>6. writers'[w] = r => Knows(w)'
      BY <2>2, <2>4, <2>5 DEF Knows
    <2> QED BY <1>1, <2>2, <2>3, <2>6, OwnStep
  <1>10. ASSUME NEW kind \in {"step", "overview"}, ReadSource(w, kind)
         PROVE  WritingInv'
    <2> DEFINE r == [Unoccupied EXCEPT !.kind = kind, !.text = novel,
                                       !.at = IF novel = 0 THEN "missing" ELSE "read"]
    <2>1. /\ r \in WriterStates /\ r.kind = kind /\ r.text = novel /\ r.at \in {"missing", "read"}
          /\ r.at = "missing" => novel = 0
      BY <1>1, <1>10 DEF WriterStates, Unoccupied
    <2>2. Keep(w, r) /\ Stay /\ UNCHANGED <<overview, drafts, written, faults>>
      BY <1>10 DEF ReadSource
    <2> HIDE DEF r
    <2>3. writers'[w] = r => Knows(w)'
      BY <1>3, <1>10, <2>1, <2>2 DEF Knows
    <2> QED BY <1>1, <2>1, <2>2, <2>3, OwnStep
  <1> QED BY <1>5, <1>6, <1>7, <1>8, <1>9, <1>10

\* What a writer leaves that has missed nothing is right for the others too.
LEMMA LandFacts ==
  ASSUME WritingInv, NEW w \in Writers, Land(w)
  PROVE  /\ writers' \in [Writers -> WriterStates]
         /\ writers'[w] = [writers[w] EXCEPT !.at = "saved"]
         /\ \A v \in Writers \ {w} :
              /\ writers'[v].kind = writers[v].kind /\ writers'[v].at = writers[v].at
              /\ writers[w].moved => writers'[v].moved \/ writers[v].at = "idle"
              /\ ~writers[w].moved => writers'[v] = writers[v]
  <1>1. writers \in [Writers -> WriterStates]
    BY DEF WritingInv, WritingTypeOK, WriterStates
  <1> DEFINE new == [writers[w] EXCEPT !.at = "saved"]
  <1>2. new \in WriterStates
    BY <1>1 DEF WriterStates
  <1>3. CASE writers[w].moved
    <2>1. /\ Moved({w}) \in [Writers -> WriterStates] /\ Moved({w})[w] = writers[w]
          /\ writers' = [Moved({w}) EXCEPT ![w] = new]
      BY <1>3, MovedFacts DEF Land, WritingInv
    <2> HIDE DEF new
    <2>2. /\ writers' \in [Writers -> WriterStates] /\ writers'[w] = new
          /\ \A v \in Writers \ {w} : writers'[v] = Moved({w})[v]
      BY <1>2, <2>1
    <2> QED BY <1>3, <2>2, MovedFacts DEF WritingInv, new
  <1>4. CASE ~writers[w].moved
    BY <1>1, <1>2, <1>4 DEF Land
  <1> QED BY <1>3, <1>4

LEMMA SaveScriptKeeps ==
  ASSUME WritingInv, NEW w \in Writers, SaveEpisodeScript(w)
  PROVE  WritingInv'
  <1> DEFINE r == writers[w]
  <1>1. /\ r.at = "read" /\ r.kind = "script" /\ Land(w) /\ Stay
        /\ UNCHANGED <<overview, drafts, faults>>
    BY DEF SaveEpisodeScript
  <1>2. PICK state \in {"valid", "invalid"} :
          /\ state = "valid" \/ written.state = "invalid"
          /\ written' = [NotWritten EXCEPT !.state = state, !.shape = ShapeOf(r.mode),
                                       !.hook = r.hook, !.step = r.step,
                                       !.good = written.good \/ state = "valid"]
    BY DEF SaveEpisodeScript, MayReplace
  <1>3. /\ r \in WriterStates /\ ShapeOf(r.mode) \in Shapes /\ Knows(w)
        /\ ShapeOf(r.mode) = "shots" <=> contentMode = "ad"
    BY ModeFacts DEF WritingInv, WritingTypeOK, WriterStates
  <1>4. /\ written'.state = state /\ written'.shape = ShapeOf(r.mode) /\ written'.hook = r.hook
        /\ written'.step = r.step /\ (written'.good <=> written.good \/ state = "valid")
        /\ written' \in [state : {"missing", "corrupt", "invalid", "valid"}, shape : Shapes,
                         hook : Texts, step : Texts, clips : Progress, units : Progress,
                         good : BOOLEAN]
    BY <1>2, <1>3 DEF NotWritten, WriterStates, Progress, WritingInv, WritingTypeOK
  <1>5. WritingTypeOK'
    BY <1>1, <1>4, LandFacts DEF WritingInv, WritingTypeOK, WriterStates, Stay
  <1>6. StaysWellFormed' /\ AdsHaveShots'
    BY <1>1, <1>2, <1>3, <1>4 DEF StaysWellFormed, AdsHaveShots, WritingInv, Stay
  <1>7. /\ contentMode' = contentMode /\ EffectiveMode' = EffectiveMode /\ outline' = outline
        /\ ShapeOf(EffectiveMode)' = ShapeOf(EffectiveMode)
        /\ EditorFile(EffectiveMode)' = EditorFile(EffectiveMode)
        /\ HasDraft(EditorFile(EffectiveMode))' = HasDraft(EditorFile(EffectiveMode))
    BY <1>1 DEF Stay, EffectiveMode, ShapeOf, EditorFile, HasDraft
  <1>8. ~r.moved =>
          /\ written'.shape = ShapeOf(EffectiveMode)
          /\ contentMode # "ad" => /\ written'.hook = outline.hook
                                   /\ written'.step = drafts[EditorFile(EffectiveMode)].ver
    BY <1>1, <1>3, <1>4 DEF Knows
  <1>9. ASSUME NEW v \in Writers
        PROVE  Knows(v)'
    <2>1. CASE v = w
      <3>1. /\ writers'[w].kind = "script" /\ writers'[w].at = "saved"
            /\ writers'[w].moved = r.moved
        <4>1. writers'[w] = [r EXCEPT !.at = "saved"]
          BY <1>1, LandFacts
        <4> QED BY <1>1, <1>3, <4>1 DEF WriterStates
      <3>2. ~writers'[w].moved =>
              /\ written'.shape = ShapeOf(EffectiveMode)'
              /\ contentMode' # "ad" => /\ written'.hook = outline'.hook
                                        /\ written'.step = drafts'[EditorFile(EffectiveMode)'].ver
        BY <1>1, <1>7, <1>8, <3>1
      <3> QED BY <2>1, <3>1, <3>2 DEF Knows
    <2>2. CASE v # w /\ r.moved
      <3>1. /\ writers'[v].kind = writers[v].kind /\ writers'[v].at = writers[v].at
            /\ writers'[v].moved \/ writers[v].at = "idle"
        BY <1>1, <2>2, LandFacts
      <3> QED BY <3>1 DEF Knows, WritingInv
    <2>3. CASE v # w /\ ~r.moved
      <3>1. writers'[v] = writers[v]
        BY <1>1, <2>3, LandFacts
      <3>2. Knows(v)
        BY DEF WritingInv
      <3> QED BY <1>1, <1>7, <1>8, <2>3, <3>1, <3>2 DEF Knows, Stay
    <2> QED BY <2>1, <2>2, <2>3
  <1> QED BY <1>5, <1>6, <1>9 DEF WritingInv

LEMMA SaveOverviewKeeps ==
  ASSUME WritingInv, NEW w \in Writers, SaveOverview(w)
  PROVE  WritingInv'
  <1> DEFINE r == writers[w]
  <1>1. /\ r.at = "read" /\ r.kind = "overview" /\ Land(w) /\ Stay
        /\ overview' = [by |-> "model", of |-> r.text] /\ UNCHANGED <<drafts, written, faults>>
    BY DEF SaveOverview
  <1>2. r \in WriterStates /\ Knows(w)
    BY DEF WritingInv, WritingTypeOK, WriterStates
  <1>3. WritingTypeOK'
    <2>1. writers' \in [Writers -> WriterStates]
      BY <1>1, LandFacts
    <2>2. overview' \in [by : {"none", "model", "hand"}, of : Texts]
      BY <1>1, <1>2 DEF WriterStates
    <2>3. UNCHANGED <<contentMode, genMode, outline, novel, drafts, written, changes, faults>>
      BY <1>1 DEF Stay
    <2> QED BY <2>1, <2>2, <2>3 DEF WritingInv, WritingTypeOK, WriterStates
  <1>4. ~r.moved => overview'.of = novel
    BY <1>1, <1>2 DEF Knows
  <1>5. /\ contentMode' = contentMode /\ EffectiveMode' = EffectiveMode /\ outline' = outline
        /\ ShapeOf(EffectiveMode)' = ShapeOf(EffectiveMode) /\ novel' = novel
        /\ EditorFile(EffectiveMode)' = EditorFile(EffectiveMode)
        /\ HasDraft(EditorFile(EffectiveMode))' = HasDraft(EditorFile(EffectiveMode))
    BY <1>1 DEF Stay, EffectiveMode, ShapeOf, EditorFile, HasDraft
  <1>6. ASSUME NEW v \in Writers
        PROVE  Knows(v)'
    <2>1. CASE v = w
      <3>1. /\ writers'[w].kind = "overview" /\ writers'[w].at = "saved"
            /\ writers'[w].moved = r.moved
        <4>1. writers'[w] = [r EXCEPT !.at = "saved"]
          BY <1>1, LandFacts
        <4> QED BY <1>1, <1>2, <4>1 DEF WriterStates
      <3> QED BY <1>4, <1>5, <2>1, <3>1 DEF Knows
    <2>2. CASE v # w /\ r.moved
      <3>1. /\ writers'[v].kind = writers[v].kind /\ writers'[v].at = writers[v].at
            /\ writers'[v].moved \/ writers[v].at = "idle"
        BY <1>1, <2>2, LandFacts
      <3> QED BY <3>1 DEF Knows, WritingInv
    <2>3. CASE v # w /\ ~r.moved
      <3>1. writers'[v] = writers[v]
        BY <1>1, <2>3, LandFacts
      <3>2. Knows(v)
        BY DEF WritingInv
      <3> QED BY <1>1, <1>4, <1>5, <2>3, <3>1, <3>2 DEF Knows
    <2> QED BY <2>1, <2>2, <2>3
  <1> QED BY <1>1, <1>3, <1>6 DEF WritingInv, StaysWellFormed, AdsHaveShots, Stay

LEMMA SaveStepKeeps ==
  ASSUME WritingInv, NEW w \in Writers, SaveStep(w)
  PROVE  WritingInv'
  <1> DEFINE r == writers[w]
             new == [r EXCEPT !.at = "saved"]
  <1>1. /\ r.at = "read" /\ r.kind = "step" /\ Stay /\ drafts["normalized"].ver < MaxTexts
        /\ drafts' = [drafts EXCEPT !["normalized"] = [ver |-> @.ver + 1, of |-> r.text]]
        /\ UNCHANGED <<overview, written, faults>>
    BY DEF SaveStep, NextDraft
  <1>2. r \in WriterStates /\ Knows(w) /\ new \in WriterStates /\ new.kind = "step"
        /\ new.at = "saved" /\ new.moved = r.moved
    BY <1>1 DEF WritingInv, WritingTypeOK, WriterStates
  <1>3. /\ writers' \in [Writers -> WriterStates] /\ writers'[w] = new
        /\ \A v \in Writers \ {w} : writers'[v] = Moved({w})[v]
    <2>1. Moved({w}) \in [Writers -> WriterStates] /\ Moved({w})[w] = writers[w]
      BY MovedFacts DEF WritingInv
    <2>2. writers' = [Moved({w}) EXCEPT ![w] = new]
      BY <2>1 DEF SaveStep
    <2> HIDE DEF new
    <2> QED BY <1>2, <2>1, <2>2
  <1>4. drafts' \in [StepFiles -> DraftStates] /\ drafts'["normalized"].of = r.text
    BY <1>1, <1>2, WritingAssumption
       DEF WritingInv, WritingTypeOK, WriterStates, DraftStates, StepFiles, Texts
  <1>5. WritingTypeOK'
    BY <1>1, <1>3, <1>4 DEF WritingInv, WritingTypeOK, WriterStates, DraftStates, Stay
  <1>6. ASSUME NEW v \in Writers
        PROVE  Knows(v)'
    <2>1. CASE v = w
      BY <1>1, <1>2, <1>3, <1>4, <2>1 DEF Knows, Stay
    <2>2. CASE v # w
      <3>1. /\ writers'[v].kind = writers[v].kind /\ writers'[v].at = writers[v].at
            /\ writers'[v].moved \/ writers[v].at = "idle"
        BY <1>3, <2>2, MovedFacts DEF WritingInv
      <3> QED BY <3>1 DEF Knows, WritingInv
    <2> QED BY <2>1, <2>2
  <1> QED BY <1>1, <1>5, <1>6 DEF WritingInv, StaysWellFormed, AdsHaveShots, Stay

LEMMA EditScriptKeeps ==
  ASSUME WritingInv, \/ EditOverview \/ \E shape : EditScript(shape)
                     \/ RecordClip \/ RecordUnitClip, WritingTypeOK'
  PROVE  WritingInv'
  <1>1. /\ UNCHANGED <<contentMode, genMode, outline, novel, drafts, writers>>
        /\ overview'.of = overview.of
        /\ written'.shape = written.shape /\ written'.hook = written.hook
        /\ written'.step = written.step
    <2>1. UNCHANGED <<contentMode, genMode, outline, novel, drafts, writers>>
      BY DEF EditOverview, EditScript, RecordClip, RecordUnitClip, ByHand
    <2>2. overview' = overview \/ overview' = [overview EXCEPT !.by = "hand"]
      BY DEF EditOverview, EditScript, RecordClip, RecordUnitClip
    <2>3. \/ written' = written
          \/ \E s, good : written' = [written EXCEPT !.state = s, !.good = good]
          \/ \E p : written' = [written EXCEPT !.clips = p]
          \/ \E p : written' = [written EXCEPT !.units = p]
      BY DEF EditOverview, EditScript, RecordClip, RecordUnitClip
    <2>4. /\ overview \in [by : {"none", "model", "hand"}, of : Texts]
          /\ written \in [state : {"missing", "corrupt", "invalid", "valid"}, shape : Shapes,
                          hook : Texts, step : Texts, clips : Progress, units : Progress,
                          good : BOOLEAN]
      BY DEF WritingInv, WritingTypeOK
    <2> QED BY <2>1, <2>2, <2>3, <2>4
  <1>2. StaysWellFormed'
    <2>1. StaysWellFormed
      BY DEF WritingInv
    <2>2. ASSUME NEW shape, EditScript(shape) PROVE StaysWellFormed'
      BY <2>1, <2>2, ZenonT(40) DEF EditScript, WritingInv, WritingTypeOK, StaysWellFormed
    <2>3. CASE EditOverview \/ RecordClip \/ RecordUnitClip
      BY <2>1, <2>3 DEF EditOverview, RecordClip, RecordUnitClip, WritingInv, WritingTypeOK,
             StaysWellFormed
    <2> QED BY <2>2, <2>3
  <1>3. \A v \in Writers : Knows(v)'
    BY <1>1, StillKnows DEF WritingInv
  <1> QED BY <1>1, <1>2, <1>3 DEF WritingInv, AdsHaveShots

LEMMA WritingInvStep == WritingInv /\ [WritingNext]_writingVars => WritingInv'
  <1> SUFFICES ASSUME WritingInv, [WritingNext]_writingVars PROVE WritingInv'
    OBVIOUS
  <1>1. CASE UNCHANGED writingVars
    <2>1. WritingTypeOK' /\ \A v \in Writers : Knows(v)'
      BY <1>1, StillKnows DEF writingVars, WritingInv, WritingTypeOK
    <2> QED BY <1>1, <2>1 DEF writingVars, WritingInv, StaysWellFormed, AdsHaveShots
  <1>2. CASE HandChanges
    <2>1. WritingTypeOK'
      BY <1>2, HandType
    <2>2. CASE \/ \E level \in {"project", "episode"}, mode \in GenModes : PatchMode(level, mode)
               \/ Recut \/ PutSource \/ DeleteSource \/ PutDraft \/ DeleteDraft
      <3>1. /\ writers' = Moved({}) /\ contentMode' = contentMode /\ written' = written
        BY <2>2 DEF PatchMode, Recut, PutSource, DeleteSource, PutDraft, DeleteDraft, ByHand
      <3> QED BY <2>1, <3>1, HandKeeps
    <2>3. CASE EditOverview \/ UpdateScene \/ UpdateShot \/ ReorderShots \/ UpdateSegment
      BY <2>1, <2>3, EditScriptKeeps DEF UpdateScene, UpdateShot, ReorderShots, UpdateSegment
    <2> QED BY <1>2, <2>2, <2>3 DEF HandChanges
  <1>3. CASE RecordClip \/ RecordUnitClip
    <2>1. written' \in [state : {"missing", "corrupt", "invalid", "valid"}, shape : Shapes,
                        hook : Texts, step : Texts, clips : Progress, units : Progress,
                        good : BOOLEAN]
      <3>1. PICK p \in Progress : \/ written' = [written EXCEPT !.clips = p]
                                 \/ written' = [written EXCEPT !.units = p]
        BY <1>3 DEF RecordClip, RecordUnitClip, More, Progress
      <3>2. written \in [state : {"missing", "corrupt", "invalid", "valid"}, shape : Shapes,
                         hook : Texts, step : Texts, clips : Progress, units : Progress,
                         good : BOOLEAN]
        BY DEF WritingInv, WritingTypeOK
      <3> QED BY <3>1, <3>2
    <2>2. WritingTypeOK'
      BY <1>3, <2>1 DEF RecordClip, RecordUnitClip, WritingInv, WritingTypeOK
    <2> QED BY <1>3, <2>2, EditScriptKeeps
  <1>4. CASE WriterSteps
    BY <1>4, OwnSteps, SaveScriptKeeps, SaveStepKeeps, SaveOverviewKeeps DEF WriterSteps
  <1> QED BY <1>1, <1>2, <1>3, <1>4 DEF WritingNext

\* The two ways of counting clips agree on every script that can be exported.
LEMMA CountsAgree == WritingInv => ShownIsExportable
  <1> SUFFICES ASSUME WritingInv, written.shape # "video_units", outline.status # "stale"
               PROVE  (PhaseShown = "completed") <=> (ExportedClips = "all")
    BY DEF ShownIsExportable
  <1>1. /\ written.state \in {"missing", "corrupt", "invalid", "valid"}
        /\ written.clips \in Progress /\ written.units \in Progress
        /\ ScriptStatus \in {"generated", "segmented", "none"}
    BY DEF WritingInv, WritingTypeOK, ScriptStatus
  <1>2. VideoProgress = CollectedClips /\ VideoProgress \in Progress
    BY <1>1 DEF VideoProgress, CollectedClips, WritingInv, AdsHaveShots
  <1>3. (Scored(VideoProgress, "scripted") = "completed") <=> VideoProgress = "all"
    BY <1>2 DEF Scored, Progress
  <1> DEFINE scored == IF written.state \in {"missing", "corrupt"} THEN "draft"
                       ELSE Scored(VideoProgress, "scripted")
  <1>4. EpisodeShown = <<ScriptStatus, scored>>
    BY DEF EpisodeShown
  <1>5. (scored = "completed") <=> written.state \in {"invalid", "valid"} /\ VideoProgress = "all"
    BY <1>1, <1>3
  <1>6. scored = "completed" => ScriptStatus = "generated"
    BY <1>5 DEF ScriptStatus
  <1> HIDE DEF scored
  <1>7. (PhaseShown = "completed") <=> scored = "completed"
    <2>1. CASE ScriptStatus = "generated" /\ scored = "completed"
      BY <1>4, <2>1 DEF PhaseShown
    <2>2. CASE ScriptStatus = "generated" /\ scored # "completed"
      BY <1>4, <2>2 DEF PhaseShown
    <2>3. CASE ScriptStatus = "segmented"
      BY <1>4, <1>6, <2>3 DEF PhaseShown
    <2>4. CASE ScriptStatus = "none"
      BY <1>4, <1>6, <2>4 DEF PhaseShown
    <2> QED BY <1>1, <2>1, <2>2, <2>3, <2>4
  <1>8. (ExportedClips = "all") <=> written.state \in {"invalid", "valid"} /\ CollectedClips = "all"
    BY DEF ExportedClips
  <1> QED BY <1>2, <1>5, <1>7, <1>8

LEMMA WrittenFollows == WritingInv => WritingFollows
  <1> SUFFICES ASSUME WritingInv PROVE WritingFollows
    OBVIOUS
  <1>1. ASSUME NEW w \in Writers, ~writers[w].moved
        PROVE  /\ writers[w].at = "saved" =>
                    CASE writers[w].kind = "script" ->
                            /\ written.shape = ShapeOf(EffectiveMode)
                            /\ contentMode # "ad" =>
                                 /\ written.hook = outline.hook
                                 /\ written.step = drafts[EditorFile(EffectiveMode)].ver
                      [] writers[w].kind = "step" -> drafts["normalized"].of = novel
                      [] writers[w].kind = "overview" -> overview.of = novel
               /\ writers[w].at = "missing" =>
                    IF writers[w].kind = "script" THEN ~HasDraft(EditorFile(EffectiveMode))
                    ELSE novel = 0
    <2>1. Knows(w) /\ writers[w].kind \in {"none", "script", "step", "overview"}
      BY DEF WritingInv, WritingTypeOK
    <2>2. CASE writers[w].kind = "none"
      BY <2>1, <2>2 DEF Knows
    <2>3. CASE writers[w].kind = "script"
      BY <1>1, <2>1, <2>3 DEF Knows
    <2>4. CASE writers[w].kind = "step"
      BY <1>1, <2>1, <2>4 DEF Knows
    <2>5. CASE writers[w].kind = "overview"
      BY <1>1, <2>1, <2>5 DEF Knows
    <2> QED BY <2>1, <2>2, <2>3, <2>4, <2>5
  <1> QED BY <1>1 DEF WritingFollows, WrittenAsPrescribed, MissingIsMissing, WritingInv

\* The editors, the text model and the tasks keep the types of an episode's files.
THEOREM WritingTypeCorrect == WritingSpec => []WritingTypeOK
  <1>1. WritingInv => WritingTypeOK
    BY DEF WritingInv
  <1> QED BY <1>1, WritingInvInit, WritingInvStep, PTL DEF WritingSpec

\* script_generator, status_calculator and jianying_draft_service: a request that
\* missed no change leaves the script, the draft or the overview the project
\* prescribes, no answer breaks a script that was well formed, and an episode is
\* shown as completed just when it can be exported whole: for any number of writers
\* and changes.
THEOREM EpisodesAreSound == WritingSpec => []EpisodeIsSound
  <1>1. WritingInv => EpisodeIsSound
    BY WrittenFollows, CountsAgree DEF EpisodeIsSound
  <1> QED BY <1>1, WritingInvInit, WritingInvStep, PTL DEF WritingSpec

-----------------------------------------------------------------------------
(* ShotAssets: an id comes again, so that what is known of a file, a task   *)
(* or a cell is known of the shot that has the id, or of one that left it.  *)

Script == ToSet(shots)
Names(id, number) == \E s \in Script : s.id = id /\ s.born = number
OldBoard(id) == left[id] \cap {"board", "boardJob"} # {}
Marked(id) ==
    (\E s \in Script : s.id = id /\ s.clip) \/ left[id] \cap {"clip", "clipJob"} # {}

ClipStates == {NoClip} \cup [of : 0..MaxBorn, from : 1..MaxBorn]
JobStates ==
    {NoJob} \cup [for : 0..MaxBorn, frame : 0..MaxBorn, at : {"queued", "running", "written"}]
GridStates == [cells : SUBSET Claim, job : {"none", "queued", "running", "cut"}, hit : SUBSET Claim]
ToolStates ==
    [kind : {"none", "boards", "all", "episode"}, waits : SUBSET (AssetKinds \X ShotIds),
     done : SUBSET ShotIds, counted : SUBSET Claim, failed : BOOLEAN]
Distinct(q) == \A i, j \in DOMAIN q : q[i].id = q[j].id => i = j

ScriptShape ==
    /\ shots \in Seq(Shot) /\ Distinct(shots) /\ counts \in [Moves -> Nat]
    /\ born \in Nat /\ born <= Len(StartIds) + counts["edits"] /\ counts["edits"] <= MaxEdits
FileShapes ==
    /\ boards \in [ShotIds -> 0..MaxBorn] /\ clips \in [ShotIds -> ClipStates]
    /\ left \in [ShotIds -> SUBSET Remnants]
JobShapes ==
    /\ assetJobs \in [AssetKinds \X ShotIds -> JobStates]
    /\ \A id \in ShotIds : LET job == assetJobs[<<"clip", id>>] IN
          job # NoJob /\ job.at # "queued" => job.frame # 0
GridShape == grid \in GridStates /\ grid.hit \subseteq grid.cells
ToolShapes ==
    /\ tool \in ToolStates /\ reported \subseteq Claim
    /\ checkpoint = NoCheckpoint \/ checkpoint \subseteq ShotIds
ShotShapes == ScriptShape /\ FileShapes /\ JobShapes /\ GridShape /\ ToolShapes

\* A board is for the shot that has its id, or that shot's predecessor left it.
BoardJobsKnow ==
    \A id \in ShotIds : LET job == assetJobs[<<"board", id>>] IN
        job # NoJob => \/ "boardJob" \in left[id]
                       \/ /\ Names(id, job.for)
                          /\ job.at = "written" => boards[id] = job.for
CellsKnow ==
    \A c \in grid.cells : \/ "boardJob" \in left[c[1]]
                          \/ Names(c[1], c[2]) /\ (c \in grid.hit => boards[c[1]] = c[2])
DiskKnows == \A id \in ShotIds : boards[id] # 0 => OldBoard(id) \/ Names(id, boards[id])
BoardsInv == BoardsBelong /\ BoardJobsKnow /\ CellsKnow /\ DiskKnows

\* So is a clip, and the frame its task started from.
ClipJobsKnow ==
    \A id \in ShotIds : LET job == assetJobs[<<"clip", id>>] IN
        job # NoJob =>
            /\ \/ "clipJob" \in left[id]
               \/ /\ Names(id, job.for)
                  /\ job.at # "queued" => job.frame = job.for \/ OldBoard(id)
            /\ job.at = "written" => clips[id] = [of |-> job.for, from |-> job.frame]
ClipsInv == ClipsBelong /\ ClipJobsKnow

\* What a batch believes to be done is marked as done, or what it had was left.
ToolKnows ==
    /\ tool.kind \in {"all", "episode"} => \A k \in tool.waits : k[1] = "clip"
    /\ tool.kind = "episode" => \A id \in tool.done : Marked(id)
    /\ tool.kind \in {"all", "episode"} /\ ~tool.failed =>
          \A c \in tool.counted : <<"clip", c[1]>> \in tool.waits \/ Marked(c[1])
CheckpointKnows == checkpoint # NoCheckpoint => \A id \in checkpoint : Marked(id)
ReportsKnow == \A c \in reported : Marked(c[1])
MarksInv == ToolKnows /\ CheckpointKnows /\ ReportsKnow

ShotsInv == ShotShapes /\ BoardsInv /\ ClipsInv /\ MarksInv

-----------------------------------------------------------------------------
(* Sequences of shots.                                                     *)

LEMMA Joined ==
  ASSUME NEW S, NEW a \in Seq(S), NEW b \in Seq(S)
  PROVE  /\ a \o b \in Seq(S) /\ Len(a \o b) = Len(a) + Len(b)
         /\ \A j \in 1..(Len(a) + Len(b)) : (a \o b)[j] = IF j <= Len(a) THEN a[j] ELSE b[j - Len(a)]
OBVIOUS

LEMMA Cut ==
  ASSUME NEW S, NEW q \in Seq(S), NEW i \in 0..Len(q)
  PROVE  /\ SubSeq(q, 1, i) \in Seq(S) /\ Len(SubSeq(q, 1, i)) = i
         /\ \A j \in 1..i : SubSeq(q, 1, i)[j] = q[j]
         /\ SubSeq(q, i + 1, Len(q)) \in Seq(S) /\ Len(SubSeq(q, i + 1, Len(q))) = Len(q) - i
         /\ \A j \in 1..(Len(q) - i) : SubSeq(q, i + 1, Len(q))[j] = q[i + j]
OBVIOUS

\* Position j of q when e has come behind its first i.
WithAt(q, i, e, j) == IF j <= i THEN q[j] ELSE IF j = i + 1 THEN e ELSE q[j - 1]

LEMMA InsertedAt ==
  ASSUME NEW S, NEW q \in Seq(S), NEW i \in 1..Len(q), NEW e \in S
  PROVE  /\ InsertAt(q, i + 1, e) \in Seq(S) /\ Len(InsertAt(q, i + 1, e)) = Len(q) + 1
         /\ \A j \in 1..(Len(q) + 1) : InsertAt(q, i + 1, e)[j] = WithAt(q, i, e, j)
  <1> DEFINE a == SubSeq(q, 1, i)
             b == <<e>>
             c == SubSeq(q, i + 1, Len(q))
             d == a \o b
             r == d \o c
  <1>0. Len(q) \in Nat /\ i \in 0..Len(q) /\ (i + 1) - 1 = i
    OBVIOUS
  <1>1. InsertAt(q, i + 1, e) = r
    BY <1>0, Zenon DEF InsertAt
  <1>2. a \in Seq(S) /\ Len(a) = i /\ \A j \in 1..i : a[j] = q[j]
    BY <1>0, Cut, SMTT(30)
  <1>3. c \in Seq(S) /\ Len(c) = Len(q) - i /\ \A j \in 1..(Len(q) - i) : c[j] = q[i + j]
    BY <1>0, Cut, SMTT(30)
  <1>4. b \in Seq(S) /\ Len(b) = 1 /\ b[1] = e
    OBVIOUS
  <1> HIDE DEF a, b, c
  <1>5. /\ d \in Seq(S) /\ Len(d) = Len(a) + Len(b)
        /\ \A j \in 1..(Len(a) + Len(b)) : d[j] = IF j <= Len(a) THEN a[j] ELSE b[j - Len(a)]
    BY <1>2, <1>4, Joined, Zenon
  <1> HIDE DEF d
  <1>6. /\ r \in Seq(S) /\ Len(r) = Len(d) + Len(c)
        /\ \A j \in 1..(Len(d) + Len(c)) : r[j] = IF j <= Len(d) THEN d[j] ELSE c[j - Len(d)]
    <2>1. d \in Seq(S) /\ c \in Seq(S)
      BY <1>3, <1>5, Zenon
    <2> QED BY <2>1, Joined, Zenon
  <1> HIDE DEF r
  <1>7. r \in Seq(S) /\ Len(r) = Len(q) + 1
    BY <1>0, <1>2, <1>3, <1>4, <1>5, <1>6
  <1>8. ASSUME NEW j \in 1..(Len(q) + 1) PROVE r[j] = WithAt(q, i, e, j)
    <2> USE DEF WithAt
    <2>1. CASE j <= i
      <3>0. j \in 1..(Len(d) + Len(c)) /\ j <= Len(d) /\ j <= Len(a) /\ j \in 1..(Len(a) + Len(b))
        BY <1>0, <1>2, <1>3, <1>4, <1>5, <2>1
      <3>1. r[j] = d[j]
        BY <1>6, <3>0
      <3>2. d[j] = a[j]
        BY <1>5, <3>0
      <3> QED BY <1>2, <2>1, <3>1, <3>2
    <2>2. CASE j = i + 1
      BY <1>0, <1>2, <1>3, <1>4, <1>5, <1>6, <2>2
    <2>3. CASE j > i + 1
      <3>0. Len(d) = i + 1 /\ j \in 1..(Len(d) + Len(c)) /\ ~(j <= i + 1) /\ j - (i + 1) \in 1..(Len(q) - i)
        BY <1>0, <1>2, <1>3, <1>4, <1>5, <2>3
      <3>1. r[j] = c[j - (i + 1)] /\ j - (i + 1) \in 1..(Len(q) - i)
        BY <1>6, <3>0
      <3>2. i + (j - (i + 1)) = j - 1
        BY <1>0, <2>3
      <3> QED BY <1>0, <1>3, <2>3, <3>1, <3>2
    <2> QED BY <1>0, <2>1, <2>2, <2>3
  <1> QED BY <1>1, <1>7, <1>8

\* Where position j of q without its i-th was.
Without(i, j) == IF j < i THEN j ELSE j + 1

LEMMA RemovedAt ==
  ASSUME NEW S, NEW q \in Seq(S), NEW i \in DOMAIN q
  PROVE  /\ RemoveAt(q, i) \in Seq(S) /\ Len(RemoveAt(q, i)) = Len(q) - 1
         /\ \A j \in 1..(Len(q) - 1) : RemoveAt(q, i)[j] = q[Without(i, j)]
  <1> DEFINE a == SubSeq(q, 1, i - 1)
             c == SubSeq(q, i + 1, Len(q))
             r == a \o c
  <1>1. /\ DOMAIN q = 1..Len(q) /\ Len(q) \in Nat /\ i \in 1..Len(q)
        /\ i \in 0..Len(q) /\ i - 1 \in 0..Len(q)
    OBVIOUS
  <1>2. RemoveAt(q, i) = r
    BY Zenon DEF RemoveAt
  <1>3. a \in Seq(S) /\ Len(a) = i - 1 /\ \A j \in 1..(i - 1) : a[j] = q[j]
    BY <1>1, Cut, SMTT(30)
  <1>4. c \in Seq(S) /\ Len(c) = Len(q) - i /\ \A j \in 1..(Len(q) - i) : c[j] = q[i + j]
    BY <1>1, Cut, SMTT(30)
  <1> HIDE DEF a, c
  <1>5. /\ r \in Seq(S) /\ Len(r) = Len(a) + Len(c)
        /\ \A j \in 1..(Len(a) + Len(c)) : r[j] = IF j <= Len(a) THEN a[j] ELSE c[j - Len(a)]
    <2>1. a \in Seq(S) /\ c \in Seq(S)
      BY <1>3, <1>4, Zenon
    <2> QED BY <2>1, Joined, Zenon
  <1> HIDE DEF r
  <1>6. Len(r) = Len(q) - 1
    BY <1>1, <1>3, <1>4, <1>5
  <1>7. ASSUME NEW j \in 1..(Len(q) - 1)
        PROVE  r[j] = q[Without(i, j)]
    <2>0. j \in 1..(Len(a) + Len(c))
      BY <1>1, <1>3, <1>4
    <2>1. CASE j < i
      <3>1. j \in 1..(i - 1) /\ j <= Len(a)
        BY <1>1, <1>3, <2>0, <2>1
      <3>2. r[j] = a[j]
        BY <1>5, <2>0, <3>1
      <3> QED BY <1>1, <1>3, <2>1, <3>1, <3>2 DEF Without
    <2>2. CASE ~(j < i)
      <3>1. j - (i - 1) \in 1..(Len(q) - i) /\ ~(j <= Len(a)) /\ i + (j - (i - 1)) = j + 1
        <4>1. Len(a) = i - 1 /\ Len(c) = Len(q) - i
          BY <1>3, <1>4, Zenon
        <4>2. j \in 1..((i - 1) + (Len(q) - i))
          BY <2>0, <4>1, Zenon
        <4> QED BY <1>1, <2>2, <4>1, <4>2
      <3>2. r[j] = c[j - (i - 1)]
        BY <1>3, <1>5, <2>0, <3>1
      <3>3. r[j] = q[j + 1]
        BY <1>4, <3>1, <3>2
      <3> QED BY <2>2, <3>3 DEF Without
    <2> QED BY <2>1, <2>2
  <1> QED BY <1>2, <1>5, <1>6, <1>7, Zenon

\* What is left and what comes in when the sequence r follows q.
Inserts(q, r, e) == ToSet(r) = ToSet(q) \cup {e}
Drops(q, r, e) == ToSet(r) = ToSet(q) \ {e}

LEMMA InsertIsOne ==
  ASSUME NEW S, NEW q \in Seq(S), Distinct(q), NEW i \in DOMAIN q, NEW e \in S,
         \A s \in ToSet(q) : s.id # e.id
  PROVE  LET r == InsertAt(q, i + 1, e) IN r \in Seq(S) /\ Distinct(r) /\ Inserts(q, r, e)
  <1> DEFINE r == InsertAt(q, i + 1, e)
             At(j) == IF j <= i THEN j ELSE j - 1
  <1>1. DOMAIN q = 1..Len(q) /\ Len(q) \in Nat /\ i \in 1..Len(q)
    OBVIOUS
  <1>2. /\ r \in Seq(S) /\ Len(r) = Len(q) + 1
        /\ \A j \in 1..(Len(q) + 1) : r[j] = WithAt(q, i, e, j)
    BY <1>1, InsertedAt, Zenon
  <1> HIDE DEF r
  <1>3. DOMAIN r = 1..(Len(q) + 1)
    BY <1>1, <1>2
  <1>4. r[i + 1] = e /\ i + 1 \in DOMAIN r
    <2>1. i + 1 \in 1..(Len(q) + 1) /\ ~(i + 1 <= i)
      BY <1>1
    <2> QED BY <1>2, <1>3, <2>1 DEF WithAt
  <1>5. \A j \in DOMAIN r : j # i + 1 => At(j) \in DOMAIN q /\ r[j] = q[At(j)]
    <2> SUFFICES ASSUME NEW j \in DOMAIN r, j # i + 1
                 PROVE  At(j) \in DOMAIN q /\ r[j] = q[At(j)]
      OBVIOUS
    <2>1. CASE j <= i
      BY <1>1, <1>2, <1>3, <2>1 DEF WithAt
    <2>2. CASE ~(j <= i)
      <3>1. r[j] = q[j - 1]
        BY <1>2, <1>3, <2>2 DEF WithAt
      <3>2. j - 1 \in DOMAIN q
        BY <1>1, <1>3, <2>2
      <3> QED BY <2>2, <3>1, <3>2
    <2> QED BY <2>1, <2>2
  <1>6. \A j, k \in DOMAIN r : j # i + 1 /\ k # i + 1 /\ At(j) = At(k) => j = k
    BY <1>1, <1>3
  <1>7. \A j \in DOMAIN q : \E k \in DOMAIN r : k # i + 1 /\ At(k) = j
    <2> TAKE j \in DOMAIN q
    <2>1. CASE j <= i
      <3>1. j \in DOMAIN r /\ j # i + 1 /\ At(j) = j
        BY <1>1, <1>3, <2>1
      <3> QED BY <3>1
    <2>2. CASE ~(j <= i)
      <3>1. j + 1 \in DOMAIN r /\ j + 1 # i + 1 /\ At(j + 1) = j
        BY <1>1, <1>3, <2>2
      <3> QED BY <3>1
    <2> QED BY <2>1, <2>2
  <1> HIDE DEF At
  <1>8. Distinct(r)
    <2> SUFFICES ASSUME NEW j \in DOMAIN r, NEW k \in DOMAIN r, r[j].id = r[k].id
                 PROVE  j = k
      BY DEF Distinct
    <2>1. CASE j # i + 1 /\ k # i + 1
      BY <1>5, <1>6, <2>1 DEF Distinct
    <2>2. CASE j = i + 1 /\ k # i + 1
      BY <1>4, <1>5, <2>2 DEF ToSet
    <2>3. CASE j # i + 1 /\ k = i + 1
      BY <1>4, <1>5, <2>3 DEF ToSet
    <2> QED BY <2>1, <2>2, <2>3
  <1>9. ToSet(r) \subseteq ToSet(q) \cup {e}
    BY <1>4, <1>5 DEF ToSet
  <1>10. ToSet(q) \cup {e} \subseteq ToSet(r)
    <2>1. e \in ToSet(r)
      BY <1>4 DEF ToSet
    <2>2. \A j \in DOMAIN q : \E k \in DOMAIN r : r[k] = q[j]
      BY <1>5, <1>7
    <2> QED BY <2>1, <2>2 DEF ToSet
  <1> QED BY <1>2, <1>8, <1>9, <1>10 DEF Inserts, r

\* A split puts the new shot where an insertion behind the shot puts it.
LEMMA SplitIsInsert ==
  ASSUME NEW S, NEW q \in Seq(S), NEW i \in DOMAIN q, NEW e \in S
  PROVE  SubSeq(q, 1, i - 1) \o <<q[i], e>> \o SubSeq(q, i + 1, Len(q)) = InsertAt(q, i + 1, e)
  <1> DEFINE a == SubSeq(q, 1, i - 1)
             b == <<q[i], e>>
             d == SubSeq(q, 1, i)
             f == <<e>>
             v == a \o b
             w == d \o f
  <1>1. /\ Len(q) \in Nat /\ i \in 1..Len(q) /\ i \in 0..Len(q) /\ i - 1 \in 0..Len(q)
        /\ (i + 1) - 1 = i /\ q[i] \in S
    OBVIOUS
  <1>2. a \in Seq(S) /\ Len(a) = i - 1 /\ \A j \in 1..(i - 1) : a[j] = q[j]
    BY <1>1, Cut, SMTT(30)
  <1>3. d \in Seq(S) /\ Len(d) = i /\ \A j \in 1..i : d[j] = q[j]
    BY <1>1, Cut, SMTT(30)
  <1>4. /\ b \in Seq(S) /\ Len(b) = 2 /\ b[1] = q[i] /\ b[2] = e
        /\ f \in Seq(S) /\ Len(f) = 1 /\ f[1] = e
    BY <1>1
  <1> HIDE DEF a, b, d, f
  <1>5. /\ v \in Seq(S) /\ Len(v) = Len(a) + Len(b)
        /\ \A j \in 1..(Len(a) + Len(b)) : v[j] = IF j <= Len(a) THEN a[j] ELSE b[j - Len(a)]
    <2>1. a \in Seq(S) /\ b \in Seq(S)
      BY <1>2, <1>4, Zenon
    <2> QED BY <2>1, Joined, Zenon
  <1>6. /\ w \in Seq(S) /\ Len(w) = Len(d) + Len(f)
        /\ \A j \in 1..(Len(d) + Len(f)) : w[j] = IF j <= Len(d) THEN d[j] ELSE f[j - Len(d)]
    <2>1. d \in Seq(S) /\ f \in Seq(S)
      BY <1>3, <1>4, Zenon
    <2> QED BY <2>1, Joined, Zenon
  <1> HIDE DEF v, w
  <1>7. Len(v) = i + 1 /\ Len(w) = i + 1
    <2>1. Len(v) = (i - 1) + 2 /\ Len(w) = i + 1
      BY <1>2, <1>3, <1>4, <1>5, <1>6, Zenon
    <2> QED BY <1>1, <2>1
  <1>8. ASSUME NEW j \in 1..(i + 1) PROVE v[j] = w[j]
    <2>1. j \in 1..(Len(a) + Len(b)) /\ j \in 1..(Len(d) + Len(f))
      BY <1>1, <1>2, <1>3, <1>4
    <2>2. CASE j < i
      <3>1. j <= Len(a) /\ j <= Len(d) /\ j \in 1..(i - 1) /\ j \in 1..i
        BY <1>1, <1>2, <1>3, <2>2
      <3>2. v[j] = a[j] /\ w[j] = d[j]
        BY <1>5, <1>6, <2>1, <3>1
      <3> QED BY <1>2, <1>3, <3>1, <3>2
    <2>3. CASE j = i
      <3>1. ~(j <= Len(a)) /\ j - Len(a) = 1 /\ j <= Len(d) /\ j \in 1..i
        BY <1>1, <1>2, <1>3, <2>3
      <3>2. v[j] = b[1] /\ w[j] = d[j]
        BY <1>5, <1>6, <2>1, <3>1
      <3> QED BY <1>3, <1>4, <2>3, <3>1, <3>2
    <2>4. CASE j = i + 1
      <3>1. ~(j <= Len(a)) /\ j - Len(a) = 2 /\ ~(j <= Len(d)) /\ j - Len(d) = 1
        BY <1>1, <1>2, <1>3, <2>4
      <3>2. v[j] = b[2] /\ w[j] = f[1]
        BY <1>5, <1>6, <2>1, <3>1
      <3> QED BY <1>4, <3>2
    <2> QED BY <1>1, <2>2, <2>3, <2>4
  <1>9. v = w
    <2>1. DOMAIN v = 1..(i + 1) /\ DOMAIN w = 1..(i + 1)
      BY <1>5, <1>6, <1>7
    <2>2. v = [j \in 1..(i + 1) |-> v[j]] /\ w = [j \in 1..(i + 1) |-> w[j]]
      BY <1>5, <1>6, <2>1
    <2> QED BY <1>8, <2>2, Zenon
  <1>10. InsertAt(q, i + 1, e) = w \o SubSeq(q, i + 1, Len(q))
    BY <1>1, Zenon DEF InsertAt, w, d, f
  <1> QED BY <1>9, <1>10 DEF v, a, b

LEMMA RemoveIsOne ==
  ASSUME NEW S, NEW q \in Seq(S), Distinct(q), NEW i \in DOMAIN q
  PROVE  LET r == RemoveAt(q, i) IN r \in Seq(S) /\ Distinct(r) /\ Drops(q, r, q[i])
  <1> DEFINE r == RemoveAt(q, i)
             At(j) == Without(i, j)
  <1>1. DOMAIN q = 1..Len(q) /\ Len(q) \in Nat /\ i \in 1..Len(q)
    OBVIOUS
  <1>2. /\ r \in Seq(S) /\ Len(r) = Len(q) - 1
        /\ \A j \in 1..(Len(q) - 1) : r[j] = q[At(j)]
    BY RemovedAt, Zenon
  <1> HIDE DEF r
  <1>6. DOMAIN r = 1..(Len(q) - 1)
    BY <1>1, <1>2
  <1>7. \A j \in DOMAIN r : r[j] = q[At(j)] /\ At(j) \in DOMAIN q /\ At(j) # i
    BY <1>1, <1>2, <1>6 DEF Without
  <1>8. \A j, k \in DOMAIN r : At(j) = At(k) => j = k
    BY <1>1, <1>6 DEF Without
  <1>9. \A j \in DOMAIN q \ {i} : \E k \in DOMAIN r : At(k) = j
    <2> TAKE j \in DOMAIN q \ {i}
    <2>1. CASE j < i
      <3>1. j \in DOMAIN r /\ At(j) = j
        BY <1>1, <1>6, <2>1 DEF Without
      <3> QED BY <3>1
    <2>2. CASE ~(j < i)
      <3>1. j - 1 \in DOMAIN r /\ At(j - 1) = j
        BY <1>1, <1>6, <2>2 DEF Without
      <3> QED BY <3>1
    <2> QED BY <2>1, <2>2
  <1> HIDE DEF At
  <1>10. Distinct(r)
    BY <1>7, <1>8 DEF Distinct
  <1>11. Drops(q, r, q[i])
    <2>1. \A j \in DOMAIN r : r[j] \in ToSet(q) /\ r[j] # q[i]
      BY <1>7 DEF ToSet, Distinct
    <2>2. \A j \in DOMAIN q \ {i} : \E k \in DOMAIN r : r[k] = q[j]
      BY <1>7, <1>9
    <2> QED BY <2>1, <2>2 DEF Drops, ToSet
  <1> QED BY <1>2, <1>10, <1>11 DEF r
-----------------------------------------------------------------------------
(* The shots of the script.                                                *)

LEMMA ScriptShots == ScriptShape => \A s \in Script : s \in Shot
BY DEF ScriptShape, Script, ToSet

LEMMA OneOfAnId ==
  ScriptShape => \A s, t \in Script : s.id = t.id => s = t
BY DEF ScriptShape, Script, ToSet, Distinct

LEMMA NamesOne ==
  ScriptShape => \A id, m, n : Names(id, m) /\ Names(id, n) => m = n
BY OneOfAnId DEF Names

LEMMA NamesBorn ==
  ScriptShape => \A id : /\ InScript(id) => Names(id, BornOf(id))
                         /\ BornOf(id) \in 0..MaxBorn
  <1> SUFFICES ASSUME ScriptShape, NEW id
               PROVE  /\ InScript(id) => Names(id, BornOf(id))
                      /\ BornOf(id) \in 0..MaxBorn
    OBVIOUS
  <1>1. CASE InScript(id)
    <2> DEFINE s == CHOOSE t \in Script : t.id = id
    <2>1. s \in Script /\ s.id = id
      BY <1>1, Zenon DEF InScript, Script
    <2>2. BornOf(id) = s.born
      BY <1>1, Zenon DEF BornOf, Script
    <2> HIDE DEF s
    <2>3. s \in Shot
      BY <2>1, ScriptShots
    <2>4. Names(id, BornOf(id))
      BY <2>1, <2>2, Zenon DEF Names
    <2>5. s.born \in 1..MaxBorn
      BY <2>3 DEF Shot
    <2> QED BY <2>2, <2>4, <2>5
  <1>2. CASE ~InScript(id)
    <2>1. MaxBorn \in Nat
      BY ShotsAssumption DEF MaxBorn
    <2> QED BY <1>2, <2>1 DEF BornOf
  <1> QED BY <1>1, <1>2

\* t is s after update_scene_asset of the ids.
Taken(s, t, ids, kind) ==
    /\ t \in Shot /\ t.id = s.id /\ t.born = s.born
    /\ t.board <=> (s.board \/ (s.id \in ids /\ kind = "board"))
    /\ t.clip <=> (s.clip \/ (s.id \in ids /\ kind # "board"))

LEMMA TookTakes ==
  ASSUME ScriptShape, NEW ids, NEW kind
  PROVE  LET r == Took(ids, kind) IN
         /\ r \in Seq(Shot) /\ Distinct(r)
         /\ \A t \in ToSet(r) : \E s \in Script : Taken(s, t, ids, kind)
         /\ \A s \in Script : \E t \in ToSet(r) : Taken(s, t, ids, kind)
  <1> DEFINE r == Took(ids, kind)
  <1>1. shots \in Seq(Shot) /\ Distinct(shots)
    BY DEF ScriptShape
  <1>2. DOMAIN r = DOMAIN shots
    BY DEF Took
  <1>3. ASSUME NEW i \in DOMAIN shots PROVE Taken(shots[i], r[i], ids, kind)
    <2> DEFINE s == shots[i]
    <2>1. s \in Shot
      BY <1>1
    <2>2. r[i] = IF s.id \in ids
                 THEN IF kind = "board" THEN [s EXCEPT !.board = TRUE] ELSE [s EXCEPT !.clip = TRUE]
                 ELSE s
      BY DEF Took
    <2> SUFFICES Taken(s, r[i], ids, kind)
      OBVIOUS
    <2> HIDE DEF s, r
    <2>3. CASE s.id \notin ids
      <3>1. r[i] = s
        BY <2>2, <2>3, Zenon
      <3> QED BY <2>1, <2>3, <3>1, Zenon DEF Taken
    <2>4. CASE s.id \in ids /\ kind = "board"
      <3> DEFINE t == [s EXCEPT !.board = TRUE]
      <3>1. r[i] = t
        BY <2>2, <2>4, Zenon
      <3>2. /\ t \in Shot /\ t.id = s.id /\ t.born = s.born
            /\ t.board = TRUE /\ t.clip = s.clip
        BY <2>1 DEF Shot
      <3> HIDE DEF t
      <3> QED BY <2>4, <3>1, <3>2, Zenon DEF Taken
    <2>5. CASE s.id \in ids /\ kind # "board"
      <3> DEFINE t == [s EXCEPT !.clip = TRUE]
      <3>1. r[i] = t
        BY <2>2, <2>5, Zenon
      <3>2. /\ t \in Shot /\ t.id = s.id /\ t.born = s.born
            /\ t.clip = TRUE /\ t.board = s.board
        BY <2>1 DEF Shot
      <3> HIDE DEF t
      <3> QED BY <2>5, <3>1, <3>2, Zenon DEF Taken
    <2> QED BY <2>3, <2>4, <2>5
  <1>4. r \in Seq(Shot)
    <2>1. \A i \in DOMAIN r : r[i] \in Shot
      BY <1>2, <1>3 DEF Taken
    <2>2. DOMAIN shots = 1..Len(shots) /\ Len(shots) \in Nat
      BY <1>1
    <2>3. r = [i \in 1..Len(shots) |-> r[i]]
      BY <1>2, <2>2 DEF Took
    <2> HIDE DEF r
    <2> QED BY <1>2, <2>1, <2>2, <2>3
  <1> HIDE DEF r
  <1>5. Distinct(r)
    BY <1>1, <1>2, <1>3 DEF Distinct, Taken
  <1>6. \A t \in ToSet(r) : \E s \in Script : Taken(s, t, ids, kind)
    BY <1>2, <1>3 DEF ToSet, Script
  <1>7. \A s \in Script : \E t \in ToSet(r) : Taken(s, t, ids, kind)
    BY <1>2, <1>3 DEF ToSet, Script
  <1> QED BY <1>4, <1>5, <1>6, <1>7 DEF r

-----------------------------------------------------------------------------
(* The least suffix that is free.                                          *)

LEMMA LeastOf ==
  ASSUME NEW F \in SUBSET Nat, F # {}
  PROVE  \E k \in F : \A j \in F : k <= j
  <1> DEFINE R == OpToRel(<, Nat)
  <1>1. \E x \in F : \A y \in F : ~ (<<y, x>> \in R)
    <2> HIDE DEF R
    <2>1. IsWellFoundedOn(R, Nat)
      BY NatLessThanWellFounded, Zenon DEF R
    <2> QED BY <2>1, WFMin
  <1>2. \A x, y \in Nat : y < x => <<y, x>> \in R
    BY DEF OpToRel
  <1> HIDE DEF R
  <1>3. \A x, y \in F : ~(y < x) => x <= y
    OBVIOUS
  <1> QED BY <1>1, <1>2, <1>3

LEMMA Minted ==
  ASSUME ScriptShape, NEW base \in ShotIds, CanMint(base)
  PROVE  /\ NextSuffixedId(base, ExistingIds) \in ShotIds
         /\ \A s \in Script : s.id # NextSuffixedId(base, ExistingIds)
  <1> DEFINE free == {k \in 1..MaxSuffix : <<base[1], k>> \notin ExistingIds}
             k0 == CHOOSE k \in free : \A j \in free : k <= j
  <1>1. \A id : InScript(id) <=> id \in ExistingIds
    BY DEF InScript, ExistingIds, ToSet
  <1>2. free # {}
    BY <1>1 DEF CanMint
  <1>3. free \subseteq Nat
    BY ShotsAssumption
  <1>4. NextSuffixedId(base, ExistingIds) = <<base[1], k0>>
    BY Zenon DEF NextSuffixedId
  <1>5. \E k \in free : \A j \in free : k <= j
    <2> HIDE DEF free
    <2> QED BY <1>2, <1>3, LeastOf
  <1>6. k0 \in free
    BY <1>5, Zenon
  <1>7. k0 \in 1..MaxSuffix /\ <<base[1], k0>> \notin ExistingIds
    BY <1>6
  <1> HIDE DEF free, k0
  <1>8. <<base[1], k0>> \in ShotIds
    BY <1>7, ShotsAssumption DEF ShotIds
  <1> QED BY <1>1, <1>4, <1>7, <1>8 DEF InScript, Script

-----------------------------------------------------------------------------
(* How a step keeps the shapes.                                            *)

LEMMA Counted ==
  ASSUME counts \in [Moves -> Nat], NEW c \in Moves, NEW max, Count(c, max)
  PROVE  /\ counts' \in [Moves -> Nat] /\ counts[c] < max /\ counts'[c] = counts[c] + 1
         /\ \A d \in Moves : d # c => counts'[d] = counts[d]
  <1>1. counts[c] < max /\ counts' = [counts EXCEPT ![c] = counts[c] + 1]
    BY DEF Count
  <1> QED BY <1>1

\* A step that is no edit leaves the shots or takes files over.
Quiet == counts' = counts \/ \E c \in Moves \ {"edits"}, max \in Nat : Count(c, max)

LEMMA QuietKeepsScript ==
  ASSUME ScriptShape, Quiet, born' = born, shots' \in Seq(Shot), Distinct(shots')
  PROVE  ScriptShape'
  <1>1. counts' \in [Moves -> Nat] /\ counts'["edits"] = counts["edits"]
    <2>1. counts \in [Moves -> Nat] /\ "edits" \in Moves
      BY DEF ScriptShape, Moves
    <2>2. CASE counts' = counts
      BY <2>1, <2>2
    <2>3. CASE \E c \in Moves \ {"edits"}, max \in Nat : Count(c, max)
      <3>1. PICK c \in Moves \ {"edits"}, max \in Nat : Count(c, max)
        BY <2>3
      <3> QED BY <2>1, <3>1, Counted
    <2> QED BY <2>2, <2>3 DEF Quiet
  <1>2. /\ born \in Nat /\ born <= Len(StartIds) + counts["edits"]
        /\ counts["edits"] <= MaxEdits
    BY DEF ScriptShape
  <1> QED BY <1>1, <1>2 DEF ScriptShape

LEMMA SameScript ==
  ScriptShape /\ Quiet /\ UNCHANGED <<shots, born>> => ScriptShape'
BY QuietKeepsScript DEF ScriptShape

LEMMA EditCounts ==
  ASSUME ScriptShape, Count("edits", MaxEdits), born' = born \/ born' = born + 1
  PROVE  /\ counts' \in [Moves -> Nat] /\ counts'["edits"] <= MaxEdits
         /\ born' \in Nat /\ born' <= Len(StartIds) + counts'["edits"]
         /\ born + 1 \in 1..MaxBorn
  <1>1. /\ counts \in [Moves -> Nat] /\ born \in Nat /\ "edits" \in Moves
        /\ born <= Len(StartIds) + counts["edits"] /\ counts["edits"] <= MaxEdits
    BY DEF ScriptShape, Moves
  <1>2. /\ counts' \in [Moves -> Nat] /\ counts["edits"] < MaxEdits
        /\ counts'["edits"] = counts["edits"] + 1
    BY <1>1, Counted
  <1>3. Len(StartIds) \in Nat /\ MaxEdits \in Nat /\ MaxBorn = Len(StartIds) + MaxEdits
    BY ShotsAssumption DEF MaxBorn
  <1>4. counts["edits"] \in Nat
    BY <1>1
  <1> HIDE DEF MaxBorn
  <1> QED BY <1>1, <1>2, <1>3, <1>4

\* An insertion and a split bring one shot without assets.
LEMMA EditInserts ==
  ASSUME ScriptShape, NEW i \in DOMAIN shots, InsertShot(i) \/ SplitShot(i)
  PROVE  /\ ScriptShape'
         /\ \E e \in Shot : /\ Script' = Script \cup {e}
                            /\ e.board = FALSE /\ e.clip = FALSE
                            /\ \A s \in Script : s.id # e.id
  <1> DEFINE q == shots
             id == NextSuffixedId(q[i].id, ExistingIds)
             e == NewShot(id, born + 1)
  <1>1. q \in Seq(Shot) /\ Distinct(q) /\ i \in DOMAIN q /\ q[i].id \in ShotIds
    <2>1. q \in Seq(Shot) /\ Distinct(q)
      BY DEF ScriptShape
    <2>2. q[i] \in Shot
      BY <2>1
    <2> QED BY <2>1, <2>2 DEF Shot
  <1>2. Count("edits", MaxEdits) /\ CanMint(q[i].id) /\ born' = born + 1
    BY Zenon DEF InsertShot, SplitShot
  <1>3. id \in ShotIds /\ \A s \in Script : s.id # id
    BY <1>1, <1>2, Minted
  <1>4. /\ counts' \in [Moves -> Nat] /\ counts'["edits"] <= MaxEdits
        /\ born' \in Nat /\ born' <= Len(StartIds) + counts'["edits"]
        /\ born + 1 \in 1..MaxBorn
    BY <1>2, EditCounts
  <1>5. e \in Shot /\ e.id = id /\ e.board = FALSE /\ e.clip = FALSE
    <2> HIDE DEF id
    <2> QED BY <1>3, <1>4 DEF NewShot, Shot
  <1>6. \A s \in ToSet(q) : s.id # e.id
    BY <1>3, <1>5, Zenon DEF Script
  <1>7. shots' = InsertAt(q, i + 1, e)
    <2>1. CASE InsertShot(i)
      BY <2>1, Zenon DEF InsertShot
    <2>2. CASE SplitShot(i)
      <3>1. shots' = SubSeq(q, 1, i - 1) \o <<q[i], e>> \o SubSeq(q, i + 1, Len(q))
        BY <2>2, Zenon DEF SplitShot, SplitParts
      <3> HIDE DEF e
      <3> QED BY <1>1, <1>5, <3>1, SplitIsInsert
    <2> QED BY <2>1, <2>2
  <1> HIDE DEF e, id
  <1>8. shots' \in Seq(Shot) /\ Distinct(shots') /\ Inserts(q, shots', e)
    <2> HIDE DEF q
    <2> QED BY <1>1, <1>5, <1>6, <1>7, InsertIsOne
  <1>9. ScriptShape'
    BY <1>4, <1>8 DEF ScriptShape
  <1>10. Script' = Script \cup {e}
    BY <1>8 DEF Inserts, Script
  <1> QED BY <1>5, <1>6, <1>9, <1>10 DEF Script

LEMMA RemovalDrops ==
  ASSUME ScriptShape, NEW i \in DOMAIN shots, RemoveShot(i)
  PROVE  ScriptShape' /\ shots[i] \in Script /\ Script' = Script \ {shots[i]}
  <1>1. shots \in Seq(Shot) /\ Distinct(shots)
    BY DEF ScriptShape
  <1>2. Count("edits", MaxEdits) /\ born' = born /\ shots' = RemoveAt(shots, i)
    BY Zenon DEF RemoveShot
  <1>3. /\ counts' \in [Moves -> Nat] /\ counts'["edits"] <= MaxEdits
        /\ born' \in Nat /\ born' <= Len(StartIds) + counts'["edits"]
    BY <1>2, EditCounts
  <1>4. shots' \in Seq(Shot) /\ Distinct(shots') /\ Drops(shots, shots', shots[i])
    BY <1>1, <1>2, RemoveIsOne
  <1>5. shots[i] \in Script
    BY <1>1 DEF Script, ToSet
  <1> QED BY <1>3, <1>4, <1>5 DEF ScriptShape, Drops, Script

\* A task that ends, and what a batch hears of it.
LEMMA EndKeepsShapes ==
  ASSUME JobShapes, ToolShapes, NEW k \in AssetKinds \X ShotIds, NEW ok \in BOOLEAN,
         EndJob(k, ok), reported' = reported
  PROVE  /\ JobShapes' /\ ToolShapes'
         /\ assetJobs'[k] = NoJob
         /\ \A j \in AssetKinds \X ShotIds : j # k => assetJobs'[j] = assetJobs[j]
  <1>1. assetJobs \in [AssetKinds \X ShotIds -> JobStates]
    BY DEF JobShapes
  <1>2. assetJobs' = [assetJobs EXCEPT ![k] = NoJob] /\ Heard(k, ok)
    BY Zenon DEF EndJob
  <1>3. /\ assetJobs'[k] = NoJob
        /\ \A j \in AssetKinds \X ShotIds : j # k => assetJobs'[j] = assetJobs[j]
        /\ assetJobs' \in [AssetKinds \X ShotIds -> JobStates]
    BY <1>1, <1>2 DEF JobStates
  <1>4. JobShapes'
    <2>1. ASSUME NEW id \in ShotIds, assetJobs'[<<"clip", id>>] # NoJob,
                 assetJobs'[<<"clip", id>>].at # "queued"
          PROVE  assetJobs'[<<"clip", id>>].frame # 0
      <3>1. <<"clip", id>> \in AssetKinds \X ShotIds /\ <<"clip", id>> # k
        BY <1>3, <2>1 DEF AssetKinds
      <3>2. assetJobs'[<<"clip", id>>] = assetJobs[<<"clip", id>>]
        BY <1>3, <3>1
      <3> QED BY <2>1, <3>2 DEF JobShapes
    <2> QED BY <1>3, <2>1, Zenon DEF JobShapes
  <1>5. ToolShapes'
    <2>1. tool \in ToolStates /\ k[2] \in ShotIds
      BY DEF ToolShapes
    <2>2. CASE k \notin tool.waits
      BY <1>2, <2>2 DEF Heard, ToolShapes
    <2>3. CASE k \in tool.waits
      <3>1. /\ tool' = [tool EXCEPT !.waits = tool.waits \ {k}, !.failed = tool.failed \/ ~ok,
                                    !.done = IF ok THEN tool.done \cup {k[2]} ELSE tool.done]
            /\ checkpoint' = IF ok /\ tool.kind = "episode" THEN tool.done \cup {k[2]} ELSE checkpoint
        BY <1>2, <2>3 DEF Heard
      <3> DEFINE d == IF ok THEN tool.done \cup {k[2]} ELSE tool.done
                 f == tool.failed \/ ~ok
      <3>2. d \in SUBSET ShotIds
        BY <2>1 DEF ToolStates
      <3>3. f \in BOOLEAN
        OBVIOUS
      <3>4. tool' = [tool EXCEPT !.waits = tool.waits \ {k}, !.failed = f, !.done = d]
        BY <3>1, Zenon
      <3> HIDE DEF d, f
      <3>5. tool' \in ToolStates
        BY <2>1, <3>2, <3>3, <3>4 DEF ToolStates
      <3>6. checkpoint' = NoCheckpoint \/ checkpoint' \subseteq ShotIds
        <4>1. CASE ok /\ tool.kind = "episode"
          BY <2>1, <3>1, <4>1 DEF ToolStates
        <4>2. CASE ~(ok /\ tool.kind = "episode")
          <5>1. checkpoint' = checkpoint
            BY <3>1, <4>2, Zenon
          <5> QED BY <5>1 DEF ToolShapes
        <4> QED BY <4>1, <4>2
      <3> QED BY <3>5, <3>6 DEF ToolShapes
    <2> QED BY <2>2, <2>3
  <1> QED BY <1>3, <1>4, <1>5

\* The requests of a set of tasks.
LEMMA EnqueuedShape ==
  ASSUME ScriptShape, JobShapes, NEW ks, assetJobs' = Enqueued(ks)
  PROVE  /\ JobShapes'
         /\ \A k \in AssetKinds \X ShotIds :
              \/ assetJobs'[k] = assetJobs[k]
              \/ /\ k \in ks /\ ~Active(k)
                 /\ assetJobs'[k] = [for |-> BornOf(k[2]), frame |-> 0, at |-> "queued"]
  <1>1. \A k \in AssetKinds \X ShotIds :
              \/ assetJobs'[k] = assetJobs[k]
              \/ /\ k \in ks /\ ~Active(k)
                 /\ assetJobs'[k] = [for |-> BornOf(k[2]), frame |-> 0, at |-> "queued"]
    BY DEF Enqueued
  <1>2. MaxBorn \in Nat
    BY ShotsAssumption DEF MaxBorn
  <1> HIDE DEF MaxBorn
  <1>3. \A k \in AssetKinds \X ShotIds : assetJobs'[k] \in JobStates
    <2> TAKE k \in AssetKinds \X ShotIds
    <2>1. CASE assetJobs'[k] = assetJobs[k]
      BY <2>1 DEF JobShapes
    <2>2. CASE assetJobs'[k] = [for |-> BornOf(k[2]), frame |-> 0, at |-> "queued"]
      <3>1. BornOf(k[2]) \in 0..MaxBorn /\ 0 \in 0..MaxBorn
        BY <1>2, NamesBorn
      <3> QED BY <2>2, <3>1 DEF JobStates
    <2> QED BY <1>1, <2>1, <2>2
  <1>4. assetJobs' \in [AssetKinds \X ShotIds -> JobStates]
    BY <1>3 DEF Enqueued
  <1>5. ASSUME NEW id \in ShotIds, assetJobs'[<<"clip", id>>] # NoJob,
               assetJobs'[<<"clip", id>>].at # "queued"
        PROVE  assetJobs'[<<"clip", id>>].frame # 0
    <2>1. <<"clip", id>> \in AssetKinds \X ShotIds
      BY DEF AssetKinds
    <2>2. assetJobs'[<<"clip", id>>] = assetJobs[<<"clip", id>>]
      <3>1. CASE assetJobs'[<<"clip", id>>]
                   = [for |-> BornOf(<<"clip", id>>[2]), frame |-> 0, at |-> "queued"]
        BY <1>5, <3>1
      <3> QED BY <1>1, <2>1, <3>1, Zenon
    <2> QED BY <1>5, <2>2 DEF JobShapes
  <1> QED BY <1>1, <1>4, <1>5, Zenon DEF JobShapes

-----------------------------------------------------------------------------
(* How a step keeps what is known.                                         *)

NamesStay == \A id \in ShotIds : \A n : Names(id, n) => Names(id, n)'
MarksStay == \A id \in ShotIds : Marked(id) => Marked(id)'
LeftStays == \A id \in ShotIds : left[id] \subseteq left'[id]
OldBoards ==
    \A s \in Script' : s.board =>
        s.id \in ShotIds /\ \E r \in Script : r.board /\ r.id = s.id /\ r.born = s.born
OldClips ==
    \A s \in Script' : s.clip =>
        s.id \in ShotIds /\ \E r \in Script : r.clip /\ r.id = s.id /\ r.born = s.born
JobsStay(kind) ==
    \A id \in ShotIds : \/ assetJobs'[<<kind, id>>] = assetJobs[<<kind, id>>]
                        \/ assetJobs'[<<kind, id>>] = NoJob
GridStays == grid'.cells = grid.cells /\ grid'.hit \subseteq grid.hit

LEMMA CellIds == GridShape => \A c \in grid.cells : c[1] \in ShotIds
BY DEF GridShape, GridStates, Claim

LEMMA BoardsStay ==
  ASSUME BoardsInv, GridShape, NamesStay, LeftStays, OldBoards \/ BoardsBelong', JobsStay("board"),
         boards' = boards, GridStays
  PROVE  BoardsInv'
  <1>1. BoardsBelong'
    <2> SUFFICES ASSUME OldBoards, NEW s \in Script', s.board
                 PROVE  boards'[s.id] = s.born \/ "boardJob" \in left'[s.id]
      BY DEF BoardsBelong, Script
    <2>1. PICK r \in Script : s.id \in ShotIds /\ r.board /\ r.id = s.id /\ r.born = s.born
      BY DEF OldBoards
    <2>2. boards[s.id] = s.born \/ "boardJob" \in left[s.id]
      BY <2>1 DEF BoardsInv, BoardsBelong, Script
    <2> QED BY <2>1, <2>2 DEF LeftStays
  <1>2. BoardJobsKnow'
    <2> SUFFICES ASSUME NEW id \in ShotIds, NEW job, job = assetJobs'[<<"board", id>>], job # NoJob
                 PROVE  \/ "boardJob" \in left'[id]
                        \/ Names(id, job.for)' /\ (job.at = "written" => boards'[id] = job.for)
      BY DEF BoardJobsKnow, Names
    <2>1. assetJobs[<<"board", id>>] = job
      BY DEF JobsStay
    <2>2. \/ "boardJob" \in left[id]
          \/ Names(id, job.for) /\ (job.at = "written" => boards[id] = job.for)
      BY <2>1 DEF BoardsInv, BoardJobsKnow
    <2>3. Names(id, job.for) => Names(id, job.for)'
      BY DEF NamesStay
    <2> QED BY <2>2, <2>3 DEF LeftStays
  <1>3. CellsKnow'
    <2> SUFFICES ASSUME NEW c \in grid'.cells
                 PROVE  \/ "boardJob" \in left'[c[1]]
                        \/ Names(c[1], c[2])' /\ (c \in grid'.hit => boards'[c[1]] = c[2])
      BY DEF CellsKnow
    <2>1. c \in grid.cells /\ c[1] \in ShotIds /\ (c \in grid'.hit => c \in grid.hit)
      BY CellIds DEF GridStays
    <2>2. \/ "boardJob" \in left[c[1]]
          \/ Names(c[1], c[2]) /\ (c \in grid.hit => boards[c[1]] = c[2])
      BY <2>1 DEF BoardsInv, CellsKnow
    <2>3. Names(c[1], c[2]) => Names(c[1], c[2])'
      BY <2>1 DEF NamesStay
    <2> QED BY <2>1, <2>2, <2>3 DEF LeftStays
  <1>4. DiskKnows'
    <2> SUFFICES ASSUME NEW id \in ShotIds, boards'[id] # 0
                 PROVE  OldBoard(id)' \/ Names(id, boards[id])'
      BY DEF DiskKnows
    <2>1. OldBoard(id) \/ Names(id, boards[id])
      BY DEF BoardsInv, DiskKnows
    <2>2. OldBoard(id) => OldBoard(id)'
      BY DEF LeftStays, OldBoard
    <2>3. Names(id, boards[id]) => Names(id, boards[id])'
      <3>1. \A n : Names(id, n) => Names(id, n)'
        BY DEF NamesStay
      <3> QED BY <3>1 DEF Names
    <2> QED BY <2>1, <2>2, <2>3
  <1> QED BY <1>1, <1>2, <1>3, <1>4 DEF BoardsInv

LEMMA ClipsStay ==
  ASSUME ClipsInv, NamesStay, LeftStays, OldClips \/ ClipsBelong', JobsStay("clip"), clips' = clips
  PROVE  ClipsInv'
  <1>1. ClipsBelong'
    <2> SUFFICES ASSUME OldClips, NEW s \in Script', s.clip
                 PROVE  /\ clips'[s.id] # NoClip
                        /\ clips'[s.id].of = s.born \/ "clipJob" \in left'[s.id]
                        /\ \/ clips'[s.id].from = s.born
                           \/ left'[s.id] \cap {"board", "boardJob", "clipJob"} # {}
      BY DEF ClipsBelong, Script
    <2>1. PICK r \in Script : s.id \in ShotIds /\ r.clip /\ r.id = s.id /\ r.born = s.born
      BY DEF OldClips
    <2>2. /\ clips[s.id] # NoClip
          /\ clips[s.id].of = s.born \/ "clipJob" \in left[s.id]
          /\ \/ clips[s.id].from = s.born
             \/ left[s.id] \cap {"board", "boardJob", "clipJob"} # {}
      BY <2>1 DEF ClipsInv, ClipsBelong, Script
    <2>3. left[s.id] \subseteq left'[s.id]
      BY <2>1 DEF LeftStays
    <2> QED BY <2>2, <2>3
  <1>2. ClipJobsKnow'
    <2> SUFFICES ASSUME NEW id \in ShotIds, NEW job, job = assetJobs'[<<"clip", id>>], job # NoJob
                 PROVE  /\ \/ "clipJob" \in left'[id]
                           \/ /\ Names(id, job.for)'
                              /\ job.at # "queued" => job.frame = job.for \/ OldBoard(id)'
                        /\ job.at = "written" => clips'[id] = [of |-> job.for, from |-> job.frame]
      BY DEF ClipJobsKnow, Names
    <2>1. assetJobs[<<"clip", id>>] = job
      BY DEF JobsStay
    <2>2. /\ \/ "clipJob" \in left[id]
             \/ /\ Names(id, job.for)
                /\ job.at # "queued" => job.frame = job.for \/ OldBoard(id)
          /\ job.at = "written" => clips[id] = [of |-> job.for, from |-> job.frame]
      BY <2>1 DEF ClipsInv, ClipJobsKnow
    <2>3. Names(id, job.for) => Names(id, job.for)'
      BY DEF NamesStay
    <2>4. OldBoard(id) => OldBoard(id)'
      BY DEF LeftStays, OldBoard
    <2> QED BY <2>2, <2>3, <2>4 DEF LeftStays
  <1> QED BY <1>1, <1>2 DEF ClipsInv

\* Nothing is believed that was not, and what was marked is.
Believed ==
    /\ tool'.kind = "none" \/ tool' = tool
    /\ checkpoint' \in {NoCheckpoint, checkpoint}

LEMMA MarksKnown ==
  ASSUME MarksInv, ToolShapes, MarksStay, Believed, reported' = reported
  PROVE  MarksInv'
  <1>1. /\ tool.done \subseteq ShotIds /\ \A c \in tool.counted \cup reported : c[1] \in ShotIds
        /\ checkpoint # NoCheckpoint => checkpoint \subseteq ShotIds
    BY DEF ToolShapes, ToolStates, Claim
  <1>2. ToolKnows'
    <2>1. CASE tool'.kind = "none"
      BY <2>1 DEF ToolKnows
    <2>2. CASE tool'.kind # "none"
      <3>1. tool' = tool
        BY <2>2 DEF Believed
      <3>2. tool.kind = "episode" => \A id \in tool.done : Marked(id)'
        BY <1>1 DEF MarksInv, ToolKnows, MarksStay
      <3>3. tool.kind \in {"all", "episode"} /\ ~tool.failed =>
              \A c \in tool.counted : <<"clip", c[1]>> \in tool.waits \/ Marked(c[1])'
        BY <1>1 DEF MarksInv, ToolKnows, MarksStay
      <3> QED BY <3>1, <3>2, <3>3 DEF MarksInv, ToolKnows
    <2> QED BY <2>1, <2>2
  <1>3. CheckpointKnows'
    <2>1. CASE checkpoint' = NoCheckpoint
      BY <2>1 DEF CheckpointKnows
    <2>2. CASE checkpoint' # NoCheckpoint
      <3>1. checkpoint' = checkpoint
        BY <2>2 DEF Believed
      <3>2. \A id \in checkpoint : Marked(id)'
        BY <1>1, <2>2, <3>1 DEF MarksInv, CheckpointKnows, MarksStay
      <3> QED BY <3>1, <3>2 DEF CheckpointKnows
    <2> QED BY <2>1, <2>2
  <1>4. ReportsKnow'
    <2>1. \A c \in reported : Marked(c[1])'
      BY <1>1 DEF MarksInv, ReportsKnow, MarksStay
    <2> QED BY <2>1 DEF ReportsKnow
  <1> QED BY <1>2, <1>3, <1>4 DEF MarksInv

-----------------------------------------------------------------------------
(* Edits of the script.                                                    *)

LEMMA InsertKeeps ==
  ASSUME ShotsInv, NEW i \in DOMAIN shots, InsertShot(i) \/ SplitShot(i)
  PROVE  ShotsInv'
  <1>1. ScriptShape /\ FileShapes /\ JobShapes /\ GridShape /\ ToolShapes
        /\ BoardsInv /\ ClipsInv /\ MarksInv
    BY DEF ShotsInv, ShotShapes
  <1>2. UNCHANGED <<boards, clips, assetJobs, grid, tool, checkpoint, left, reported>>
    BY DEF InsertShot, SplitShot
  <1>3. ScriptShape'
    BY <1>1, EditInserts
  <1>4. PICK e \in Shot : /\ Script' = Script \cup {e} /\ e.board = FALSE /\ e.clip = FALSE
                          /\ \A s \in Script : s.id # e.id
    BY <1>1, EditInserts
  <1>5. FileShapes' /\ JobShapes' /\ GridShape' /\ ToolShapes'
    BY <1>1, <1>2 DEF FileShapes, JobShapes, GridShape, ToolShapes, GridStates, ClipStates, JobStates,
                      MaxBorn, ToolStates
  <1>6. \A s \in Script : s.id \in ShotIds
    BY <1>1, ScriptShots DEF Shot
  <1>7. NamesStay /\ MarksStay /\ LeftStays
    BY <1>2, <1>4 DEF NamesStay, MarksStay, LeftStays, Names, Marked
  <1>8. OldBoards /\ OldClips
    BY <1>4, <1>6 DEF OldBoards, OldClips
  <1>9. JobsStay("board") /\ JobsStay("clip") /\ GridStays /\ Believed
    BY <1>2 DEF JobsStay, GridStays, Believed
  <1>10. BoardsInv'
    BY <1>1, <1>2, <1>7, <1>8, <1>9, BoardsStay
  <1>11. ClipsInv'
    BY <1>1, <1>2, <1>7, <1>8, <1>9, ClipsStay
  <1>12. MarksInv'
    BY <1>1, <1>2, <1>7, <1>9, MarksKnown
  <1> QED BY <1>3, <1>5, <1>10, <1>11, <1>12 DEF ShotsInv, ShotShapes

\* What is left under the id of a removed shot says why its successor may find it.
LEMMA RemoveKeeps ==
  ASSUME ShotsInv, NEW i \in DOMAIN shots, RemoveShot(i)
  PROVE  ShotsInv'
  <1> DEFINE gone == shots[i].id
  <1>1. ScriptShape /\ FileShapes /\ JobShapes /\ GridShape /\ ToolShapes
        /\ BoardsInv /\ ClipsInv /\ MarksInv
    BY DEF ShotsInv, ShotShapes
  <1>2. /\ UNCHANGED <<boards, clips, assetJobs, grid, tool, checkpoint, reported>>
        /\ left' = [left EXCEPT ![gone] = left[gone] \cup LeftUnder(gone)]
    BY DEF RemoveShot
  <1>3. ScriptShape' /\ shots[i] \in Script /\ Script' = Script \ {shots[i]}
    BY <1>1, RemovalDrops
  <1>4. \A s \in Script : s.id \in ShotIds /\ (s.id = gone => s = shots[i])
    <2>1. \A s \in Script : s.id \in ShotIds
      BY <1>1, ScriptShots DEF Shot
    <2> QED BY <1>1, <1>3, <2>1, OneOfAnId
  <1>5. gone \in ShotIds /\ shots[i] \in Script
    BY <1>3, <1>4
  <1> HIDE DEF gone
  <1>6. /\ left \in [ShotIds -> SUBSET Remnants] /\ left' \in [ShotIds -> SUBSET Remnants]
        /\ left'[gone] = left[gone] \cup LeftUnder(gone)
        /\ \A id \in ShotIds : id # gone => left'[id] = left[id]
    BY <1>1, <1>2, <1>5 DEF FileShapes, LeftUnder
  <1>7. LeftStays
    BY <1>6 DEF LeftStays
  <1>8. \A s \in Script' : s \in Script /\ s.id # gone /\ s.id \in ShotIds
    BY <1>3, <1>4
  <1>9. \A id \in ShotIds : id # gone => \A n : Names(id, n) => Names(id, n)'
    <2> SUFFICES ASSUME NEW id \in ShotIds, id # gone, NEW n, Names(id, n) PROVE Names(id, n)'
      OBVIOUS
    <2>1. PICK s \in Script : s.id = id /\ s.born = n
      BY DEF Names
    <2>2. s \in Script'
      BY <1>3, <2>1 DEF gone
    <2> QED BY <2>1, <2>2 DEF Names
  <1>10. /\ boards[gone] # 0 => "board" \in left'[gone]
         /\ clips[gone] # NoClip => "clip" \in left'[gone]
         /\ assetJobs[<<"board", gone>>] # NoJob => "boardJob" \in left'[gone]
         /\ assetJobs[<<"clip", gone>>] # NoJob => "clipJob" \in left'[gone]
         /\ \A c \in grid.cells : c[1] = gone => "boardJob" \in left'[gone]
    BY <1>6 DEF LeftUnder, Remnants, Active
  <1>11. MarksStay
    <2> SUFFICES ASSUME NEW id \in ShotIds, Marked(id) PROVE Marked(id)'
      BY DEF MarksStay
    <2>1. CASE left[id] \cap {"clip", "clipJob"} # {}
      BY <1>7, <2>1 DEF LeftStays, Marked
    <2>2. CASE \E s \in Script : s.id = id /\ s.clip
      <3>1. PICK s \in Script : s.id = id /\ s.clip
        BY <2>2
      <3>2. CASE id = gone
        <4>1. clips[gone] # NoClip
          BY <1>1, <3>1, <3>2 DEF ClipsInv, ClipsBelong, Script
        <4> QED BY <1>10, <3>2, <4>1 DEF Marked
      <3>3. CASE id # gone
        <4>1. s \in Script'
          BY <1>3, <3>1, <3>3 DEF gone
        <4> QED BY <3>1, <4>1 DEF Marked
      <3> QED BY <3>2, <3>3
    <2> QED BY <2>1, <2>2 DEF Marked
  <1>12. BoardsBelong' /\ ClipsBelong'
    <2>1. ASSUME NEW s \in Script', s.board
          PROVE  boards'[s.id] = s.born \/ "boardJob" \in left'[s.id]
      <3>1. boards[s.id] = s.born \/ "boardJob" \in left[s.id]
        BY <1>1, <1>8, <2>1 DEF BoardsInv, BoardsBelong, Script
      <3> QED BY <1>2, <1>7, <1>8, <3>1 DEF LeftStays
    <2>2. ASSUME NEW s \in Script', s.clip
          PROVE  /\ clips'[s.id] # NoClip
                 /\ clips'[s.id].of = s.born \/ "clipJob" \in left'[s.id]
                 /\ \/ clips'[s.id].from = s.born
                    \/ left'[s.id] \cap {"board", "boardJob", "clipJob"} # {}
      <3>1. /\ clips[s.id] # NoClip
            /\ clips[s.id].of = s.born \/ "clipJob" \in left[s.id]
            /\ \/ clips[s.id].from = s.born
               \/ left[s.id] \cap {"board", "boardJob", "clipJob"} # {}
        BY <1>1, <1>8, <2>2 DEF ClipsInv, ClipsBelong, Script
      <3>2. left'[s.id] = left[s.id]
        BY <1>6, <1>8
      <3> QED BY <1>2, <3>1, <3>2
    <2> QED BY <2>1, <2>2 DEF BoardsBelong, ClipsBelong, Script
  <1>13. BoardJobsKnow'
    <2> SUFFICES ASSUME NEW id \in ShotIds, NEW job, job = assetJobs'[<<"board", id>>], job # NoJob
                 PROVE  \/ "boardJob" \in left'[id]
                        \/ Names(id, job.for)' /\ (job.at = "written" => boards'[id] = job.for)
      BY DEF BoardJobsKnow, Names
    <2>1. CASE id = gone
      BY <1>2, <1>10, <2>1
    <2>2. CASE id # gone
      <3>1. \/ "boardJob" \in left[id]
            \/ Names(id, job.for) /\ (job.at = "written" => boards[id] = job.for)
        BY <1>1, <1>2 DEF BoardsInv, BoardJobsKnow
      <3>2. Names(id, job.for) => Names(id, job.for)'
        BY <1>9, <2>2
      <3> QED BY <1>2, <1>6, <2>2, <3>1, <3>2
    <2> QED BY <2>1, <2>2
  <1>14. CellsKnow'
    <2> SUFFICES ASSUME NEW c \in grid'.cells
                 PROVE  \/ "boardJob" \in left'[c[1]]
                        \/ Names(c[1], c[2])' /\ (c \in grid'.hit => boards'[c[1]] = c[2])
      BY DEF CellsKnow
    <2>1. c \in grid.cells /\ c[1] \in ShotIds
      BY <1>1, <1>2, CellIds
    <2>2. CASE c[1] = gone
      BY <1>10, <2>1, <2>2
    <2>3. CASE c[1] # gone
      <3>1. \/ "boardJob" \in left[c[1]]
            \/ Names(c[1], c[2]) /\ (c \in grid.hit => boards[c[1]] = c[2])
        BY <1>1, <2>1 DEF BoardsInv, CellsKnow
      <3>2. Names(c[1], c[2]) => Names(c[1], c[2])'
        BY <1>9, <2>1, <2>3
      <3> QED BY <1>2, <1>6, <2>1, <2>3, <3>1, <3>2
    <2> QED BY <2>2, <2>3
  <1>15. DiskKnows'
    <2> SUFFICES ASSUME NEW id \in ShotIds, NEW n, n = boards'[id], n # 0
                 PROVE  OldBoard(id)' \/ Names(id, n)'
      BY DEF DiskKnows, Names
    <2>1. CASE id = gone
      BY <1>2, <1>10, <2>1 DEF OldBoard
    <2>2. CASE id # gone
      <3>1. OldBoard(id) \/ Names(id, n)
        BY <1>1, <1>2 DEF BoardsInv, DiskKnows
      <3>2. Names(id, n) => Names(id, n)'
        BY <1>9, <2>2
      <3> QED BY <1>6, <2>2, <3>1, <3>2 DEF OldBoard
    <2> QED BY <2>1, <2>2
  <1>16. ClipJobsKnow'
    <2> SUFFICES ASSUME NEW id \in ShotIds, NEW job, job = assetJobs'[<<"clip", id>>], job # NoJob
                 PROVE  /\ \/ "clipJob" \in left'[id]
                           \/ /\ Names(id, job.for)'
                              /\ job.at # "queued" => job.frame = job.for \/ OldBoard(id)'
                        /\ job.at = "written" => clips'[id] = [of |-> job.for, from |-> job.frame]
      BY DEF ClipJobsKnow, Names
    <2>0. /\ \/ "clipJob" \in left[id]
             \/ /\ Names(id, job.for)
                /\ job.at # "queued" => job.frame = job.for \/ OldBoard(id)
          /\ job.at = "written" => clips[id] = [of |-> job.for, from |-> job.frame]
      BY <1>1, <1>2 DEF ClipsInv, ClipJobsKnow
    <2>1. CASE id = gone
      BY <1>2, <1>10, <2>0, <2>1
    <2>2. CASE id # gone
      <3>1. Names(id, job.for) => Names(id, job.for)'
        BY <1>9, <2>2
      <3> QED BY <1>2, <1>6, <2>0, <2>2, <3>1 DEF OldBoard
    <2> QED BY <2>1, <2>2
  <1>17. MarksInv'
    <2>1. Believed
      BY <1>2 DEF Believed
    <2> QED BY <1>1, <1>2, <1>11, <2>1, MarksKnown
  <1>18. FileShapes' /\ JobShapes' /\ GridShape' /\ ToolShapes'
    BY <1>1, <1>2, <1>6 DEF FileShapes, JobShapes, GridShape, ToolShapes, GridStates, ClipStates,
                            JobStates, MaxBorn, ToolStates
  <1> QED BY <1>3, <1>12, <1>13, <1>14, <1>15, <1>16, <1>17, <1>18
          DEF ShotsInv, ShotShapes, BoardsInv, ClipsInv

-----------------------------------------------------------------------------
(* The ends of tasks.                                                      *)

LEMMA SameShots ==
  ScriptShape /\ shots' = shots /\ left' = left =>
      NamesStay /\ MarksStay /\ LeftStays /\ OldBoards /\ OldClips
  <1> SUFFICES ASSUME ScriptShape, shots' = shots, left' = left
               PROVE  NamesStay /\ MarksStay /\ LeftStays /\ OldBoards /\ OldClips
    OBVIOUS
  <1>1. Script' = Script
    BY DEF Script
  <1>2. \A s \in Script : s.id \in ShotIds
    BY ScriptShots DEF Shot
  <1> QED BY <1>1, <1>2 DEF NamesStay, MarksStay, LeftStays, OldBoards, OldClips, Names, Marked

\* A clip that a batch counts is marked by then.
LEMMA HeardKeeps ==
  ASSUME MarksInv, ToolShapes, MarksStay, NEW k \in AssetKinds \X ShotIds, NEW ok \in BOOLEAN,
         Heard(k, ok), ok /\ k[1] = "clip" => Marked(k[2])', reported' = reported
  PROVE  MarksInv'
  <1>1. tool \in ToolStates /\ (checkpoint # NoCheckpoint => checkpoint \subseteq ShotIds)
    BY DEF ToolShapes
  <1>2. CASE k \notin tool.waits
    <2>1. Believed
      BY <1>2 DEF Heard, Believed
    <2> QED BY <2>1, MarksKnown
  <1>3. CASE k \in tool.waits
    <2> DEFINE d == IF ok THEN tool.done \cup {k[2]} ELSE tool.done
               f == tool.failed \/ ~ok
               w == tool.waits \ {k}
    <2>1. /\ tool' = [tool EXCEPT !.waits = w, !.failed = f, !.done = d]
          /\ checkpoint' = IF ok /\ tool.kind = "episode" THEN tool.done \cup {k[2]} ELSE checkpoint
      BY <1>3 DEF Heard
    <2>2. /\ tool'.kind = tool.kind /\ tool'.waits = w /\ tool'.failed = f
          /\ tool'.done = d /\ tool'.counted = tool.counted
      <3> HIDE DEF d, f, w
      <3> QED BY <1>1, <2>1 DEF ToolStates
    <2>3. /\ tool.kind \in {"all", "episode"} => \A j \in tool.waits : j[1] = "clip"
          /\ tool.kind = "episode" => \A id \in tool.done : Marked(id)
          /\ tool.kind \in {"all", "episode"} /\ ~tool.failed =>
                \A c \in tool.counted : <<"clip", c[1]>> \in tool.waits \/ Marked(c[1])
      BY DEF MarksInv, ToolKnows
    <2>4. /\ tool.done \subseteq ShotIds
          /\ \A c \in tool.counted \cup reported : c[1] \in ShotIds
      BY <1>1 DEF ToolShapes, ToolStates, Claim
    <2>5. tool.kind \in {"all", "episode"} /\ ok => k = <<"clip", k[2]>> /\ Marked(k[2])'
      BY <1>3, <2>3 DEF AssetKinds
    <2>6. tool.kind = "episode" => \A id \in tool.done : Marked(id)'
      BY <2>3, <2>4 DEF MarksStay
    <2>7. tool.kind = "episode" => \A id \in d : Marked(id)'
      BY <2>5, <2>6
    <2>8. ASSUME tool.kind \in {"all", "episode"}, ~f, NEW c \in tool.counted
          PROVE  <<"clip", c[1]>> \in w \/ Marked(c[1])'
      <3>1. ~tool.failed /\ ok
        BY <2>8, Zenon
      <3>2. CASE <<"clip", c[1]>> \in tool.waits
        <4>1. CASE k = <<"clip", c[1]>>
          BY <2>5, <2>8, <3>1, <4>1
        <4> QED BY <3>2, <4>1
      <3>3. CASE Marked(c[1])
        BY <2>4, <3>3 DEF MarksStay
      <3> QED BY <2>3, <2>8, <3>1, <3>2, <3>3
    <2>9. ToolKnows'
      <3>1. tool'.kind \in {"all", "episode"} => \A j \in tool'.waits : j[1] = "clip"
        BY <2>2, <2>3
      <3>2. tool'.kind = "episode" => \A id \in tool'.done : Marked(id)'
        <4> HIDE DEF d
        <4> QED BY <2>2, <2>7
      <3>3. tool'.kind \in {"all", "episode"} /\ ~tool'.failed =>
              \A c \in tool'.counted : <<"clip", c[1]>> \in tool'.waits \/ Marked(c[1])'
        <4> HIDE DEF f, w
        <4> QED BY <2>2, <2>8
      <3> QED BY <3>1, <3>2, <3>3 DEF ToolKnows
    <2>10. CheckpointKnows'
      <3>1. CASE ok /\ tool.kind = "episode"
        <4>1. checkpoint' = tool.done \cup {k[2]}
          BY <2>1, <3>1, Zenon
        <4>2. \A id \in tool.done \cup {k[2]} : Marked(id)'
          BY <2>5, <2>6, <3>1
        <4> QED BY <4>1, <4>2 DEF CheckpointKnows
      <3>2. CASE ~(ok /\ tool.kind = "episode")
        <4>1. checkpoint' = checkpoint
          BY <2>1, <3>2, Zenon
        <4>2. checkpoint # NoCheckpoint => \A id \in checkpoint : Marked(id)'
          BY <1>1 DEF MarksInv, CheckpointKnows, MarksStay
        <4> QED BY <4>1, <4>2 DEF CheckpointKnows
      <3> QED BY <3>1, <3>2
    <2>11. ReportsKnow'
      <3>1. \A c \in reported : Marked(c[1])'
        BY <2>4 DEF MarksInv, ReportsKnow, MarksStay
      <3> QED BY <3>1 DEF ReportsKnow
    <2> QED BY <2>9, <2>10, <2>11 DEF MarksInv
  <1> QED BY <1>2, <1>3

\* The end of a task leaves the files, and the shots are what they were or have
\* taken its file over.
LEMMA EndedKeeps ==
  ASSUME ShotsInv, NEW k \in AssetKinds \X ShotIds, NEW ok \in BOOLEAN, EndJob(k, ok),
         UNCHANGED <<boards, clips, grid, born, left, reported>>, ScriptShape',
         NamesStay, MarksStay, OldBoards \/ BoardsBelong', OldClips \/ ClipsBelong',
         ok /\ k[1] = "clip" => Marked(k[2])'
  PROVE  ShotsInv'
  <1>1. ScriptShape /\ FileShapes /\ JobShapes /\ GridShape /\ ToolShapes
        /\ BoardsInv /\ ClipsInv /\ MarksInv
    BY DEF ShotsInv, ShotShapes
  <1>2. /\ JobShapes' /\ ToolShapes' /\ assetJobs'[k] = NoJob
        /\ \A j \in AssetKinds \X ShotIds : j # k => assetJobs'[j] = assetJobs[j]
    BY <1>1, EndKeepsShapes
  <1>3. FileShapes' /\ GridShape'
    BY <1>1 DEF FileShapes, GridShape, GridStates, ClipStates, MaxBorn
  <1>4. JobsStay("board") /\ JobsStay("clip")
    BY <1>2 DEF JobsStay, AssetKinds
  <1>5. LeftStays /\ GridStays
    BY DEF LeftStays, GridStays
  <1>6. BoardsInv'
    BY <1>1, <1>4, <1>5, BoardsStay
  <1>7. ClipsInv'
    BY <1>1, <1>4, <1>5, ClipsStay
  <1>8. MarksInv'
    <2>1. Heard(k, ok)
      BY DEF EndJob
    <2> QED BY <1>1, <2>1, HeardKeeps
  <1> QED BY <1>2, <1>3, <1>6, <1>7, <1>8 DEF ShotsInv, ShotShapes

LEMMA FailureKeeps ==
  ASSUME ShotsInv, NEW k \in AssetKinds \X ShotIds, EndJob(k, FALSE), Quiet,
         UNCHANGED <<shots, boards, clips, grid, born, left, reported>>
  PROVE  ShotsInv'
  <1>1. ScriptShape /\ ScriptShape'
    BY SameScript DEF ShotsInv, ShotShapes
  <1>2. NamesStay /\ MarksStay /\ OldBoards /\ OldClips
    BY <1>1, SameShots
  <1> QED BY <1>1, <1>2, EndedKeeps

-----------------------------------------------------------------------------
(* The executors of the tasks.                                             *)

\* Of the shapes only the jobs are new.
OthersSame == UNCHANGED <<shots, grid, tool, checkpoint, born, left, reported, counts>>

LEMMA OtherShapes ==
  ASSUME ShotShapes, OthersSame
  PROVE  ScriptShape' /\ GridShape' /\ ToolShapes'
  <1>1. ScriptShape'
    BY SameScript DEF OthersSame, Quiet, ShotShapes
  <1> QED BY <1>1 DEF OthersSame, ShotShapes, GridShape, ToolShapes, GridStates, MaxBorn, ToolStates

LEMMA KeptAside ==
  ASSUME ShotsInv, OthersSame
  PROVE  /\ NamesStay /\ MarksStay /\ LeftStays /\ OldBoards /\ OldClips /\ GridStays
         /\ MarksInv'
  <1>1. NamesStay /\ MarksStay /\ LeftStays /\ OldBoards /\ OldClips
    BY SameShots DEF OthersSame, ShotsInv, ShotShapes
  <1>2. GridStays /\ Believed
    BY DEF OthersSame, GridStays, Believed
  <1>3. MarksInv'
    BY <1>1, <1>2, MarksKnown DEF ShotsInv, ShotShapes, OthersSame
  <1> QED BY <1>1, <1>2, <1>3

\* The task k comes to the point p, a clip with the frame f.
LEMMA JobMoves ==
  ASSUME JobShapes, NEW k \in AssetKinds \X ShotIds, Active(k),
         NEW f \in 0..MaxBorn, NEW p \in {"running", "written"}, k[1] = "clip" => f # 0,
         \/ f = assetJobs[k].frame /\ assetJobs' = [assetJobs EXCEPT ![k].at = p]
         \/ assetJobs' = [assetJobs EXCEPT ![k].at = p, ![k].frame = f]
  PROVE  /\ JobShapes'
         /\ assetJobs[k].for \in 0..MaxBorn
         /\ assetJobs'[k] = [for |-> assetJobs[k].for, frame |-> f, at |-> p]
         /\ \A j \in AssetKinds \X ShotIds : j # k => assetJobs'[j] = assetJobs[j]
  <1>1. assetJobs \in [AssetKinds \X ShotIds -> JobStates] /\ assetJobs[k] \in JobStates \ {NoJob}
    BY DEF JobShapes, Active
  <1>2. assetJobs[k] \in [for : 0..MaxBorn, frame : 0..MaxBorn, at : {"queued", "running", "written"}]
    BY <1>1 DEF JobStates
  <1> DEFINE job == [for |-> assetJobs[k].for, frame |-> f, at |-> p]
  <1>3. assetJobs[k].for \in 0..MaxBorn
    BY <1>2
  <1>4. assetJobs' = [assetJobs EXCEPT ![k] = job]
    <2>1. CASE f = assetJobs[k].frame /\ assetJobs' = [assetJobs EXCEPT ![k].at = p]
      <3>1. [assetJobs[k] EXCEPT !.at = p] = job
        BY <1>2, <2>1
      <3> QED BY <2>1, <3>1
    <2>2. CASE assetJobs' = [assetJobs EXCEPT ![k].at = p, ![k].frame = f]
      <3>1. [[assetJobs[k] EXCEPT !.at = p] EXCEPT !.frame = f] = job
        <4> DEFINE u == [for |-> assetJobs[k].for, frame |-> assetJobs[k].frame, at |-> p]
        <4>1. [assetJobs[k] EXCEPT !.at = p] = u
          BY <1>2
        <4>2. [u EXCEPT !.frame = f] = job
          OBVIOUS
        <4> QED BY <4>1, <4>2, Zenon
      <3>2. assetJobs' = [assetJobs EXCEPT ![k] = [[assetJobs[k] EXCEPT !.at = p] EXCEPT !.frame = f]]
        BY <1>1, <2>2
      <3> QED BY <3>1, <3>2
    <2> QED BY <2>1, <2>2
  <1>5. job \in JobStates /\ job.frame = f
    BY <1>3 DEF JobStates
  <1> HIDE DEF job
  <1>6. /\ assetJobs' \in [AssetKinds \X ShotIds -> JobStates] /\ assetJobs'[k] = job
        /\ \A j \in AssetKinds \X ShotIds : j # k => assetJobs'[j] = assetJobs[j]
    BY <1>1, <1>4, <1>5
  <1>7. JobShapes'
    <2> SUFFICES ASSUME NEW id \in ShotIds, assetJobs'[<<"clip", id>>] # NoJob,
                        assetJobs'[<<"clip", id>>].at # "queued"
                 PROVE  assetJobs'[<<"clip", id>>].frame # 0
      BY <1>6, Zenon DEF JobShapes
    <2>0. <<"clip", id>> \in AssetKinds \X ShotIds
      BY DEF AssetKinds
    <2>1. CASE k = <<"clip", id>>
      BY <1>5, <1>6, <2>1
    <2>2. CASE k # <<"clip", id>>
      <3>1. assetJobs'[<<"clip", id>>] = assetJobs[<<"clip", id>>]
        BY <1>6, <2>0, <2>2
      <3> QED BY <3>1 DEF JobShapes
    <2> QED BY <2>1, <2>2
  <1> QED BY <1>3, <1>6, <1>7 DEF job

\* A board is for the shot that has its id, as it was when the task was asked.
LEMMA StartBoardKeeps ==
  ASSUME ShotsInv, NEW id \in ShotIds, StartBoard(id)
  PROVE  ShotsInv'
  <1> DEFINE k == <<"board", id>>
  <1>1. k \in AssetKinds \X ShotIds /\ k[1] = "board"
    BY DEF AssetKinds
  <1>2. /\ Active(k) /\ assetJobs[k].at = "queued"
        /\ UNCHANGED <<shots, boards, clips, grid, born, left, reported, counts>>
    BY DEF StartBoard, JobAt
  <1>3. CASE ~InScript(id)
    <2>1. EndJob(k, FALSE)
      BY <1>3, Zenon DEF StartBoard
    <2>2. Quiet
      BY <1>2 DEF Quiet
    <2> HIDE DEF k
    <2> QED BY <1>1, <1>2, <2>1, <2>2, FailureKeeps
  <1>4. CASE InScript(id)
    <2>1. assetJobs' = [assetJobs EXCEPT ![k].at = "running"] /\ OthersSame
      BY <1>2, <1>4 DEF StartBoard, OthersSame
    <2> DEFINE f == assetJobs[k].frame
    <2> HIDE DEF k
    <2>2. f \in 0..MaxBorn
      BY <1>1, <1>2 DEF ShotsInv, ShotShapes, JobShapes, JobStates, Active
    <2>3. /\ JobShapes' /\ assetJobs[k].for \in 0..MaxBorn
          /\ assetJobs'[k] = [for |-> assetJobs[k].for, frame |-> f, at |-> "running"]
          /\ \A j \in AssetKinds \X ShotIds : j # k => assetJobs'[j] = assetJobs[j]
      BY <1>1, <1>2, <2>1, <2>2, JobMoves DEF ShotsInv, ShotShapes
    <2>4. NamesStay /\ LeftStays /\ OldBoards /\ OldClips /\ GridStays /\ MarksInv'
      BY <2>1, KeptAside
    <2>5. JobsStay("clip")
      BY <1>1, <2>3 DEF JobsStay, AssetKinds
    <2>6. ClipsInv'
      BY <1>2, <2>4, <2>5, ClipsStay DEF ShotsInv
    <2>7. BoardJobsKnow'
      <3> SUFFICES ASSUME NEW i \in ShotIds, NEW job, job = assetJobs'[<<"board", i>>], job # NoJob
                   PROVE  \/ "boardJob" \in left'[i]
                          \/ Names(i, job.for)' /\ (job.at = "written" => boards'[i] = job.for)
        BY DEF BoardJobsKnow, Names
      <3>1. <<"board", i>> \in AssetKinds \X ShotIds
        BY DEF AssetKinds
      <3>2. /\ assetJobs[<<"board", i>>] # NoJob /\ assetJobs[<<"board", i>>].for = job.for
            /\ job.at = "written" => assetJobs[<<"board", i>>].at = "written"
        <4>1. CASE <<"board", i>> = k
          BY <1>2, <2>3, <4>1 DEF Active
        <4>2. CASE <<"board", i>> # k
          BY <2>3, <3>1, <4>2
        <4> QED BY <4>1, <4>2
      <3>3. \/ "boardJob" \in left[i]
            \/ Names(i, job.for) /\ (job.at = "written" => boards[i] = job.for)
        BY <3>2 DEF ShotsInv, BoardsInv, BoardJobsKnow
      <3>4. Names(i, job.for) => Names(i, job.for)'
        BY <2>4 DEF NamesStay
      <3> QED BY <1>2, <3>3, <3>4
    <2>8. BoardsInv'
      <3>1. (BoardsBelong /\ CellsKnow /\ DiskKnows)'
        BY <1>2 DEF ShotsInv, BoardsInv, BoardsBelong, CellsKnow, DiskKnows, OldBoard, Names, Script
      <3> QED BY <2>7, <3>1 DEF BoardsInv
    <2>9. FileShapes'
      BY <1>2 DEF ShotsInv, ShotShapes, FileShapes, ClipStates, MaxBorn
    <2>10. (ScriptShape /\ GridShape /\ ToolShapes)'
      BY <2>1, OtherShapes DEF ShotsInv
    <2> QED BY <2>3, <2>4, <2>6, <2>8, <2>9, <2>10 DEF ShotsInv, ShotShapes
  <1> QED BY <1>3, <1>4

LEMMA StartClipKeeps ==
  ASSUME ShotsInv, NEW id \in ShotIds, StartClip(id)
  PROVE  ShotsInv'
  <1> DEFINE k == <<"clip", id>>
             f == boards[id]
  <1>1. k \in AssetKinds \X ShotIds /\ k[1] = "clip" /\ k[2] = id
    BY DEF AssetKinds
  <1>2. /\ Active(k) /\ assetJobs[k].at = "queued"
        /\ UNCHANGED <<shots, boards, clips, grid, born, left, reported, counts>>
    BY DEF StartClip, JobAt
  <1>3. CASE f = 0
    <2>1. EndJob(k, FALSE)
      BY <1>3, Zenon DEF StartClip
    <2>2. Quiet
      BY <1>2 DEF Quiet
    <2> HIDE DEF k
    <2> QED BY <1>1, <1>2, <2>1, <2>2, FailureKeeps
  <1>4. CASE f # 0
    <2>1. /\ assetJobs' = [assetJobs EXCEPT ![k].at = "running", ![k].frame = f]
          /\ OthersSame
      BY <1>2, <1>4 DEF StartClip, OthersSame
    <2>2. f \in 0..MaxBorn
      BY DEF ShotsInv, ShotShapes, FileShapes
    <2> HIDE DEF k, f
    <2>3. /\ JobShapes' /\ assetJobs[k].for \in 0..MaxBorn
          /\ assetJobs'[k] = [for |-> assetJobs[k].for, frame |-> f, at |-> "running"]
          /\ \A j \in AssetKinds \X ShotIds : j # k => assetJobs'[j] = assetJobs[j]
      BY <1>1, <1>2, <1>4, <2>1, <2>2, JobMoves DEF ShotsInv, ShotShapes
    <2>4. NamesStay /\ LeftStays /\ OldBoards /\ OldClips /\ GridStays /\ MarksInv'
      BY <2>1, KeptAside
    <2>5. JobsStay("board")
      BY <1>1, <2>3 DEF JobsStay, AssetKinds
    <2>6. BoardsInv'
      BY <1>2, <2>4, <2>5, BoardsStay DEF ShotsInv, ShotShapes
    <2>7. ASSUME NEW n, Names(id, n) PROVE f = n \/ OldBoard(id)
      <3>1. OldBoard(id) \/ Names(id, f)
        BY <1>4 DEF f, ShotsInv, BoardsInv, DiskKnows
      <3> QED BY <2>7, <3>1, NamesOne DEF ShotsInv, ShotShapes
    <2>8. ClipJobsKnow'
      <3> SUFFICES ASSUME NEW i \in ShotIds, NEW job, job = assetJobs'[<<"clip", i>>], job # NoJob
                   PROVE  /\ \/ "clipJob" \in left'[i]
                             \/ /\ Names(i, job.for)'
                                /\ job.at # "queued" => job.frame = job.for \/ OldBoard(i)'
                          /\ job.at = "written" => clips'[i] = [of |-> job.for, from |-> job.frame]
        BY DEF ClipJobsKnow, Names
      <3>1. <<"clip", i>> \in AssetKinds \X ShotIds
        BY DEF AssetKinds
      <3>2. OldBoard(i) => OldBoard(i)'
        BY <1>2 DEF OldBoard
      <3>3. CASE i = id
        <4>1. k = <<"clip", i>> /\ job.for = assetJobs[k].for /\ job.frame = f /\ job.at = "running"
          BY <2>3, <3>3 DEF k
        <4>2. "clipJob" \in left[i] \/ Names(i, job.for)
          BY <1>2, <4>1 DEF ShotsInv, ClipsInv, ClipJobsKnow, Active
        <4>3. Names(i, job.for) => Names(i, job.for)'
          BY <2>4 DEF NamesStay
        <4>4. Names(i, job.for) => job.frame = job.for \/ OldBoard(i)
          BY <2>7, <3>3, <4>1
        <4> QED BY <1>2, <3>2, <4>1, <4>2, <4>3, <4>4
      <3>4. CASE i # id
        <4>1. job = assetJobs[<<"clip", i>>]
          BY <2>3, <3>1, <3>4 DEF k
        <4>2. /\ \/ "clipJob" \in left[i]
                 \/ /\ Names(i, job.for)
                    /\ job.at # "queued" => job.frame = job.for \/ OldBoard(i)
              /\ job.at = "written" => clips[i] = [of |-> job.for, from |-> job.frame]
          BY <4>1 DEF ShotsInv, ClipsInv, ClipJobsKnow
        <4>3. Names(i, job.for) => Names(i, job.for)'
          BY <2>4 DEF NamesStay
        <4> QED BY <1>2, <3>2, <4>2, <4>3
      <3> QED BY <3>3, <3>4
    <2>9. ClipsInv'
      <3>1. ClipsBelong'
        BY <1>2 DEF ShotsInv, ClipsInv, ClipsBelong
      <3> QED BY <2>8, <3>1 DEF ClipsInv
    <2>10. FileShapes'
      BY <1>2 DEF ShotsInv, ShotShapes, FileShapes, ClipStates, MaxBorn
    <2>11. (ScriptShape /\ GridShape /\ ToolShapes)'
      BY <2>1, OtherShapes DEF ShotsInv
    <2> QED BY <2>3, <2>4, <2>6, <2>9, <2>10, <2>11 DEF ShotsInv, ShotShapes
  <1> QED BY <1>3, <1>4

LEMMA WriteKeeps ==
  ASSUME ShotsInv, NEW k \in AssetKinds \X ShotIds, WriteFile(k)
  PROVE  ShotsInv'
  <1> DEFINE id == k[2]
             n == assetJobs[k].for
             f == assetJobs[k].frame
  <1>1. /\ Active(k) /\ assetJobs[k].at = "running" /\ OthersSame
        /\ assetJobs' = [assetJobs EXCEPT ![k].at = "written"]
    BY DEF WriteFile, JobAt, OthersSame
  <1>2. id \in ShotIds /\ k = <<k[1], id>> /\ k[1] \in AssetKinds
    OBVIOUS
  <1>3. n \in 0..MaxBorn /\ f \in 0..MaxBorn /\ (k[1] = "clip" => f # 0)
    <2>1. assetJobs[k] \in JobStates \ {NoJob}
      BY <1>1 DEF ShotsInv, ShotShapes, JobShapes, Active
    <2>2. k[1] = "clip" => f # 0
      BY <1>1, <1>2 DEF ShotsInv, ShotShapes, JobShapes, Active
    <2> QED BY <2>1, <2>2 DEF JobStates
  <1>4. /\ JobShapes'
        /\ assetJobs'[k] = [for |-> n, frame |-> f, at |-> "written"]
        /\ \A j \in AssetKinds \X ShotIds : j # k => assetJobs'[j] = assetJobs[j]
    BY <1>1, <1>3, JobMoves DEF ShotsInv, ShotShapes
  <1>5. NamesStay /\ LeftStays /\ OldBoards /\ OldClips /\ GridStays /\ MarksInv'
    BY <1>1, KeptAside
  <1>6. (ScriptShape /\ GridShape /\ ToolShapes)'
    BY <1>1, OtherShapes DEF ShotsInv
  <1>7. shots' = shots /\ grid' = grid /\ left' = left
    BY <1>1 DEF OthersSame
  <1>8. /\ ScriptShape /\ \A s \in Script : Names(s.id, s.born)
        /\ \A i, m : Names(i, m) <=> Names(i, m)'
    BY <1>7 DEF ShotsInv, ShotShapes, Names, Script
  <1>9. CASE k[1] = "board"
    <2>1. boards' = [boards EXCEPT ![id] = n] /\ clips' = clips
      BY <1>9 DEF WriteFile
    <2>2. boards \in [ShotIds -> 0..MaxBorn] /\ clips \in [ShotIds -> ClipStates]
          /\ left \in [ShotIds -> SUBSET Remnants]
      BY DEF ShotsInv, ShotShapes, FileShapes
    <2>3. k = <<"board", id>>
      BY <1>2, <1>9
    <2> HIDE DEF id, n, f
    <2>4. /\ boards' \in [ShotIds -> 0..MaxBorn] /\ boards'[id] = n
          /\ \A i \in ShotIds : i # id => boards'[i] = boards[i]
      BY <1>2, <1>3, <2>1, <2>2
    <2>5. "boardJob" \in left[id] \/ Names(id, n)
      BY <1>1, <1>2, <2>3 DEF ShotsInv, BoardsInv, BoardJobsKnow, n, Active
    <2>6. \A m : Names(id, m) /\ Names(id, n) => m = n
      BY <1>8, NamesOne
    <2>7. BoardsBelong'
      <3> SUFFICES ASSUME NEW s \in Script, s.board
                   PROVE  boards'[s.id] = s.born \/ "boardJob" \in left[s.id]
        BY <1>7 DEF BoardsBelong, Script
      <3>1. s.id \in ShotIds
        BY <1>8, ScriptShots DEF Shot
      <3>2. CASE s.id = id
        BY <1>8, <2>4, <2>5, <2>6, <3>2
      <3>3. CASE s.id # id
        <4>1. boards[s.id] = s.born \/ "boardJob" \in left[s.id]
          BY DEF ShotsInv, BoardsInv, BoardsBelong, Script
        <4> QED BY <2>4, <3>1, <3>3, <4>1
      <3> QED BY <3>2, <3>3
    <2>8. BoardJobsKnow'
      <3> SUFFICES ASSUME NEW i \in ShotIds, NEW job, job = assetJobs'[<<"board", i>>], job # NoJob
                   PROVE  \/ "boardJob" \in left'[i]
                          \/ Names(i, job.for)' /\ (job.at = "written" => boards'[i] = job.for)
        BY DEF BoardJobsKnow, Names
      <3>1. <<"board", i>> \in AssetKinds \X ShotIds
        BY DEF AssetKinds
      <3>2. CASE i = id
        <4>1. job.for = n
          BY <1>4, <2>3, <3>2
        <4> QED BY <1>7, <1>8, <2>4, <2>5, <3>2, <4>1
      <3>3. CASE i # id
        <4>1. job = assetJobs[<<"board", i>>]
          BY <1>4, <2>3, <3>1, <3>3
        <4>2. \/ "boardJob" \in left[i]
              \/ Names(i, job.for) /\ (job.at = "written" => boards[i] = job.for)
          BY <4>1 DEF ShotsInv, BoardsInv, BoardJobsKnow
        <4> QED BY <1>7, <1>8, <2>4, <3>3, <4>2
      <3> QED BY <3>2, <3>3
    <2>9. CellsKnow'
      <3> SUFFICES ASSUME NEW c \in grid.cells
                   PROVE  \/ "boardJob" \in left[c[1]]
                          \/ Names(c[1], c[2])' /\ (c \in grid.hit => boards'[c[1]] = c[2])
        BY <1>7 DEF CellsKnow
      <3>1. c[1] \in ShotIds
        BY CellIds DEF ShotsInv, ShotShapes
      <3>2. \/ "boardJob" \in left[c[1]]
            \/ Names(c[1], c[2]) /\ (c \in grid.hit => boards[c[1]] = c[2])
        BY DEF ShotsInv, BoardsInv, CellsKnow
      <3>3. CASE c[1] = id
        BY <1>8, <2>4, <2>5, <2>6, <3>2, <3>3
      <3>4. CASE c[1] # id
        BY <1>8, <2>4, <3>1, <3>2, <3>4
      <3> QED BY <3>3, <3>4
    <2>10. DiskKnows'
      <3> SUFFICES ASSUME NEW i \in ShotIds, NEW m, m = boards'[i], m # 0
                   PROVE  OldBoard(i)' \/ Names(i, m)'
        BY DEF DiskKnows, Names
      <3>1. CASE i = id
        BY <1>7, <1>8, <2>4, <2>5, <3>1 DEF OldBoard
      <3>2. CASE i # id
        <4>1. OldBoard(i) \/ Names(i, m)
          BY <2>4, <3>2 DEF ShotsInv, BoardsInv, DiskKnows
        <4> QED BY <1>7, <1>8, <4>1 DEF OldBoard
      <3> QED BY <3>1, <3>2
    <2>11. BoardsInv'
      BY <2>7, <2>8, <2>9, <2>10 DEF BoardsInv
    <2>12. JobsStay("clip")
      BY <1>4, <2>3 DEF JobsStay, AssetKinds
    <2>13. ClipsInv'
      BY <1>5, <2>1, <2>12, ClipsStay DEF ShotsInv
    <2>14. FileShapes'
      BY <1>7, <2>1, <2>2, <2>4 DEF FileShapes, ClipStates, MaxBorn
    <2> QED BY <1>4, <1>5, <1>6, <2>11, <2>13, <2>14 DEF ShotsInv, ShotShapes
  <1>10. CASE k[1] = "clip"
    <2> DEFINE file == [of |-> n, from |-> f]
    <2>1. clips' = [clips EXCEPT ![id] = file] /\ boards' = boards
      BY <1>10 DEF WriteFile
    <2>2. boards \in [ShotIds -> 0..MaxBorn] /\ clips \in [ShotIds -> ClipStates]
          /\ left \in [ShotIds -> SUBSET Remnants]
      BY DEF ShotsInv, ShotShapes, FileShapes
    <2>3. k = <<"clip", id>>
      BY <1>2, <1>10
    <2> HIDE DEF id, n, f
    <2>4. file \in ClipStates /\ file # NoClip /\ file.of = n /\ file.from = f
      <3>1. f \in 1..MaxBorn /\ MaxBorn \in Nat
        <4>1. MaxBorn \in Nat
          BY ShotsAssumption DEF MaxBorn
        <4> HIDE DEF MaxBorn
        <4> QED BY <1>3, <1>10, <4>1
      <3> HIDE DEF MaxBorn
      <3>2. file \in [of : Nat, from : Nat]
        BY <1>3, <3>1
      <3>3. file # NoClip
        BY <3>2, ShotsAssumption
      <3> QED BY <1>3, <3>1, <3>3 DEF ClipStates
    <2> HIDE DEF file
    <2>5. /\ clips' \in [ShotIds -> ClipStates] /\ clips'[id] = file
          /\ \A i \in ShotIds : i # id => clips'[i] = clips[i]
      BY <1>2, <2>1, <2>2, <2>4
    <2>6. \/ "clipJob" \in left[id]
          \/ Names(id, n) /\ (f = n \/ OldBoard(id))
      BY <1>1, <1>2, <2>3 DEF ShotsInv, ClipsInv, ClipJobsKnow, n, f, Active
    <2>7. \A m : Names(id, m) /\ Names(id, n) => m = n
      BY <1>8, NamesOne
    <2>8. ClipsBelong'
      <3> SUFFICES ASSUME NEW s \in Script, s.clip
                   PROVE  /\ clips'[s.id] # NoClip
                          /\ clips'[s.id].of = s.born \/ "clipJob" \in left[s.id]
                          /\ \/ clips'[s.id].from = s.born
                             \/ left[s.id] \cap {"board", "boardJob", "clipJob"} # {}
        BY <1>7 DEF ClipsBelong, Script
      <3>1. s.id \in ShotIds
        BY <1>8, ScriptShots DEF Shot
      <3>2. CASE s.id = id
        <4>1. Names(id, n) => s.born = n
          BY <1>8, <2>7, <3>2
        <4> QED BY <2>4, <2>5, <2>6, <3>2, <4>1 DEF OldBoard
      <3>3. CASE s.id # id
        <4>1. /\ clips[s.id] # NoClip
              /\ clips[s.id].of = s.born \/ "clipJob" \in left[s.id]
              /\ \/ clips[s.id].from = s.born
                 \/ left[s.id] \cap {"board", "boardJob", "clipJob"} # {}
          BY DEF ShotsInv, ClipsInv, ClipsBelong, Script
        <4> QED BY <2>5, <3>1, <3>3, <4>1
      <3> QED BY <3>2, <3>3
    <2>9. ClipJobsKnow'
      <3> SUFFICES ASSUME NEW i \in ShotIds, NEW job, job = assetJobs'[<<"clip", i>>], job # NoJob
                   PROVE  /\ \/ "clipJob" \in left'[i]
                             \/ /\ Names(i, job.for)'
                                /\ job.at # "queued" => job.frame = job.for \/ OldBoard(i)'
                          /\ job.at = "written" => clips'[i] = [of |-> job.for, from |-> job.frame]
        BY DEF ClipJobsKnow, Names
      <3>1. <<"clip", i>> \in AssetKinds \X ShotIds /\ (OldBoard(i) => OldBoard(i)')
        BY <1>7 DEF AssetKinds, OldBoard
      <3>2. CASE i = id
        <4>1. job.for = n /\ job.frame = f
          BY <1>4, <2>3, <3>2
        <4>2. clips'[i] = [of |-> job.for, from |-> job.frame]
          BY <2>5, <3>2, <4>1 DEF file
        <4> QED BY <1>7, <1>8, <2>6, <3>1, <3>2, <4>1, <4>2
      <3>3. CASE i # id
        <4>1. job = assetJobs[<<"clip", i>>]
          BY <1>4, <2>3, <3>1, <3>3
        <4>2. /\ \/ "clipJob" \in left[i]
                 \/ /\ Names(i, job.for)
                    /\ job.at # "queued" => job.frame = job.for \/ OldBoard(i)
              /\ job.at = "written" => clips[i] = [of |-> job.for, from |-> job.frame]
          BY <4>1 DEF ShotsInv, ClipsInv, ClipJobsKnow
        <4> QED BY <1>7, <1>8, <2>5, <3>1, <3>3, <4>2
      <3> QED BY <3>2, <3>3
    <2>10. ClipsInv'
      BY <2>8, <2>9 DEF ClipsInv
    <2>11. JobsStay("board")
      BY <1>4, <2>3 DEF JobsStay, AssetKinds
    <2>12. BoardsInv'
      BY <1>5, <2>1, <2>11, BoardsStay DEF ShotsInv, ShotShapes
    <2>13. FileShapes'
      BY <1>7, <2>1, <2>2, <2>5 DEF FileShapes, ClipStates, MaxBorn
    <2> QED BY <1>4, <1>5, <1>6, <2>10, <2>12, <2>13 DEF ShotsInv, ShotShapes
  <1> QED BY <1>2, <1>9, <1>10 DEF AssetKinds

\* An update of the script for the ids leaves the rest of it.
LEMMA TookStays ==
  ASSUME ScriptShape, NEW ids, NEW kind, shots' = Took(ids, kind), left' = left,
         born' = born, Quiet
  PROVE  /\ ScriptShape' /\ NamesStay /\ MarksStay
         /\ \A t \in Script' : t.id \in ShotIds /\ \E s \in Script : Taken(s, t, ids, kind)
         /\ \A s \in Script : \E t \in Script' : Taken(s, t, ids, kind)
         /\ IF kind = "board" THEN OldClips ELSE OldBoards
  <1>1. /\ shots' \in Seq(Shot) /\ Distinct(shots')
        /\ \A t \in Script' : \E s \in Script : Taken(s, t, ids, kind)
        /\ \A s \in Script : \E t \in Script' : Taken(s, t, ids, kind)
    BY TookTakes DEF Script
  <1>2. ScriptShape'
    BY <1>1, QuietKeepsScript
  <1>3. \A t \in Script' : t.id \in ShotIds
    BY <1>1 DEF Taken, Shot
  <1>4. NamesStay
    <2> SUFFICES ASSUME NEW id \in ShotIds, NEW n, Names(id, n) PROVE Names(id, n)'
      BY DEF NamesStay
    <2>1. PICK s \in Script : s.id = id /\ s.born = n
      BY DEF Names
    <2>2. PICK t \in Script' : Taken(s, t, ids, kind)
      BY <1>1
    <2> QED BY <2>1, <2>2 DEF Names, Taken
  <1>5. MarksStay
    <2> SUFFICES ASSUME NEW id \in ShotIds, NEW s \in Script, s.id = id, s.clip
                 PROVE  \E t \in Script' : t.id = id /\ t.clip
      BY DEF MarksStay, Marked
    <2>1. PICK t \in Script' : Taken(s, t, ids, kind)
      BY <1>1
    <2> QED BY <2>1 DEF Taken
  <1>6. CASE kind = "board"
    <2>1. OldClips
      <3> SUFFICES ASSUME NEW t \in Script', t.clip
                   PROVE  t.id \in ShotIds /\ \E r \in Script : r.clip /\ r.id = t.id /\ r.born = t.born
        BY DEF OldClips
      <3>1. PICK s \in Script : Taken(s, t, ids, kind)
        BY <1>1
      <3> QED BY <1>3, <1>6, <3>1 DEF Taken
    <2> QED BY <1>1, <1>2, <1>3, <1>4, <1>5, <1>6, <2>1
  <1>7. CASE kind # "board"
    <2>1. OldBoards
      <3> SUFFICES ASSUME NEW t \in Script', t.board
                   PROVE  t.id \in ShotIds /\ \E r \in Script : r.board /\ r.id = t.id /\ r.born = t.born
        BY DEF OldBoards
      <3>1. PICK s \in Script : Taken(s, t, ids, kind)
        BY <1>1
      <3> QED BY <1>3, <1>7, <3>1 DEF Taken
    <2> QED BY <1>1, <1>2, <1>3, <1>4, <1>5, <1>7, <2>1
  <1> QED BY <1>6, <1>7

\* The boards taken over are of their shots, or a predecessor's task made them.
LEMMA BoardsTaken ==
  ASSUME BoardsBelong, NEW ids, boards' = boards, left' = left,
         \A t \in Script' : \E s \in Script : Taken(s, t, ids, "board"),
         \A s \in Script : s.id \in ids => boards[s.id] = s.born \/ "boardJob" \in left[s.id]
  PROVE  BoardsBelong'
  <1> SUFFICES ASSUME NEW t \in Script', t.board
               PROVE  boards[t.id] = t.born \/ "boardJob" \in left[t.id]
    BY DEF BoardsBelong, Script
  <1>1. PICK s \in Script : Taken(s, t, ids, "board")
    OBVIOUS
  <1>2. s.board \/ s.id \in ids
    BY <1>1 DEF Taken
  <1>3. boards[s.id] = s.born \/ "boardJob" \in left[s.id]
    BY <1>2 DEF BoardsBelong, Script
  <1> QED BY <1>1, <1>3 DEF Taken

LEMMA RecordKeeps ==
  ASSUME ShotsInv, NEW k \in AssetKinds \X ShotIds, RecordFile(k)
  PROVE  ShotsInv'
  <1> DEFINE id == k[2]
             kind == k[1]
             ok == InScript(id)
  <1>1. /\ Active(k) /\ assetJobs[k].at = "written" /\ shots' = Took({id}, kind)
        /\ EndJob(k, ok)
        /\ UNCHANGED <<boards, clips, grid, born, left, reported, counts>>
    BY DEF RecordFile, JobAt
  <1>2. id \in ShotIds /\ k = <<kind, id>> /\ kind \in AssetKinds /\ ok \in BOOLEAN
    BY DEF InScript
  <1> HIDE DEF id, kind, ok
  <1>3. Quiet /\ ScriptShape
    BY <1>1 DEF Quiet, ShotsInv, ShotShapes
  <1>4. /\ ScriptShape' /\ NamesStay /\ MarksStay
        /\ \A t \in Script' : t.id \in ShotIds /\ \E s \in Script : Taken(s, t, {id}, kind)
        /\ \A s \in Script : \E t \in Script' : Taken(s, t, {id}, kind)
        /\ IF kind = "board" THEN OldClips ELSE OldBoards
    BY <1>1, <1>3, TookStays
  <1>5. \A s \in Script : Names(s.id, s.born)
    BY DEF Names
  <1>6. \A m, n : Names(id, m) /\ Names(id, n) => m = n
    BY <1>3, NamesOne
  <1>7. CASE kind = "board"
    <2>1. \A s \in Script : s.id \in {id} => boards[s.id] = s.born \/ "boardJob" \in left[s.id]
      <3>1. /\ k = <<"board", id>>
            /\ "boardJob" \in left[id] \/ Names(id, boards[id])
        BY <1>1, <1>2, <1>7 DEF ShotsInv, BoardsInv, BoardJobsKnow, Active
      <3> QED BY <1>5, <1>6, <3>1
    <2>2. BoardsBelong'
      BY <1>1, <1>4, <1>7, <2>1, BoardsTaken DEF ShotsInv, BoardsInv
    <2>3. OldClips /\ ~(ok /\ k[1] = "clip")
      BY <1>2, <1>4, <1>7
    <2> QED BY <1>1, <1>2, <1>4, <2>2, <2>3, EndedKeeps
  <1>8. CASE kind = "clip"
    <2>1. /\ k = <<"clip", id>> /\ clips[id] # NoClip
          /\ \/ "clipJob" \in left[id]
             \/ Names(id, clips[id].of) /\ (clips[id].from = clips[id].of \/ OldBoard(id))
      <3> DEFINE job == assetJobs[<<"clip", id>>]
      <3>1. k = <<"clip", id>> /\ job # NoJob /\ job.at = "written"
        BY <1>1, <1>2, <1>8 DEF Active
      <3>2. clips[id] = [of |-> job.for, from |-> job.frame]
            /\ (\/ "clipJob" \in left[id]
                \/ Names(id, job.for) /\ (job.frame = job.for \/ OldBoard(id)))
        BY <1>2, <3>1 DEF ShotsInv, ClipsInv, ClipJobsKnow
      <3>3. job.for \in Nat /\ job.frame \in Nat
        <4>1. job \in JobStates \ {NoJob} /\ MaxBorn \in Nat
          BY <1>2, <3>1, ShotsAssumption DEF ShotsInv, ShotShapes, JobShapes, AssetKinds, MaxBorn
        <4> HIDE DEF MaxBorn, job
        <4> QED BY <4>1 DEF JobStates
      <3> HIDE DEF job
      <3>4. clips[id] # NoClip /\ clips[id].of = job.for /\ clips[id].from = job.frame
        <4>1. [of |-> job.for, from |-> job.frame] \in [of : Nat, from : Nat]
          BY <3>3
        <4> QED BY <3>2, <4>1, ShotsAssumption
      <3> QED BY <3>1, <3>2, <3>4
    <2>2. ClipsBelong'
      <3> SUFFICES ASSUME NEW t \in Script', t.clip
                   PROVE  /\ clips[t.id] # NoClip
                          /\ clips[t.id].of = t.born \/ "clipJob" \in left[t.id]
                          /\ \/ clips[t.id].from = t.born
                             \/ left[t.id] \cap {"board", "boardJob", "clipJob"} # {}
        BY <1>1 DEF ClipsBelong, Script
      <3>1. PICK s \in Script : Taken(s, t, {id}, kind)
        BY <1>4
      <3>2. /\ s.id = t.id /\ s.born = t.born /\ (s.clip \/ s.id = id)
        BY <3>1, Zenon DEF Taken
      <3>3. CASE s.id = id
        <4>1. Names(id, clips[id].of) => clips[id].of = s.born
          BY <1>5, <1>6, <3>3
        <4> QED BY <2>1, <3>2, <3>3, <4>1 DEF OldBoard
      <3>4. CASE s.clip
        <4>1. /\ clips[s.id] # NoClip
              /\ clips[s.id].of = s.born \/ "clipJob" \in left[s.id]
              /\ \/ clips[s.id].from = s.born
                 \/ left[s.id] \cap {"board", "boardJob", "clipJob"} # {}
          BY <3>4 DEF ShotsInv, ClipsInv, ClipsBelong, Script
        <4> QED BY <3>2, <4>1
      <3> QED BY <3>2, <3>3, <3>4
    <2>3. ok => Marked(id)'
      <3> SUFFICES ASSUME ok PROVE \E t \in Script' : t.id = id /\ t.clip
        BY DEF Marked
      <3>1. PICK s \in Script : s.id = id
        BY DEF ok, InScript, Script
      <3>2. PICK t \in Script' : Taken(s, t, {id}, kind)
        BY <1>4
      <3> QED BY <1>8, <3>1, <3>2 DEF Taken
    <2>4. OldBoards /\ k[2] = id
      BY <1>2, <1>4, <1>8
    <2> QED BY <1>1, <1>2, <1>4, <2>2, <2>3, <2>4, EndedKeeps
  <1> QED BY <1>2, <1>7, <1>8 DEF AssetKinds

LEMMA FailKeeps ==
  ASSUME ShotsInv, NEW k \in AssetKinds \X ShotIds, FailJob(k)
  PROVE  ShotsInv'
  <1>1. EndJob(k, FALSE) /\ Count("fails", MaxFails)
        /\ UNCHANGED <<shots, boards, clips, grid, born, left, reported>>
    BY Zenon DEF FailJob
  <1>2. Quiet
    BY <1>1, ShotsAssumption DEF Quiet, Moves
  <1> QED BY <1>1, <1>2, FailureKeeps

-----------------------------------------------------------------------------
(* Grids.                                                                  *)

LEMMA GridStepKeeps ==
  ASSUME ShotsInv, Quiet, GridShape', NamesStay, MarksStay, ScriptShape',
         BoardsInv', OldClips \/ ClipsBelong', FileShapes',
         UNCHANGED <<clips, assetJobs, tool, checkpoint, born, left, reported>>
  PROVE  ShotsInv'
  <1>1. LeftStays /\ JobsStay("clip") /\ Believed
    BY DEF LeftStays, JobsStay, Believed
  <1>2. ClipsInv' /\ MarksInv'
    BY <1>1, ClipsStay, MarksKnown DEF ShotsInv, ShotShapes
  <1>3. JobShapes' /\ ToolShapes'
    BY DEF ShotsInv, ShotShapes, JobShapes, ToolShapes, JobStates, MaxBorn, ToolStates
  <1> QED BY <1>2, <1>3 DEF ShotsInv, ShotShapes

\* The record of the grid changes, the rest stays.
LEMMA GridPlanKeeps ==
  ASSUME ShotsInv, Quiet, GridShape',
         \A c \in grid'.cells : c \in grid.cells \/ Names(c[1], c[2]),
         grid'.hit \subseteq grid.hit, grid.hit \subseteq grid.cells,
         UNCHANGED <<shots, boards, clips, assetJobs, tool, checkpoint, born, left, reported>>
  PROVE  ShotsInv'
  <1>1. /\ ScriptShape' /\ NamesStay /\ MarksStay /\ OldClips
    BY SameScript, SameShots DEF ShotsInv, ShotShapes
  <1>2. FileShapes'
    BY DEF ShotsInv, ShotShapes, FileShapes, ClipStates, MaxBorn
  <1>3. CellsKnow'
    <2> SUFFICES ASSUME NEW c \in grid'.cells
                 PROVE  \/ "boardJob" \in left[c[1]]
                        \/ Names(c[1], c[2]) /\ (c \in grid'.hit => boards[c[1]] = c[2])
      BY DEF CellsKnow, Names, Script
    <2>1. CASE c \in grid.cells
      BY <2>1 DEF ShotsInv, BoardsInv, CellsKnow
    <2>2. CASE c \notin grid.cells
      BY <2>2
    <2> QED BY <2>1, <2>2
  <1>4. BoardsInv'
    BY <1>3 DEF ShotsInv, BoardsInv, BoardsBelong, BoardJobsKnow, DiskKnows, OldBoard, Names, Script
  <1> QED BY <1>1, <1>2, <1>4, GridStepKeeps

LEMMA PlansKeep ==
  ASSUME ShotsInv, AskGrid \/ RegenerateGrid \/ StartGrid \/ FailGrid
  PROVE  ShotsInv'
  <1>1. grid \in GridStates /\ grid.hit \subseteq grid.cells /\ ScriptShape
    BY DEF ShotsInv, ShotShapes, GridShape
  <1>2. UNCHANGED <<shots, boards, clips, assetJobs, tool, checkpoint, born, left, reported>>
    BY DEF AskGrid, RegenerateGrid, StartGrid, FailGrid
  <1>3. Quiet
    BY ShotsAssumption, Zenon DEF Quiet, Moves, AskGrid, RegenerateGrid, StartGrid, FailGrid
  <1>4. /\ GridShape' /\ grid'.hit \subseteq grid.hit
        /\ \A c \in grid'.cells : c \in grid.cells \/ Names(c[1], c[2])
    <2>1. CASE AskGrid
      <3> DEFINE cs == {<<s.id, s.born>> : s \in ToSet(shots)}
      <3>1. grid' = [cells |-> cs, job |-> "queued", hit |-> {}]
        BY <2>1 DEF AskGrid
      <3>2. cs \subseteq Claim
        <4>1. \A s \in ToSet(shots) : s.id \in ShotIds /\ s.born \in 1..MaxBorn
          BY <1>1, ScriptShots DEF Script, Shot
        <4>2. MaxBorn \in Nat
          BY ShotsAssumption DEF MaxBorn
        <4> HIDE DEF MaxBorn
        <4> QED BY <4>1, <4>2 DEF Claim
      <3>3. \A c \in cs : Names(c[1], c[2])
        BY DEF Names, Script
      <3> HIDE DEF cs
      <3> QED BY <3>1, <3>2, <3>3 DEF GridShape, GridStates, Claim, MaxBorn
    <2>2. CASE RegenerateGrid
      BY <1>1, <2>2 DEF RegenerateGrid, GridShape, GridStates, Claim, MaxBorn
    <2>3. CASE StartGrid
      BY <1>1, <2>3 DEF StartGrid, GridShape, GridStates, Claim, MaxBorn
    <2>4. CASE FailGrid
      BY <1>1, <2>4 DEF FailGrid, GridShape, GridStates, Claim, MaxBorn
    <2> QED BY <2>1, <2>2, <2>3, <2>4
  <1> QED BY <1>1, <1>2, <1>3, <1>4, GridPlanKeeps

\* A cell whose shot is there is written to the board of the shot it was for.
LEMMA CutKeeps ==
  ASSUME ShotsInv, CutGrid
  PROVE  ShotsInv'
  <1> DEFINE hit == {c \in grid.cells : InScript(c[1])}
             cut(id) == CHOOSE c \in hit : c[1] = id
  <1>1. /\ grid' = [grid EXCEPT !.job = "cut", !.hit = hit]
        /\ boards' = [id \in ShotIds |-> IF \E c \in hit : c[1] = id THEN cut(id)[2] ELSE boards[id]]
        /\ UNCHANGED <<shots, clips, assetJobs, tool, checkpoint, born, left, reported, counts>>
    BY Zenon DEF CutGrid
  <1>2. /\ grid \in GridStates /\ ScriptShape /\ boards \in [ShotIds -> 0..MaxBorn]
    BY DEF ShotsInv, ShotShapes, GridShape, FileShapes
  <1>3. \A id : (\E c \in hit : c[1] = id) => cut(id) \in hit /\ cut(id)[1] = id
    BY Zenon
  <1>4. hit \subseteq grid.cells /\ hit \subseteq Claim
    BY <1>2 DEF GridStates
  <1> HIDE DEF hit, cut
  <1>5. Quiet /\ ScriptShape' /\ NamesStay /\ MarksStay /\ OldClips
    BY <1>1, <1>2, SameScript, SameShots DEF Quiet
  <1>6. \A i, m : Names(i, m) <=> Names(i, m)'
    BY <1>1 DEF Names, Script
  <1>7. GridShape' /\ grid'.cells = grid.cells /\ grid'.hit = hit
    BY <1>1, <1>2, <1>4 DEF GridShape, GridStates, Claim, MaxBorn
  <1>8. ASSUME NEW id \in ShotIds
        PROVE  \/ boards'[id] = boards[id] /\ \A c \in hit : c[1] # id
               \/ \E n : <<id, n>> \in hit /\ boards'[id] = n
    <2>1. CASE \E c \in hit : c[1] = id
      <3>1. cut(id) = <<id, cut(id)[2]>>
        BY <1>3, <1>4, <2>1 DEF Claim
      <3>2. boards'[id] = cut(id)[2]
        BY <1>1, <2>1, Zenon
      <3> QED BY <1>3, <2>1, <3>1, <3>2
    <2>2. CASE ~ \E c \in hit : c[1] = id
      BY <1>1, <2>2
    <2> QED BY <2>1, <2>2
  <1>9. FileShapes'
    <2>1. \A id \in ShotIds : boards'[id] \in 0..MaxBorn
      BY <1>2, <1>4, <1>8 DEF Claim
    <2>2. boards' \in [ShotIds -> 0..MaxBorn]
      BY <1>1, <2>1
    <2> QED BY <1>1, <2>2 DEF ShotsInv, ShotShapes, FileShapes, ClipStates, MaxBorn
  <1>10. \A id \in ShotIds : \A n : <<id, n>> \in hit => "boardJob" \in left[id] \/ Names(id, n)
    <2> SUFFICES ASSUME NEW id \in ShotIds, NEW n, <<id, n>> \in hit
                 PROVE  "boardJob" \in left[id] \/ Names(id, n)
      OBVIOUS
    <2>1. <<id, n>> \in grid.cells /\ <<id, n>>[1] = id /\ <<id, n>>[2] = n
      BY <1>4
    <2> QED BY <2>1 DEF ShotsInv, BoardsInv, CellsKnow
  <1>11. \A id, m, n : Names(id, m) /\ Names(id, n) => m = n
    BY <1>2, NamesOne
  <1>12. BoardsBelong'
    <2> SUFFICES ASSUME NEW s \in Script, s.board
                 PROVE  boards'[s.id] = s.born \/ "boardJob" \in left[s.id]
      BY <1>1 DEF BoardsBelong, Script
    <2>1. s.id \in ShotIds /\ Names(s.id, s.born)
      BY <1>2, ScriptShots DEF Shot, Names
    <2>2. boards[s.id] = s.born \/ "boardJob" \in left[s.id]
      BY DEF ShotsInv, BoardsInv, BoardsBelong, Script
    <2>3. CASE boards'[s.id] = boards[s.id]
      BY <2>2, <2>3
    <2>4. CASE \E n : <<s.id, n>> \in hit /\ boards'[s.id] = n
      <3>1. PICK n : <<s.id, n>> \in hit /\ boards'[s.id] = n
        BY <2>4
      <3>2. "boardJob" \in left[s.id] \/ Names(s.id, n)
        BY <1>10, <2>1, <3>1, Zenon
      <3> QED BY <1>11, <2>1, <3>1, <3>2
    <2> QED BY <1>8, <2>1, <2>3, <2>4
  <1>13. BoardJobsKnow'
    <2> SUFFICES ASSUME NEW id \in ShotIds, NEW job, job = assetJobs[<<"board", id>>], job # NoJob
                 PROVE  \/ "boardJob" \in left[id]
                        \/ Names(id, job.for) /\ (job.at = "written" => boards'[id] = job.for)
      BY <1>1, ZenonT(40) DEF BoardJobsKnow, Names, Script
    <2>1. \/ "boardJob" \in left[id]
          \/ Names(id, job.for) /\ (job.at = "written" => boards[id] = job.for)
      BY DEF ShotsInv, BoardsInv, BoardJobsKnow
    <2> QED BY <1>8, <1>10, <1>11, <2>1
  <1>14. CellsKnow'
    <2> SUFFICES ASSUME NEW c \in grid.cells
                 PROVE  \/ "boardJob" \in left[c[1]]
                        \/ Names(c[1], c[2]) /\ (c \in hit => boards'[c[1]] = c[2])
      BY <1>1, <1>7 DEF CellsKnow, Names, Script
    <2>1. c[1] \in ShotIds
      BY CellIds DEF ShotsInv, ShotShapes
    <2>2. "boardJob" \in left[c[1]] \/ Names(c[1], c[2])
      BY DEF ShotsInv, BoardsInv, CellsKnow
    <2>3. CASE \A d \in hit : d[1] # c[1]
      BY <2>2, <2>3
    <2>4. CASE \E n : <<c[1], n>> \in hit /\ boards'[c[1]] = n
      <3>1. PICK n : <<c[1], n>> \in hit /\ boards'[c[1]] = n
        BY <2>4
      <3>2. "boardJob" \in left[c[1]] \/ Names(c[1], n)
        BY <1>10, <2>1, <3>1, Zenon
      <3> QED BY <1>11, <2>2, <3>1, <3>2
    <2> QED BY <1>8, <2>1, <2>3, <2>4
  <1>15. DiskKnows'
    <2> SUFFICES ASSUME NEW id \in ShotIds, NEW n, n = boards'[id], n # 0
                 PROVE  OldBoard(id) \/ Names(id, n)
      BY <1>1 DEF DiskKnows, Names, Script, OldBoard
    <2>1. n = boards[id] => OldBoard(id) \/ Names(id, n)
      BY DEF ShotsInv, BoardsInv, DiskKnows
    <2> QED BY <1>8, <1>10, <2>1 DEF OldBoard
  <1>16. BoardsInv'
    BY <1>12, <1>13, <1>14, <1>15 DEF BoardsInv
  <1> QED BY <1>1, <1>5, <1>7, <1>9, <1>16, GridStepKeeps

LEMMA GridRecordKeeps ==
  ASSUME ShotsInv, RecordGrid
  PROVE  ShotsInv'
  <1> DEFINE ids == {c[1] : c \in grid.hit}
  <1>1. /\ grid' = [grid EXCEPT !.job = "none", !.hit = {}]
        /\ shots' = shots \/ shots' = Took(ids, "board")
        /\ UNCHANGED <<boards, clips, assetJobs, tool, checkpoint, born, left, reported, counts>>
    BY DEF RecordGrid
  <1>2. grid \in GridStates /\ grid.hit \subseteq grid.cells /\ ScriptShape /\ Quiet
    BY <1>1 DEF ShotsInv, ShotShapes, GridShape, Quiet
  <1>3. GridShape' /\ grid'.cells = grid.cells /\ grid'.hit = {}
    BY <1>1, <1>2 DEF GridShape, GridStates, Claim, MaxBorn
  <1>4. \A s \in Script : s.id \in ids => boards[s.id] = s.born \/ "boardJob" \in left[s.id]
    <2> SUFFICES ASSUME NEW s \in Script, NEW c \in grid.hit, c[1] = s.id
                 PROVE  boards[s.id] = s.born \/ "boardJob" \in left[s.id]
      OBVIOUS
    <2>1. "boardJob" \in left[c[1]] \/ (Names(c[1], c[2]) /\ boards[c[1]] = c[2])
      BY <1>2 DEF ShotsInv, BoardsInv, CellsKnow
    <2>2. Names(s.id, s.born)
      BY DEF Names
    <2>3. \A m, n : Names(s.id, m) /\ Names(s.id, n) => m = n
      BY <1>2, NamesOne
    <2> QED BY <2>1, <2>2, <2>3
  <1> HIDE DEF ids
  <1>5. /\ ScriptShape' /\ NamesStay /\ MarksStay /\ OldClips /\ (OldBoards \/ BoardsBelong')
    <2>1. CASE shots' = shots
      BY <1>1, <1>2, <2>1, SameScript, SameShots
    <2>2. CASE shots' = Took(ids, "board")
      <3>1. /\ ScriptShape' /\ NamesStay /\ MarksStay
            /\ \A t \in Script' : t.id \in ShotIds /\ \E s \in Script : Taken(s, t, ids, "board")
            /\ IF "board" = "board" THEN OldClips ELSE OldBoards
        BY <1>1, <1>2, <2>2, TookStays
      <3>2. BoardsBelong'
        BY <1>1, <1>4, <3>1, BoardsTaken DEF ShotsInv, BoardsInv
      <3> QED BY <3>1, <3>2
    <2> QED BY <1>1, <2>1, <2>2
  <1>6. LeftStays /\ JobsStay("board") /\ GridStays
    BY <1>1, <1>3 DEF LeftStays, JobsStay, GridStays
  <1>7. BoardsInv'
    BY <1>1, <1>5, <1>6, BoardsStay DEF ShotsInv, ShotShapes
  <1>8. FileShapes'
    BY <1>1 DEF ShotsInv, ShotShapes, FileShapes, ClipStates, MaxBorn
  <1> QED BY <1>1, <1>2, <1>3, <1>5, <1>7, <1>8, GridStepKeeps

-----------------------------------------------------------------------------
(* Requests and batches.                                                   *)

\* What is asked for is in the script, or a clip of what has left it.
LEMMA AskedKeeps ==
  ASSUME ShotsInv, Quiet, NEW ks, assetJobs' = Enqueued(ks), LeftStays,
         left' \in [ShotIds -> SUBSET Remnants],
         \A id \in ShotIds : <<"board", id>> \in ks => InScript(id),
         \A id \in ShotIds : <<"clip", id>> \in ks => InScript(id) \/ "clipJob" \in left'[id],
         UNCHANGED <<shots, boards, clips, grid, born>>, ToolShapes',
         MarksStay => MarksInv'
  PROVE  ShotsInv'
  <1>1. ScriptShape /\ ScriptShape'
    BY SameScript DEF ShotsInv, ShotShapes
  <1>2. NamesStay /\ MarksStay /\ OldBoards /\ OldClips
    <2>1. Script' = Script /\ \A s \in Script : s.id \in ShotIds
      BY <1>1, ScriptShots DEF Script, Shot
    <2> QED BY <2>1 DEF NamesStay, MarksStay, LeftStays, OldBoards, OldClips, Names, Marked
  <1>3. /\ JobShapes'
        /\ \A k \in AssetKinds \X ShotIds :
              \/ assetJobs'[k] = assetJobs[k]
              \/ /\ k \in ks /\ ~Active(k)
                 /\ assetJobs'[k] = [for |-> BornOf(k[2]), frame |-> 0, at |-> "queued"]
    BY <1>1, EnqueuedShape DEF ShotsInv, ShotShapes
  <1>4. FileShapes' /\ GridShape'
    BY DEF ShotsInv, ShotShapes, FileShapes, GridShape, GridStates, ClipStates, MaxBorn
  <1>5. \A i, m : Names(i, m) <=> Names(i, m)'
    BY DEF Names, Script
  <1>6. \A id \in ShotIds : OldBoard(id) => OldBoard(id)'
    BY DEF OldBoard, LeftStays
  <1>7. BoardsInv'
    <2>1. BoardsBelong'
      <3> SUFFICES ASSUME NEW s \in Script, s.board
                   PROVE  boards[s.id] = s.born \/ "boardJob" \in left'[s.id]
        BY DEF BoardsBelong, Script
      <3>1. s.id \in ShotIds
        BY <1>1, ScriptShots DEF Shot
      <3>2. boards[s.id] = s.born \/ "boardJob" \in left[s.id]
        BY DEF ShotsInv, BoardsInv, BoardsBelong, Script
      <3> QED BY <3>1, <3>2 DEF LeftStays
    <2>2. BoardJobsKnow'
      <3> SUFFICES ASSUME NEW id \in ShotIds, NEW job, job = assetJobs'[<<"board", id>>], job # NoJob
                   PROVE  \/ "boardJob" \in left'[id]
                          \/ Names(id, job.for)' /\ (job.at = "written" => boards'[id] = job.for)
        BY DEF BoardJobsKnow, Names
      <3>0. <<"board", id>> \in AssetKinds \X ShotIds /\ <<"board", id>>[2] = id
        BY DEF AssetKinds
      <3>1. CASE job = assetJobs[<<"board", id>>]
        <4>1. \/ "boardJob" \in left[id]
              \/ Names(id, job.for) /\ (job.at = "written" => boards[id] = job.for)
          BY <3>1 DEF ShotsInv, BoardsInv, BoardJobsKnow
        <4> QED BY <1>5, <4>1 DEF LeftStays
      <3>2. CASE /\ <<"board", id>> \in ks
                 /\ job = [for |-> BornOf(id), frame |-> 0, at |-> "queued"]
        <4>1. Names(id, BornOf(id))
          BY <1>1, <3>2, NamesBorn
        <4>2. job.for = BornOf(id) /\ job.at = "queued"
          BY <3>2
        <4> QED BY <1>5, <4>1, <4>2
      <3> QED BY <1>3, <3>0, <3>1, <3>2
    <2>3. CellsKnow'
      <3> SUFFICES ASSUME NEW c \in grid.cells
                   PROVE  \/ "boardJob" \in left'[c[1]]
                          \/ Names(c[1], c[2]) /\ (c \in grid.hit => boards[c[1]] = c[2])
        BY DEF CellsKnow, Names, Script
      <3>1. c[1] \in ShotIds
        BY CellIds DEF ShotsInv, ShotShapes
      <3>2. \/ "boardJob" \in left[c[1]]
            \/ Names(c[1], c[2]) /\ (c \in grid.hit => boards[c[1]] = c[2])
        BY DEF ShotsInv, BoardsInv, CellsKnow
      <3> QED BY <3>1, <3>2 DEF LeftStays
    <2>4. DiskKnows'
      <3> SUFFICES ASSUME NEW id \in ShotIds, boards[id] # 0
                   PROVE  OldBoard(id)' \/ Names(id, boards[id])
        BY DEF DiskKnows, Names, Script
      <3> QED BY <1>6 DEF ShotsInv, BoardsInv, DiskKnows
    <2> QED BY <2>1, <2>2, <2>3, <2>4 DEF BoardsInv
  <1>8. ClipsInv'
    <2>1. ClipsBelong'
      <3> SUFFICES ASSUME NEW s \in Script, s.clip
                   PROVE  /\ clips[s.id] # NoClip
                          /\ clips[s.id].of = s.born \/ "clipJob" \in left'[s.id]
                          /\ \/ clips[s.id].from = s.born
                             \/ left'[s.id] \cap {"board", "boardJob", "clipJob"} # {}
        BY DEF ClipsBelong, Script
      <3>1. s.id \in ShotIds
        BY <1>1, ScriptShots DEF Shot
      <3>2. /\ clips[s.id] # NoClip
            /\ clips[s.id].of = s.born \/ "clipJob" \in left[s.id]
            /\ \/ clips[s.id].from = s.born
               \/ left[s.id] \cap {"board", "boardJob", "clipJob"} # {}
        BY DEF ShotsInv, ClipsInv, ClipsBelong, Script
      <3>3. left[s.id] \subseteq left'[s.id]
        BY <3>1 DEF LeftStays
      <3> QED BY <3>2, <3>3
    <2>2. ClipJobsKnow'
      <3> SUFFICES ASSUME NEW id \in ShotIds, NEW job, job = assetJobs'[<<"clip", id>>], job # NoJob
                   PROVE  /\ \/ "clipJob" \in left'[id]
                             \/ /\ Names(id, job.for)'
                                /\ job.at # "queued" => job.frame = job.for \/ OldBoard(id)'
                          /\ job.at = "written" => clips'[id] = [of |-> job.for, from |-> job.frame]
        BY DEF ClipJobsKnow, Names
      <3>0. <<"clip", id>> \in AssetKinds \X ShotIds /\ <<"clip", id>>[2] = id
        BY DEF AssetKinds
      <3>1. CASE job = assetJobs[<<"clip", id>>]
        <4>1. /\ \/ "clipJob" \in left[id]
                 \/ /\ Names(id, job.for)
                    /\ job.at # "queued" => job.frame = job.for \/ OldBoard(id)
              /\ job.at = "written" => clips[id] = [of |-> job.for, from |-> job.frame]
          BY <3>1 DEF ShotsInv, ClipsInv, ClipJobsKnow
        <4> QED BY <1>5, <1>6, <4>1 DEF LeftStays
      <3>2. CASE /\ <<"clip", id>> \in ks
                 /\ job = [for |-> BornOf(id), frame |-> 0, at |-> "queued"]
        <4>1. Names(id, BornOf(id)) \/ "clipJob" \in left'[id]
          BY <1>1, <3>2, NamesBorn
        <4>2. job.for = BornOf(id) /\ job.at = "queued"
          BY <3>2
        <4> QED BY <1>5, <4>1, <4>2
      <3> QED BY <1>3, <3>0, <3>1, <3>2
    <2> QED BY <2>1, <2>2 DEF ClipsInv
  <1> QED BY <1>1, <1>2, <1>3, <1>4, <1>7, <1>8 DEF ShotsInv, ShotShapes

LEMMA AsksKeep ==
  ASSUME ShotsInv, NEW id \in ShotIds, AskBoard(id) \/ AskClip(id)
  PROVE  ShotsInv'
  <1>1. Quiet /\ UNCHANGED <<shots, boards, clips, grid, born, tool, checkpoint, reported>>
    BY ShotsAssumption, Zenon DEF Quiet, Moves, AskBoard, AskClip
  <1>2. left \in [ShotIds -> SUBSET Remnants]
    BY DEF ShotsInv, ShotShapes, FileShapes
  <1>3. LeftStays /\ left' \in [ShotIds -> SUBSET Remnants]
    BY <1>2 DEF LeftStays, AskBoard, AskClip, Remnants
  <1>4. ToolShapes'
    BY <1>1 DEF ShotsInv, ShotShapes, ToolShapes, ToolStates, Claim, MaxBorn
  <1>5. MarksStay => MarksInv'
    BY <1>1, MarksKnown DEF ShotsInv, ShotShapes, Believed
  <1>6. CASE AskBoard(id)
    <2> DEFINE ks == {<<"board", id>>}
    <2>1. assetJobs' = Enqueued(ks)
      BY <1>6, Zenon DEF AskBoard
    <2>2. /\ \A i \in ShotIds : <<"board", i>> \in ks => InScript(i)
          /\ \A i \in ShotIds : <<"clip", i>> \in ks => InScript(i) \/ "clipJob" \in left'[i]
      BY <1>6 DEF AskBoard
    <2> HIDE DEF ks
    <2> QED BY <1>1, <1>3, <1>4, <1>5, <2>1, <2>2, AskedKeeps
  <1>7. CASE AskClip(id)
    <2> DEFINE ks == {<<"clip", id>>}
    <2>1. assetJobs' = Enqueued(ks)
      BY <1>7, Zenon DEF AskClip
    <2>2. InScript(id) \/ "clipJob" \in left'[id]
      BY <1>2, <1>7 DEF AskClip
    <2>3. /\ \A i \in ShotIds : <<"board", i>> \in ks => InScript(i)
          /\ \A i \in ShotIds : <<"clip", i>> \in ks => InScript(i) \/ "clipJob" \in left'[i]
      BY <2>2
    <2> HIDE DEF ks
    <2> QED BY <1>1, <1>3, <1>4, <1>5, <2>1, <2>3, AskedKeeps
  <1> QED BY <1>6, <1>7

LEMMA BatchKeeps ==
  ASSUME ShotsInv, NEW kind \in {"boards", "all", "episode"},
         NEW ks \in SUBSET (AssetKinds \X ShotIds), NEW done \in SUBSET ShotIds,
         NEW already \in SUBSET ShotIds, StartBatch(kind, ks, done, already),
         \A k \in ks : InScript(k[2]) /\ (kind # "boards" => k[1] = "clip"),
         \A id \in done \cup already : Marked(id)
  PROVE  ShotsInv'
  <1> DEFINE counted == {<<id, BornOf(id)>> : id \in already \cup {k[2] : k \in ks}}
  <1>1. /\ Count("tools", MaxTools) /\ assetJobs' = Enqueued(ks)
        /\ tool' = [kind |-> kind, waits |-> ks, done |-> done, failed |-> FALSE, counted |-> counted]
        /\ UNCHANGED <<shots, boards, clips, grid, checkpoint, born, left, reported>>
    BY DEF StartBatch
  <1>2. Quiet /\ ScriptShape
    BY <1>1, ShotsAssumption DEF Quiet, Moves, ShotsInv, ShotShapes
  <1>3. counted \in SUBSET Claim
    <2>1. \A id : BornOf(id) \in 0..MaxBorn
      BY <1>2, NamesBorn
    <2> QED BY <2>1 DEF Claim
  <1>4. \A c \in counted : c[1] \in already \/ \E k \in ks : k[2] = c[1]
    OBVIOUS
  <1> HIDE DEF counted
  <1>5. tool' \in ToolStates
    BY <1>1, <1>3 DEF ToolStates, MaxBorn
  <1>6. ToolShapes'
    BY <1>1, <1>5 DEF ShotsInv, ShotShapes, ToolShapes, Claim, MaxBorn
  <1>7. LeftStays /\ left' \in [ShotIds -> SUBSET Remnants]
    BY <1>1 DEF LeftStays, ShotsInv, ShotShapes, FileShapes
  <1>8. ASSUME MarksStay PROVE MarksInv'
    <2>1. /\ tool'.kind = kind /\ tool'.waits = ks /\ tool'.done = done
          /\ tool'.counted = counted
      BY <1>1
    <2>2. \A id \in done \cup already : Marked(id)'
      BY <1>8 DEF MarksStay
    <2>3. ToolKnows'
      <3>1. kind \in {"all", "episode"} => \A k \in ks : k[1] = "clip"
        OBVIOUS
      <3>2. kind \in {"all", "episode"} =>
              \A c \in counted : <<"clip", c[1]>> \in ks \/ Marked(c[1])'
        <4> SUFFICES ASSUME kind \in {"all", "episode"}, NEW c \in counted,
                            NEW k \in ks, k[2] = c[1]
                     PROVE  <<"clip", c[1]>> \in ks
          BY <1>4, <2>2
        <4>1. k = <<"clip", c[1]>>
          BY <3>1
        <4> QED BY <4>1
      <3> QED BY <2>1, <2>2, <3>1, <3>2 DEF ToolKnows
    <2>4. CheckpointKnows' /\ ReportsKnow'
      <3>1. /\ checkpoint # NoCheckpoint => checkpoint \subseteq ShotIds
            /\ \A c \in reported : c[1] \in ShotIds
        BY DEF ShotsInv, ShotShapes, ToolShapes, Claim
      <3>2. /\ checkpoint # NoCheckpoint => \A id \in checkpoint : Marked(id)'
            /\ \A c \in reported : Marked(c[1])'
        BY <1>8, <3>1 DEF ShotsInv, MarksInv, CheckpointKnows, ReportsKnow, MarksStay
      <3> QED BY <1>1, <3>2 DEF CheckpointKnows, ReportsKnow
    <2> QED BY <2>3, <2>4 DEF MarksInv
  <1>9. /\ \A id \in ShotIds : <<"board", id>> \in ks => InScript(id)
        /\ \A id \in ShotIds : <<"clip", id>> \in ks => InScript(id) \/ "clipJob" \in left'[id]
    OBVIOUS
  <1> QED BY <1>1, <1>2, <1>6, <1>7, <1>8, <1>9, AskedKeeps

LEMMA BatchesKeep ==
  ASSUME ShotsInv,
         \/ BoardsTool \/ AllClipsTool \/ (\E id \in ShotIds : SceneTool(id))
         \/ (\E resume \in BOOLEAN : EpisodeTool(resume))
  PROVE  ShotsInv'
  <1>1. /\ \A s \in Script : s.id \in ShotIds /\ InScript(s.id)
        /\ WithBoard \subseteq ShotIds /\ \A id \in WithBoard : InScript(id)
    <2>1. \A s \in Script : s.id \in ShotIds /\ InScript(s.id)
      BY ScriptShots DEF ShotsInv, ShotShapes, Shot, InScript, Script
    <2> QED BY <2>1 DEF WithBoard, Script
  <1>2. CASE BoardsTool
    <2> DEFINE ks == {<<"board", s.id>> : s \in {u \in ToSet(shots) : ~u.board}}
    <2>1. StartBatch("boards", ks, {}, {})
      BY <1>2, Zenon DEF BoardsTool
    <2>2. ks \in SUBSET (AssetKinds \X ShotIds) /\ \A k \in ks : InScript(k[2])
      BY <1>1 DEF AssetKinds, Script
    <2> HIDE DEF ks
    <2> QED BY <2>1, <2>2, BatchKeeps
  <1>3. CASE AllClipsTool
    <2> DEFINE ks == {<<"clip", s.id>> : s \in {u \in ToSet(shots) : ~u.clip /\ u.id \in WithBoard}}
    <2>1. StartBatch("all", ks, {}, {})
      BY <1>3, Zenon DEF AllClipsTool
    <2>2. ks \in SUBSET (AssetKinds \X ShotIds) /\ \A k \in ks : InScript(k[2]) /\ k[1] = "clip"
      BY <1>1 DEF AssetKinds, Script
    <2> HIDE DEF ks
    <2> QED BY <2>1, <2>2, BatchKeeps
  <1>4. CASE \E id \in ShotIds : SceneTool(id)
    <2>1. PICK id \in ShotIds : SceneTool(id)
      BY <1>4
    <2> DEFINE ks == {<<"clip", id>>}
    <2>2. StartBatch("all", ks, {}, {}) /\ id \in WithBoard
      BY <2>1, Zenon DEF SceneTool
    <2>3. ks \in SUBSET (AssetKinds \X ShotIds) /\ \A k \in ks : InScript(k[2]) /\ k[1] = "clip"
      BY <1>1, <2>2 DEF AssetKinds
    <2> HIDE DEF ks
    <2> QED BY <2>2, <2>3, BatchKeeps
  <1>5. CASE \E resume \in BOOLEAN : EpisodeTool(resume)
    <2>1. PICK resume \in BOOLEAN : EpisodeTool(resume)
      BY <1>5
    <2> DEFINE cp == IF resume /\ checkpoint # NoCheckpoint THEN checkpoint ELSE {}
               already == AlreadyDone(cp)
               done == cp \ Stale(cp)
               ks == {<<"clip", id>> : id \in WithBoard \ already}
    <2>2. StartBatch("episode", ks, done, already)
      BY <2>1, Zenon DEF EpisodeTool
    <2>3. cp \subseteq ShotIds /\ \A id \in cp : Marked(id)
      BY DEF ShotsInv, ShotShapes, ToolShapes, MarksInv, CheckpointKnows
    <2>4. ks \in SUBSET (AssetKinds \X ShotIds) /\ \A k \in ks : InScript(k[2]) /\ k[1] = "clip"
      <3> HIDE DEF already
      <3> QED BY <1>1 DEF AssetKinds
    <2> HIDE DEF cp, ks
    <2>5. done \subseteq cp /\ already \subseteq cp
      BY DEF AlreadyDone
    <2> HIDE DEF done, already
    <2> QED BY <2>2, <2>3, <2>4, <2>5, BatchKeeps
  <1> QED BY <1>2, <1>3, <1>4, <1>5

\* A batch without a failure waited for each of its clips.
LEMMA EndOfBatchKeeps ==
  ASSUME ShotsInv, EndTool \/ KillTool
  PROVE  ShotsInv'
  <1>1. /\ tool' = IdleTool /\ UNCHANGED <<shots, boards, clips, assetJobs, grid, born, left>>
        /\ checkpoint' \in {NoCheckpoint, checkpoint}
    BY DEF EndTool, KillTool
  <1>2. Quiet
    BY ShotsAssumption, Zenon DEF Quiet, Moves, EndTool, KillTool
  <1>3. ScriptShape /\ ScriptShape' /\ NamesStay /\ MarksStay /\ LeftStays /\ OldClips
    BY <1>1, <1>2, SameScript, SameShots DEF ShotsInv, ShotShapes
  <1>4. \A c \in reported' : c \in reported \/ (c \in tool.counted /\ Marked(c[1]))
    <2>1. CASE reported' = reported
      BY <2>1
    <2>2. CASE /\ tool.kind # "none" /\ tool.kind # "boards" /\ ~tool.failed /\ tool.waits = {}
               /\ reported' = reported \cup tool.counted
      <3>1. tool.kind \in {"all", "episode"}
        BY <2>2 DEF ShotsInv, ShotShapes, ToolShapes, ToolStates
      <3>2. \A c \in tool.counted : Marked(c[1])
        BY <2>2, <3>1 DEF ShotsInv, MarksInv, ToolKnows
      <3> QED BY <2>2, <3>2
    <2> QED BY <2>1, <2>2 DEF EndTool, KillTool
  <1>5. tool'.kind = "none" /\ tool' \in ToolStates
    BY <1>1 DEF IdleTool, ToolStates, Claim
  <1>6. ToolShapes' /\ \A c \in reported' : c[1] \in ShotIds
    <2>1. reported' \subseteq Claim
      BY <1>4 DEF ShotsInv, ShotShapes, ToolShapes, ToolStates
    <2> QED BY <1>1, <1>5, <2>1 DEF ShotsInv, ShotShapes, ToolShapes, ToolStates, Claim, MaxBorn
  <1>7. MarksInv'
    <2>1. ToolKnows'
      BY <1>5 DEF ToolKnows
    <2>2. CheckpointKnows'
      <3>1. checkpoint # NoCheckpoint => \A id \in checkpoint : Marked(id)'
        BY <1>3 DEF ShotsInv, ShotShapes, ToolShapes, MarksInv, CheckpointKnows, MarksStay
      <3> QED BY <1>1, <3>1 DEF CheckpointKnows
    <2>3. ReportsKnow'
      <3>1. \A c \in reported' : Marked(c[1])'
        BY <1>3, <1>4, <1>6 DEF ShotsInv, MarksInv, ReportsKnow, MarksStay
      <3> QED BY <3>1 DEF ReportsKnow
    <2> QED BY <2>1, <2>2, <2>3 DEF MarksInv
  <1>8. (FileShapes /\ GridShape /\ JobShapes)'
    BY <1>1 DEF ShotsInv, ShotShapes, FileShapes, GridShape, JobShapes, GridStates, ClipStates,
                JobStates, MaxBorn
  <1>9. BoardsInv' /\ ClipsInv'
    <2>1. BoardsInv'
      BY <1>1 DEF ShotsInv, BoardsInv, BoardsBelong, BoardJobsKnow, CellsKnow, DiskKnows, OldBoard,
                  Names, Script
    <2>2. ClipsInv'
      BY <1>1 DEF ShotsInv, ClipsInv, ClipsBelong, ClipJobsKnow, OldBoard, Names, Script
    <2> QED BY <2>1, <2>2
  <1> QED BY <1>3, <1>6, <1>7, <1>8, <1>9 DEF ShotsInv, ShotShapes

-----------------------------------------------------------------------------
(* The invariant.                                                          *)

LEMMA ShotsStart == ShotsInit => ShotsInv
  <1> SUFFICES ASSUME ShotsInit PROVE ShotsInv
    OBVIOUS
  <1> DEFINE n == Len(StartIds)
             e(i) == [NewShot(StartIds[i], i) EXCEPT !.board = TRUE]
  <1>1. /\ n \in Nat /\ DOMAIN StartIds = 1..n /\ MaxBorn \in Nat /\ n <= MaxBorn
        /\ \A i, j \in 1..n : StartIds[i] = StartIds[j] => i = j
        /\ MaxEdits \in Nat
    <2>1. StartIds \in Seq(STRING \X (0..MaxSuffix)) /\ IsInjective(StartIds) /\ MaxEdits \in Nat
      BY ShotsAssumption
    <2>2. n \in Nat /\ DOMAIN StartIds = 1..n
      BY <2>1
    <2>3. \A i, j \in 1..n : StartIds[i] = StartIds[j] => i = j
      BY <2>1, <2>2, Zenon DEF IsInjective
    <2> HIDE DEF n
    <2>4. MaxBorn \in Nat /\ n <= MaxBorn
      BY <2>1, <2>2 DEF MaxBorn, n
    <2> QED BY <2>1, <2>2, <2>3, <2>4
  <1>2. \A i \in 1..n : StartIds[i] \in ShotIds
    <2> SUFFICES ASSUME NEW i \in 1..n PROVE StartIds[i] \in ShotIds
      OBVIOUS
    <2>1. StartIds[i] \in STRING \X (0..MaxSuffix)
      BY <1>1, ShotsAssumption
    <2>2. StartIds[i][1] \in {StartIds[j][1] : j \in DOMAIN StartIds}
      BY <1>1
    <2> QED BY <2>1, <2>2 DEF ShotIds
  <1>3. \A i \in 1..n : /\ e(i) \in Shot /\ e(i).id = StartIds[i] /\ e(i).born = i
                        /\ e(i).board = TRUE /\ e(i).clip = FALSE
    <2> HIDE DEF MaxBorn
    <2> SUFFICES ASSUME NEW i \in 1..n
                 PROVE  /\ e(i) \in Shot /\ e(i).id = StartIds[i] /\ e(i).born = i
                        /\ e(i).board = TRUE /\ e(i).clip = FALSE
      BY Zenon
    <2> DEFINE u == NewShot(StartIds[i], i)
    <2>1. i \in 1..MaxBorn
      BY <1>1
    <2>2. u \in Shot /\ u.id = StartIds[i] /\ u.born = i /\ u.clip = FALSE
      BY <1>2, <2>1 DEF NewShot, Shot
    <2> HIDE DEF u
    <2> DEFINE v == [u EXCEPT !.board = TRUE]
    <2>3. /\ v \in Shot /\ v.id = u.id /\ v.born = u.born
          /\ v.board = TRUE /\ v.clip = u.clip
      BY <2>2 DEF Shot
    <2>4. e(i) = v
      BY Zenon DEF u
    <2> HIDE DEF e, v
    <2> QED BY <2>2, <2>3, <2>4, Zenon
  <1>4. shots = [i \in 1..n |-> e(i)]
    BY <1>1 DEF ShotsInit
  <1> HIDE DEF e, n
  <1>5. shots \in Seq(Shot) /\ DOMAIN shots = 1..n
    BY <1>1, <1>3, <1>4
  <1>6. Distinct(shots)
    BY <1>1, <1>3, <1>4, <1>5 DEF Distinct
  <1>7. ScriptShape
    BY <1>1, <1>5, <1>6 DEF ScriptShape, ShotsInit, Moves, n
  <1>8. \A s \in Script : \E i \in 1..n : s.id = StartIds[i] /\ s.born = i /\ s.clip = FALSE
    BY <1>3, <1>4, <1>5 DEF Script, ToSet
  <1>9. \A i \in 1..n : Names(StartIds[i], i)
    BY <1>3, <1>4, <1>5 DEF Script, ToSet, Names
  <1>10. ASSUME NEW id \in ShotIds
         PROVE  \/ boards[id] = 0 /\ \A i \in 1..n : StartIds[i] # id
                \/ boards[id] \in 1..n /\ StartIds[boards[id]] = id
    <2> DEFINE i == CHOOSE j \in DOMAIN StartIds : StartIds[j] = id
    <2>1. boards[id] = IF id \in Range(StartIds) THEN i ELSE 0
      BY DEF ShotsInit
    <2>2. CASE \E j \in DOMAIN StartIds : StartIds[j] = id
      <3>1. i \in DOMAIN StartIds /\ StartIds[i] = id
        BY <2>2, Zenon
      <3>2. id \in Range(StartIds)
        BY <2>2 DEF Range
      <3> HIDE DEF i
      <3> QED BY <1>1, <2>1, <3>1, <3>2
    <2>3. CASE ~ \E j \in DOMAIN StartIds : StartIds[j] = id
      <3>1. id \notin Range(StartIds)
        BY <2>3 DEF Range
      <3> HIDE DEF i
      <3> QED BY <1>1, <2>1, <2>3, <3>1
    <2> QED BY <2>2, <2>3
  <1>11. FileShapes
    <2>1. \A id \in ShotIds : boards[id] \in 0..MaxBorn
      <3> HIDE DEF MaxBorn
      <3> QED BY <1>1, <1>10
    <2>2. boards \in [ShotIds -> 0..MaxBorn]
      BY <2>1 DEF ShotsInit
    <2> QED BY <2>2 DEF FileShapes, ShotsInit, ClipStates, Remnants
  <1>12. JobShapes /\ \A k \in AssetKinds \X ShotIds : assetJobs[k] = NoJob
    BY DEF JobShapes, ShotsInit, JobStates, AssetKinds
  <1>13. GridShape /\ ToolShapes
    BY DEF GridShape, ToolShapes, ShotsInit, NoGrid, IdleTool, GridStates, ToolStates
  <1>14. BoardsInv
    <2>1. BoardsBelong
      <3> SUFFICES ASSUME NEW s \in Script PROVE boards[s.id] = s.born
        BY DEF BoardsBelong, Script
      <3>1. PICK i \in 1..n : s.id = StartIds[i] /\ s.born = i
        BY <1>8
      <3>2. boards[s.id] \in 1..n /\ StartIds[boards[s.id]] = s.id
        BY <1>2, <1>10, <3>1
      <3> QED BY <1>1, <3>1, <3>2
    <2>2. DiskKnows
      BY <1>9, <1>10 DEF DiskKnows
    <2>3. BoardJobsKnow
      BY <1>12 DEF BoardJobsKnow, AssetKinds
    <2>4. CellsKnow
      BY DEF CellsKnow, ShotsInit, NoGrid
    <2> QED BY <2>1, <2>2, <2>3, <2>4 DEF BoardsInv
  <1>15. ClipsInv
    BY <1>8, <1>12 DEF ClipsInv, ClipsBelong, ClipJobsKnow, AssetKinds, Script
  <1>16. MarksInv
    BY DEF MarksInv, ToolKnows, CheckpointKnows, ReportsKnow, ShotsInit, IdleTool
  <1> QED BY <1>7, <1>11, <1>12, <1>13, <1>14, <1>15, <1>16 DEF ShotsInv, ShotShapes

LEMMA ShotsStep == ShotsInv /\ [ShotsNext]_shotVars => ShotsInv'
  <1> SUFFICES ASSUME ShotsInv, [ShotsNext]_shotVars PROVE ShotsInv'
    OBVIOUS
  <1>1. CASE EditorEdits
    BY <1>1, InsertKeeps, RemoveKeeps DEF EditorEdits
  <1>2. CASE UserAsks
    BY <1>2, AsksKeep, PlansKeep DEF UserAsks
  <1>3. CASE WorkerRuns
    BY <1>3, StartBoardKeeps, StartClipKeeps, WriteKeeps, RecordKeeps, FailKeeps, PlansKeep, CutKeeps,
       GridRecordKeeps DEF WorkerRuns
  <1>4. CASE AgentRuns
    BY <1>4, BatchesKeep, EndOfBatchKeeps DEF AgentRuns
  <1>5. CASE UNCHANGED shotVars
    <2>1. Quiet /\ OthersSame /\ UNCHANGED <<boards, clips, assetJobs>>
      BY <1>5 DEF shotVars, Quiet, OthersSame
    <2>2. /\ NamesStay /\ MarksStay /\ OldClips /\ ScriptShape' /\ GridShape' /\ MarksInv'
      BY <2>1, KeptAside, OtherShapes DEF ShotsInv
    <2>3. BoardsInv'
      BY <2>1 DEF OthersSame, ShotsInv, BoardsInv, BoardsBelong, BoardJobsKnow, CellsKnow, DiskKnows,
                  OldBoard, Names, Script
    <2>4. FileShapes'
      BY <2>1 DEF OthersSame, ShotsInv, ShotShapes, FileShapes, ClipStates, MaxBorn
    <2> QED BY <2>1, <2>2, <2>3, <2>4, GridStepKeeps DEF OthersSame
  <1> QED BY <1>1, <1>2, <1>3, <1>4, <1>5 DEF ShotsNext

\* The inductive invariant of the shots and their files.
THEOREM ShotsInvariant == ShotsSpec => []ShotsInv
BY ShotsStart, ShotsStep, PTL DEF ShotsSpec

\* The variables of the shots have their types.
THEOREM ShotsTypeCorrect == ShotsSpec => []ShotsTypeOK
  <1>1. ShotsInv => ShotsTypeOK
    <2> SUFFICES ASSUME ShotsInv PROVE ShotsTypeOK
      OBVIOUS
    <2>1. /\ shots \in Seq(Shot) /\ boards \in [ShotIds -> 0..MaxBorn]
          /\ counts \in [Moves -> Nat] /\ left \in [ShotIds -> SUBSET Remnants]
          /\ reported \subseteq Claim /\ (checkpoint = NoCheckpoint \/ checkpoint \subseteq ShotIds)
          /\ grid.hit \subseteq grid.cells
      BY DEF ShotsInv, ShotShapes, ScriptShape, FileShapes, ToolShapes, GridShape
    <2>2. \A id \in ShotIds : clips[id] = NoClip \/ clips[id] \in [of : 0..MaxBorn, from : 1..MaxBorn]
      BY DEF ShotsInv, ShotShapes, FileShapes, ClipStates
    <2>3. \A k \in AssetKinds \X ShotIds :
            assetJobs[k] = NoJob \/ assetJobs[k] \in [for : 0..MaxBorn, frame : 0..MaxBorn,
                                                     at : {"queued", "running", "written"}]
      BY DEF ShotsInv, ShotShapes, JobShapes, JobStates
    <2>4. /\ grid.cells \subseteq Claim /\ grid.job \in {"none", "queued", "running", "cut"}
      BY DEF ShotsInv, ShotShapes, GridShape, GridStates
    <2>5. /\ tool.kind \in {"none", "boards", "all", "episode"}
          /\ tool.waits \subseteq AssetKinds \X ShotIds
          /\ tool.done \subseteq ShotIds /\ tool.counted \subseteq Claim /\ tool.failed \in BOOLEAN
      BY DEF ShotsInv, ShotShapes, ToolShapes, ToolStates
    <2>6. born \in 0..MaxBorn
      <3>1. /\ born \in Nat /\ born <= Len(StartIds) + counts["edits"]
            /\ counts["edits"] <= MaxEdits /\ counts["edits"] \in Nat
        BY <2>1 DEF ShotsInv, ShotShapes, ScriptShape, Moves
      <3>2. Len(StartIds) \in Nat /\ MaxEdits \in Nat
        BY ShotsAssumption
      <3> QED BY <3>1, <3>2 DEF MaxBorn
    <2> QED BY <2>1, <2>2, <2>3, <2>4, <2>5, <2>6 DEF ShotsTypeOK
  <1> QED BY <1>1, ShotsInvariant, PTL

\* A board or clip that a shot has taken over was made for it, except under an
\* id that was removed and given away again, and what a batch reported is there.
THEOREM AssetsStayTrue == ShotsSpec => []AssetsBelong
  <1>1. ShotsInv => AssetsBelong
    <2> SUFFICES ASSUME ShotsInv PROVE ReportsHold
      BY DEF ShotsInv, BoardsInv, ClipsInv, AssetsBelong
    <2> SUFFICES ASSUME NEW c \in reported, NEW s \in Script, <<s.id, s.born>> = c
                 PROVE  s.clip \/ left[s.id] \cap {"clip", "clipJob"} # {}
      BY DEF ReportsHold, Script
    <2>1. Marked(c[1]) /\ c[1] = s.id
      BY DEF ShotsInv, MarksInv, ReportsKnow
    <2>2. \A t \in Script : t.id = s.id => t = s
      BY OneOfAnId DEF ShotsInv, ShotShapes
    <2> QED BY <2>1, <2>2 DEF Marked
  <1> QED BY <1>1, ShotsInvariant, PTL

-----------------------------------------------------------------------------
(* The units of an episode that is generated from references.              *)

Units == ToSet(units)
Handed(u) == u.num \in handedOver \cup reborn
Showing(u) == ShowsItsShots(u) \/ Handed(u)
Told(u) == \/ ShowsItsShots(u) /\ (isAd => u.clip)
           \/ Handed(u)
           \/ ~isAd /\ u.num \in inheriting
ClipHolds(u) == u.clip => Showing(u)
FileHolds(u) == videos[u.num] # NoVideo => Showing(u) \/ u.num \in inheriting
JobHolds(u) ==
    unitJobs[u.num] # NoWork =>
        /\ unitJobs[u.num].at = "running" => Alike(unitJobs[u.num].of, u.of) \/ Handed(u)
        /\ unitJobs[u.num].at = "written" => Showing(u)
UploadHolds(u) ==
    unitUpload.num = u.num =>
        /\ unitUpload.at = "started" => Alike(unitUpload.of, u.of) \/ Handed(u)
        /\ unitUpload.at \in {"saved", "checked"} => Showing(u)
Claimed(n) == n \in unitTool.counted \ unitTool.waits /\ ~unitTool.failed
ToolHolds(u) == Claimed(u.num) => Told(u)
ReportHolds(u) == u.num \in toldDone => Told(u)
Holds(u) == ClipHolds(u) /\ FileHolds(u) /\ JobHolds(u) /\ UploadHolds(u) /\ ToolHolds(u) /\ ReportHolds(u)

OneUnitANumber(us) == \A i, j \in DOMAIN us : us[i].num = us[j].num => i = j

Contents == Content \cup {<<>>}
UnitWork == [of : Contents, at : {"queued", "running", "written"}]
UnitUploads == [num : 0..MaxUnit, of : Contents, at : {"none", "started", "saved", "checked"}]
UnitTools == [waits : SUBSET Numbers, counted : SUBSET Numbers, failed : BOOLEAN]

UnitsListed == units \in Seq(Unit) /\ OneUnitANumber(units)
ShotsListed == adShots \in Seq(AdShot) /\ Len(adShots) <= MaxUnit
WorkShapes ==
    /\ videos \in [Numbers -> Content \cup {NoVideo}]
    /\ unitJobs \in [Numbers -> UnitWork \cup {NoWork}]
    /\ \A n \in Numbers : unitJobs[n] # NoWork /\ unitJobs[n].at # "queued" => unitJobs[n].of \in Content
    /\ unitUpload \in UnitUploads
    /\ unitUpload.at # "none" => unitUpload.num \in Numbers /\ unitUpload.of \in Content
UnitShapes ==
    /\ isAd \in BOOLEAN /\ ShotsListed /\ UnitsListed /\ WorkShapes
    /\ unitTool \in UnitTools
    /\ births \in Nat /\ handedOver \subseteq Numbers /\ reborn \subseteq Numbers
    /\ inheriting \subseteq Numbers
    /\ unitCounts \in [UnitMoves -> Nat]
UnitsInv == UnitShapes /\ \A u \in Units : Holds(u)

\* A shot that the index lists is the one that has its id now, or the number is
\* marked.
OneBirthAnId == \A s, t \in ToSet(adShots) : s.id = t.id => s.birth = t.birth
UpToDate(u) ==
    \A i \in DOMAIN u.of : \A s \in ToSet(adShots) :
        s.id = u.of[i].id => s.birth = u.of[i].birth \/ u.num \in reborn
IndexInv == isAd => OneBirthAnId /\ \A u \in Units : UpToDate(u)

LEMMA ListedUnits ==
  ASSUME NEW us \in Seq(Unit)
  PROVE  /\ \A u \in ToSet(us) : u \in Unit
         /\ \A i \in DOMAIN us : us[i] \in ToSet(us)
BY DEF ToSet

LEMMA OneOfANumber ==
  ASSUME NEW us \in Seq(Unit), OneUnitANumber(us)
  PROVE  \A u, v \in ToSet(us) : u.num = v.num => u = v
BY DEF ToSet, OneUnitANumber

LEMMA UnitParts ==
  ASSUME NEW u \in Unit
  PROVE  u.num \in Numbers /\ u.of \in Content /\ u.of # <<>> /\ u.clip \in BOOLEAN
  <1>1. u.num \in Numbers /\ u.of \in Content /\ u.clip \in BOOLEAN
    BY DEF Unit
  <1>2. PICK n \in 1..UnitSize : u.of \in [1..n -> AdShot]
    BY <1>1 DEF Content
  <1>3. DOMAIN u.of = 1..n /\ 1 \in 1..n
    BY <1>2, UnitsAssumption
  <1>4. DOMAIN <<>> = {}
    OBVIOUS
  <1> QED BY <1>1, <1>3, <1>4

LEMMA SomeShots ==
  ASSUME NEW u \in Unit
  PROVE  Listed(<<>>) # Listed(u.of)
  <1>1. u.of # <<>> /\ u.of \in Content
    BY UnitParts
  <1>2. PICK n \in 1..UnitSize : u.of \in [1..n -> AdShot]
    BY <1>1 DEF Content
  <1>3. Listed(<<>>).shot_ids = Ids(<<>>) /\ Listed(u.of).shot_ids = Ids(u.of)
    BY DEF Listed
  <1>4. DOMAIN Ids(<<>>) = {} /\ DOMAIN Ids(u.of) = 1..n /\ 1 \in 1..n
    BY <1>2, UnitsAssumption DEF Ids
  <1> QED BY <1>3, <1>4

\* What the unit with a number is of.
LEMMA ContentOf ==
  ASSUME NEW us \in Seq(Unit), OneUnitANumber(us)
  PROVE  /\ \A u \in ToSet(us) : ContentIn(us, u.num) = u.of
         /\ \A n : (\A u \in ToSet(us) : u.num # n) => ContentIn(us, n) = <<>>
  <1>1. ASSUME NEW u \in ToSet(us)
        PROVE  ContentIn(us, u.num) = u.of
    <2> DEFINE v == CHOOSE t \in ToSet(us) : t.num = u.num
    <2>1. v \in ToSet(us) /\ v.num = u.num
      BY <1>1, Zenon
    <2>2. v = u
      BY <1>1, <2>1, OneOfANumber, Zenon
    <2>3. ContentIn(us, u.num) = v.of
      BY <1>1, Zenon DEF ContentIn
    <2> QED BY <2>2, <2>3, Zenon
  <1>2. ASSUME NEW n, \A u \in ToSet(us) : u.num # n
        PROVE  ContentIn(us, n) = <<>>
    BY <1>2, Zenon DEF ContentIn
  <1> QED BY <1>1, <1>2, Zenon

LEMMA UnitsOf ==
  ASSUME UnitsListed
  PROVE  /\ \A u \in Units : u \in Unit /\ u.num \in Numbers /\ u.of \in Content /\ u.clip \in BOOLEAN
         /\ \A u \in Units : Has(u.num) /\ UnitOf(u.num) = u
         /\ \A n : Has(n) => \E u \in Units : u.num = n
         /\ \A u, v \in Units : u.num = v.num => u = v
  <1>0. units \in Seq(Unit) /\ OneUnitANumber(units)
    BY DEF UnitsListed
  <1>1. \A u \in Units : u \in Unit
    BY <1>0, ListedUnits, Zenon DEF Units
  <1>2. \A u, v \in Units : u.num = v.num => u = v
    BY <1>0, OneOfANumber, Zenon DEF Units
  <1>3. ASSUME NEW u \in Units
        PROVE  Has(u.num) /\ UnitOf(u.num) = u
    <2>1. Has(u.num)
      BY <1>3 DEF Units, ToSet, Has
    <2> DEFINE v == CHOOSE t \in ToSet(units) : t.num = u.num
    <2>2. v \in Units /\ v.num = u.num
      BY <1>3, Zenon DEF Units
    <2>3. v = u
      BY <1>2, <1>3, <2>2, Zenon
    <2> QED BY <2>1, <2>3, Zenon DEF UnitOf
  <1>4. \A n : Has(n) => \E u \in Units : u.num = n
    BY <1>0, ListedUnits, Zenon DEF Has, Units
  <1>5. \A u \in Units : u.num \in Numbers /\ u.of \in Content /\ u.clip \in BOOLEAN
    BY <1>1, UnitParts, Zenon
  <1> QED BY <1>1, <1>2, <1>3, <1>4, <1>5, Zenon

\* A unit with the same number that lists the same and has its video recorded
\* or not as before; and one that lists something else and has none recorded.
SameUnit(u, v) ==
    /\ v.num = u.num /\ Listed(v.of) = Listed(u.of) /\ (u.clip <=> v.clip)
    /\ Alike(v.of, u.of) \/ Handed(v)
Unchanged(u) == \E v \in Units : SameUnit(u, v)
Renewed(u) == ~u.clip /\ \A v \in Units : v.num = u.num => Listed(v.of) # Listed(u.of)
KeepsClips(us) == \A u \in ToSet(us) : Unchanged(u) \/ Renewed(u)
ListsUnits(us) == us \in Seq(Unit) /\ OneUnitANumber(us) /\ KeepsClips(us)

LEMMA WhoIsChanged ==
  ASSUME UnitsListed, NEW us, ListsUnits(us), NEW u \in ToSet(us)
  PROVE  \/ u.num \notin ChangedBy(us) /\ Unchanged(u)
         \/ u.num \in ChangedBy(us) /\ ~u.clip
  <1>0. /\ us \in Seq(Unit) /\ OneUnitANumber(us) /\ (Unchanged(u) \/ Renewed(u))
        /\ units \in Seq(Unit) /\ OneUnitANumber(units)
    BY Zenon DEF ListsUnits, KeepsClips, UnitsListed
  <1>1. u \in Unit
    BY <1>0, ListedUnits, Zenon
  <1>2. u.num \in Numbers /\ u.of # <<>>
    BY <1>1, UnitParts, Zenon
  <1>3. ContentIn(us, u.num) = u.of
    BY <1>0, ContentOf, Zenon
  <1>4. CASE Unchanged(u)
    <2>1. PICK v \in Units : v.num = u.num /\ Listed(v.of) = Listed(u.of)
      BY <1>4, Zenon DEF Unchanged, SameUnit
    <2>2. Listed(ContentIn(units, u.num)) = Listed(u.of)
      BY <1>0, <2>1, ContentOf, Zenon DEF Units
    <2> QED BY <1>3, <1>4, <2>2, Zenon DEF ChangedBy
  <1>5. CASE Renewed(u)
    <2>1. Listed(ContentIn(units, u.num)) # Listed(u.of)
      <3>1. CASE \E v \in Units : v.num = u.num
        BY <1>0, <1>5, <3>1, ContentOf, Zenon DEF Units, Renewed
      <3>2. CASE \A v \in Units : v.num # u.num
        BY <1>0, <1>1, <3>2, ContentOf, SomeShots, Zenon DEF Units
      <3> QED BY <3>1, <3>2, Zenon
    <2>2. u.num \in ChangedBy(us)
      BY <1>2, <1>3, <2>1, Zenon DEF ChangedBy
    <2> QED BY <1>5, <2>2, Zenon DEF Renewed
  <1> QED BY <1>0, <1>4, <1>5, Zenon

\* Whatever the new units are: a number that changes hands under a writer is
\* marked, and one that does over a file.
FilesHold(u) == ClipHolds(u) /\ FileHolds(u) /\ JobHolds(u) /\ UploadHolds(u)

NoJobMoves ==
    \A k \in Numbers : unitJobs'[k] # NoWork /\ unitJobs'[k].at # "queued"
                          => unitJobs'[k] = unitJobs[k]

LEMMA ReplaceKeeps ==
  ASSUME UnitsInv, NEW us, ListsUnits(us), Replace(us), NoJobMoves,
         UNCHANGED <<isAd, videos, unitUpload>>
  PROVE  /\ \A u \in Units' : (FilesHold(u) /\ ReportHolds(u))'
         /\ \A u \in Units' : \A v \in Units :
               SameUnit(u, v) /\ u.num \notin ChangedBy(us) /\ Told(v) => Told(u)'
  <1>0. /\ units' = us /\ UnitsListed /\ \A v \in Units : Holds(v)
        /\ handedOver' = (handedOver \ ChangedBy(us)) \cup {n \in ChangedBy(us) : WriterAt(n)}
        /\ reborn' = reborn \ ChangedBy(us)
        /\ inheriting' = (inheriting \ ChangedBy(us)) \cup {n \in ChangedBy(us) : videos[n] # NoVideo}
        /\ toldDone' = toldDone \ ChangedBy(us)
        /\ Units' = ToSet(us)
    BY DEF UnitsInv, UnitShapes, Replace, Units
  <1>1. \A n : n \notin ChangedBy(us) => /\ n \in handedOver' <=> n \in handedOver
                                         /\ n \in reborn' <=> n \in reborn
                                         /\ n \in inheriting' <=> n \in inheriting
                                         /\ n \in toldDone' <=> n \in toldDone
    BY <1>0
  <1>2. \A n \in ChangedBy(us) : /\ WriterAt(n) => n \in handedOver'
                                 /\ videos[n] # NoVideo => n \in inheriting'
                                 /\ n \notin toldDone'
    BY <1>0
  <1>3. ASSUME NEW u \in Units', NEW v \in Units, SameUnit(u, v), u.num \notin ChangedBy(us), Told(v)
        PROVE  Told(u)'
    <2>1. (Handed(u)' <=> Handed(v)) /\ (u.num \in inheriting' <=> v.num \in inheriting)
      BY <1>1, <1>3 DEF Handed, SameUnit
    <2>2. ShowsItsShots(v) => ShowsItsShots(u)' \/ Handed(v)
      BY <1>3 DEF ShowsItsShots, SameUnit, Alike
    <2> QED BY <1>3, <2>1, <2>2 DEF Told, SameUnit
  <1>4. ASSUME NEW u \in Units'
        PROVE  (FilesHold(u) /\ ReportHolds(u))'
    <2>1. CASE u.num \in ChangedBy(us) /\ ~u.clip
      <3>1. /\ WriterAt(u.num) => Handed(u)'
            /\ videos[u.num] # NoVideo => u.num \in inheriting'
            /\ u.num \notin toldDone'
        BY <1>2, <2>1 DEF Handed
      <3>2. JobHolds(u)' /\ UploadHolds(u)'
        <4>1. u.num \in Numbers
          BY <2>1 DEF ChangedBy
        <4> QED BY <3>1, <4>1 DEF NoJobMoves, JobHolds, UploadHolds, WriterAt, Showing, Handed
      <3>3. ClipHolds(u)' /\ FileHolds(u)' /\ ReportHolds(u)'
        BY <2>1, <3>1 DEF ClipHolds, FileHolds, ReportHolds
      <3> QED BY <3>2, <3>3 DEF FilesHold
    <2>2. CASE u.num \notin ChangedBy(us) /\ Unchanged(u)
      <3>1. PICK v \in Units : SameUnit(u, v)
        BY <2>2, Zenon DEF Unchanged
      <3>0. /\ v.num = u.num /\ (u.clip <=> v.clip)
            /\ \A c : Alike(c, v.of) => Alike(c, u.of) \/ Handed(v)
        BY <3>1 DEF SameUnit, Alike
      <3>2. Holds(v) /\ (Handed(u)' <=> Handed(v)) /\ (u.num \in inheriting' <=> v.num \in inheriting)
        BY <1>0, <1>1, <2>2, <3>0 DEF Handed
      <3>3. Showing(v) => Showing(u)'
        BY <3>0, <3>2 DEF Showing, ShowsItsShots
      <3>4. ClipHolds(u)' /\ FileHolds(u)'
        BY <3>0, <3>2, <3>3 DEF Holds, ClipHolds, FileHolds
      <3>5. JobHolds(u)' /\ UploadHolds(u)'
        <4>1. u.num \in Numbers
          BY <1>0, <3>0, UnitsOf, Zenon
        <4> QED BY <3>0, <3>2, <3>3, <4>1 DEF NoJobMoves, Holds, JobHolds, UploadHolds
      <3>6. ReportHolds(u)'
        BY <1>1, <1>3, <2>2, <3>0, <3>1, <3>2 DEF Holds, ReportHolds
      <3> QED BY <3>4, <3>5, <3>6 DEF FilesHold
    <2> QED BY <1>0, <1>4, <2>1, <2>2, WhoIsChanged, Zenon
  <1> QED BY <1>3, <1>4, Zenon

-----------------------------------------------------------------------------
(* What the steps are made of.                                             *)

LEMMA UnitMoveCounts ==
  ASSUME unitCounts \in [UnitMoves -> Nat], NEW c \in UnitMoves, NEW max, Bounded(c, max)
  PROVE  unitCounts' \in [UnitMoves -> Nat]
  <1>1. unitCounts' = [unitCounts EXCEPT ![c] = @ + 1]
    BY DEF Bounded
  <1> QED BY <1>1

LEMMA WorkEnds ==
  ASSUME UnitShapes, NEW n \in Numbers, NEW ok \in BOOLEAN, EndWork(n, ok)
  PROVE  /\ unitJobs'[n] = NoWork /\ \A k \in Numbers : k # n => unitJobs'[k] = unitJobs[k]
         /\ unitJobs' \in [Numbers -> UnitWork \cup {NoWork}]
         /\ unitTool' \in UnitTools
         /\ \A k : Claimed(k)' => Claimed(k) \/ (k = n /\ ok)
  <1>1. unitJobs \in [Numbers -> UnitWork \cup {NoWork}] /\ unitTool \in UnitTools
    BY DEF UnitShapes, WorkShapes
  <1>2. unitJobs' = [unitJobs EXCEPT ![n] = NoWork]
    BY DEF EndWork
  <1>3. unitTool' \in UnitTools /\ \A k : Claimed(k)' => Claimed(k) \/ (k = n /\ ok)
    <2>1. CASE n \notin unitTool.waits
      <3>1. unitTool' = unitTool
        BY <2>1, Zenon DEF EndWork
      <3> QED BY <1>1, <3>1 DEF Claimed
    <2>2. CASE n \in unitTool.waits
      <3> DEFINE f == unitTool.failed \/ ~ok
      <3>1. unitTool' = [unitTool EXCEPT !.waits = @ \ {n}, !.failed = f]
        BY <2>2 DEF EndWork
      <3>2. f \in BOOLEAN
        OBVIOUS
      <3>3. f <=> (unitTool.failed \/ ~ok)
        OBVIOUS
      <3> HIDE DEF f
      <3>4. /\ unitTool' \in UnitTools
            /\ unitTool'.waits = unitTool.waits \ {n} /\ unitTool'.counted = unitTool.counted
            /\ unitTool'.failed = f
        BY <1>1, <3>1, <3>2 DEF UnitTools
      <3> QED BY <3>3, <3>4 DEF Claimed
    <2> QED BY <2>1, <2>2
  <1> QED BY <1>1, <1>2, <1>3

\* The units and what is known of them stay, the files too.
LEMMA FilesStay ==
  ASSUME UnitsInv, UNCHANGED <<isAd, units, videos, handedOver, reborn, inheriting>>
  PROVE  /\ UnitsListed' /\ Units' = Units
         /\ \A u \in Units : /\ ClipHolds(u)' /\ FileHolds(u)'
                             /\ (Showing(u)' <=> Showing(u)) /\ (Told(u)' <=> Told(u))
                             /\ (Handed(u)' <=> Handed(u))
  <1>1. UnitsListed /\ \A u \in Units : ClipHolds(u) /\ FileHolds(u)
    BY DEF UnitsInv, UnitShapes, Holds
  <1>2. UnitsListed' /\ Units' = Units
    BY <1>1 DEF UnitsListed, Units
  <1> QED BY <1>1, <1>2 DEF ClipHolds, FileHolds, Showing, Told, Handed, ShowsItsShots

\* A writer that knows what the unit is of replaces its file.
LEMMA FileWritten ==
  ASSUME UnitsInv, NEW n \in Numbers, NEW c \in Content,
         videos' = [videos EXCEPT ![n] = c],
         \A u \in Units : u.num = n => Alike(c, u.of) \/ Handed(u),
         UNCHANGED <<isAd, units, handedOver, reborn, inheriting>>
  PROVE  /\ videos' \in [Numbers -> Content \cup {NoVideo}]
         /\ UnitsListed' /\ Units' = Units
         /\ \A u \in Units : /\ ClipHolds(u)' /\ FileHolds(u)'
                             /\ (Showing(u) => Showing(u)') /\ (Told(u) => Told(u)')
                             /\ (Handed(u)' <=> Handed(u))
                             /\ u.num = n => Showing(u)'
  <1>1. /\ UnitsListed /\ videos \in [Numbers -> Content \cup {NoVideo}]
        /\ \A u \in Units : ClipHolds(u) /\ FileHolds(u)
    BY DEF UnitsInv, UnitShapes, WorkShapes, Holds
  <1>2. UnitsListed' /\ Units' = Units /\ videos' \in [Numbers -> Content \cup {NoVideo}]
    BY <1>1 DEF UnitsListed, Units
  <1>3. \A u \in Units : u.num \in Numbers
    BY <1>1, UnitsOf, Zenon
  <1>4. ASSUME NEW u \in Units
        PROVE  /\ ClipHolds(u)' /\ FileHolds(u)'
               /\ (Showing(u) => Showing(u)') /\ (Told(u) => Told(u)')
               /\ (Handed(u)' <=> Handed(u))
               /\ u.num = n => Showing(u)'
    <2>1. CASE u.num = n
      <3>0. c # NoVideo /\ videos'[u.num] = c
        BY <1>1, <2>1, NoVideoIsNoContent DEF Content
      <3>1. Showing(u)' /\ (Handed(u)' <=> Handed(u))
        BY <2>1, <3>0 DEF Showing, Handed, ShowsItsShots
      <3>2. Told(u) => Told(u)'
        BY <3>1 DEF Told, Showing, Handed
      <3> QED BY <3>1, <3>2 DEF ClipHolds, FileHolds
    <2>2. CASE u.num # n
      <3>1. videos'[u.num] = videos[u.num]
        BY <1>1, <1>3, <2>2
      <3> QED BY <1>1, <2>2, <3>1 DEF ClipHolds, FileHolds, Showing, Told, Handed, ShowsItsShots
    <2> QED BY <2>1, <2>2
  <1> QED BY <1>2, <1>4

\* A unit that shows its video records it.
LEMMA ClipRecorded ==
  ASSUME UnitsInv, NEW n \in Numbers, units' = WithClip(n),
         \A u \in Units : u.num = n => Showing(u),
         UNCHANGED <<isAd, videos, handedOver, reborn, inheriting>>
  PROVE  /\ UnitsListed'
         /\ \A u \in Units' : /\ ClipHolds(u)' /\ FileHolds(u)' /\ (u.num = n => Told(u)')
                              /\ \E v \in Units : /\ v.num = u.num /\ v.of = u.of
                                                  /\ (Showing(u)' <=> Showing(v))
                                                  /\ (Handed(u)' <=> Handed(v))
                                                  /\ (Told(v) => Told(u)')
  <1>1. /\ units \in Seq(Unit) /\ OneUnitANumber(units)
        /\ \A u \in Units : ClipHolds(u) /\ FileHolds(u) /\ u \in Unit
    BY UnitsOf DEF UnitsInv, UnitShapes, Holds, UnitsListed
  <1>2. /\ DOMAIN units' = DOMAIN units
        /\ \A i \in DOMAIN units : units'[i] = IF units[i].num = n THEN [units[i] EXCEPT !.clip = TRUE]
                                                                   ELSE units[i]
    BY DEF WithClip
  <1>3. ASSUME NEW v \in Unit, NEW t, t = TRUE
        PROVE  /\ [v EXCEPT !.clip = t] \in Unit /\ [v EXCEPT !.clip = t].num = v.num
               /\ [v EXCEPT !.clip = t].of = v.of /\ [v EXCEPT !.clip = t].clip = t
    <2>1. t \in BOOLEAN
      BY <1>3
    <2> QED BY <2>1 DEF Unit
  <1>4. ASSUME NEW v \in Unit
        PROVE  /\ [v EXCEPT !.clip = TRUE] \in Unit /\ [v EXCEPT !.clip = TRUE].num = v.num
               /\ [v EXCEPT !.clip = TRUE].of = v.of /\ [v EXCEPT !.clip = TRUE].clip
    BY <1>3, Zenon
  <1>5. \A i \in DOMAIN units : units[i] \in Units /\ units[i] \in Unit
    BY <1>1, ListedUnits, Zenon DEF Units
  <1>6. \A i \in DOMAIN units :
           /\ units'[i] \in Unit /\ units'[i].num = units[i].num /\ units'[i].of = units[i].of
           /\ units[i].num = n => units'[i].clip
           /\ units[i].num # n => units'[i] = units[i]
    <2> TAKE i \in DOMAIN units
    <2>1. CASE units[i].num = n
      <3>1. units'[i] = [units[i] EXCEPT !.clip = TRUE]
        BY <1>2, <2>1, Zenon
      <3> QED BY <1>4, <1>5, <2>1, <3>1, Zenon
    <2>2. CASE units[i].num # n
      <3>1. units'[i] = units[i]
        BY <1>2, <2>2, Zenon
      <3> QED BY <1>5, <2>2, <3>1, Zenon
    <2> QED BY <2>1, <2>2
  <1>7. units' \in Seq(Unit)
    <2>1. units' = [i \in 1..Len(units) |-> units'[i]]
      BY <1>1 DEF WithClip
    <2> QED BY <1>1, <1>6, <2>1
  <1>8. OneUnitANumber(units')
    <2>1. ASSUME NEW i \in DOMAIN units, NEW j \in DOMAIN units, units'[i].num = units'[j].num
          PROVE  i = j
      <3>1. units[i].num = units[j].num
        BY <1>6, <2>1, Zenon
      <3> QED BY <1>1, <3>1, Zenon DEF OneUnitANumber
    <2> QED BY <1>2, <2>1, Zenon DEF OneUnitANumber
  <1>9. UnitsListed'
    BY <1>7, <1>8 DEF UnitsListed, OneUnitANumber
  <1>10. ASSUME NEW u \in Units'
         PROVE  /\ ClipHolds(u)' /\ FileHolds(u)' /\ (u.num = n => Told(u)')
                /\ \E v \in Units : /\ v.num = u.num /\ v.of = u.of
                                    /\ (Showing(u)' <=> Showing(v))
                                    /\ (Handed(u)' <=> Handed(v))
                                    /\ (Told(v) => Told(u)')
    <2>1. PICK i \in DOMAIN units : u = units'[i]
      BY <1>2, <1>10 DEF Units, ToSet
    <2> DEFINE v == units[i]
    <2>2. v \in Units /\ u.num = v.num /\ u.of = v.of /\ (v.num = n => u.clip) /\ (v.num # n => u = v)
      BY <1>5, <1>6, <2>1, Zenon
    <2> HIDE DEF v
    <2>3. (Showing(u)' <=> Showing(v)) /\ (Handed(u)' <=> Handed(v)) /\ ClipHolds(v) /\ FileHolds(v)
      BY <1>1, <2>2 DEF Showing, Handed, ShowsItsShots
    <2>4. CASE v.num = n
      <3>1. Showing(u)' /\ u.clip
        BY <2>2, <2>3, <2>4, Zenon
      <3>2. Told(u)'
        BY <3>1 DEF Told, Showing
      <3> QED BY <2>2, <2>3, <3>1, <3>2 DEF ClipHolds, FileHolds
    <2>5. CASE v.num # n
      <3>1. u = v
        BY <2>2, <2>5, Zenon
      <3>2. (Told(v) => Told(u)') /\ ClipHolds(u)' /\ FileHolds(u)'
        BY <2>3, <3>1 DEF Told, Handed, ClipHolds, FileHolds, ShowsItsShots
      <3> QED BY <2>2, <2>3, <2>5, <3>2, Zenon
    <2> QED BY <2>4, <2>5, Zenon
  <1> QED BY <1>9, <1>10, Zenon

-----------------------------------------------------------------------------
(* The new units of an edit.                                               *)

LEMMA SameItself == \A u : SameUnit(u, u)
BY DEF SameUnit, Alike

\* Units that are all there already.
LEMMA FewerUnits ==
  ASSUME UnitsListed, NEW us \in Seq(Unit), OneUnitANumber(us), ToSet(us) \subseteq Units
  PROVE  ListsUnits(us)
  <1>1. KeepsClips(us)
    BY SameItself, Zenon DEF KeepsClips, Unchanged
  <1> QED BY <1>1 DEF ListsUnits

LEMMA NewUnitShape ==
  ASSUME NEW n \in Numbers, NEW of \in Content
  PROVE  /\ NewUnit(n, of) \in Unit /\ NewUnit(n, of).num = n /\ NewUnit(n, of).of = of
         /\ ~NewUnit(n, of).clip
BY DEF NewUnit, Unit

LEMMA OneShot ==
  ASSUME NEW id \in ShotPool, NEW b \in Nat
  PROVE  Plain(id, b) \in AdShot /\ <<Plain(id, b)>> \in Content
  <1>1. Plain(id, b) \in AdShot
    BY UnitsAssumption DEF Plain, AdShot
  <1>2. <<Plain(id, b)>> \in [1..1 -> AdShot]
    BY <1>1
  <1>3. 1 \in 1..UnitSize
    BY UnitsAssumption
  <1> QED BY <1>1, <1>2, <1>3 DEF Content

LEMMA AddedUnits ==
  ASSUME UnitsListed, FreeNumbers # {}, NEW id \in ShotPool, NEW b \in Nat
  PROVE  ListsUnits(Append(units, NewUnit(NextUnitId, <<Plain(id, b)>>)))
  <1> DEFINE n == NextUnitId
             w == NewUnit(n, <<Plain(id, b)>>)
             us == Append(units, w)
  <1>1. n \in FreeNumbers
    <2>1. FreeNumbers \subseteq Nat
      BY UnitsAssumption DEF FreeNumbers, Numbers
    <2>2. \E m \in FreeNumbers : \A k \in FreeNumbers : m <= k
      BY <2>1, LeastOf, Zenon
    <2> QED BY <2>2, Zenon DEF NextUnitId
  <1>2. n \in Numbers /\ ~Has(n)
    BY <1>1 DEF FreeNumbers
  <1> HIDE DEF n
  <1>3. w \in Unit /\ w.num = n /\ ~w.clip
    BY <1>2, OneShot, NewUnitShape, Zenon
  <1> HIDE DEF w
  <1>4. units \in Seq(Unit) /\ OneUnitANumber(units)
    BY DEF UnitsListed
  <1>5. us \in Seq(Unit)
    BY <1>3, <1>4
  <1>6. /\ DOMAIN units = 1..Len(units) /\ Len(units) \in Nat /\ DOMAIN us = 1..(Len(units) + 1)
        /\ \A i \in 1..Len(units) : us[i] = units[i]
        /\ us[Len(units) + 1] = w
    BY <1>3, <1>4
  <1> HIDE DEF us
  <1>7. \A i \in 1..Len(units) : units[i].num # w.num
    BY <1>2, <1>3, <1>6, Zenon DEF Has
  <1>8. OneUnitANumber(us)
    BY <1>4, <1>6, <1>7 DEF OneUnitANumber
  <1>9. KeepsClips(us)
    <2>1. ASSUME NEW u \in ToSet(us)
          PROVE  Unchanged(u) \/ Renewed(u)
      <3>1. PICK i \in 1..(Len(units) + 1) : u = us[i]
        BY <1>6, <2>1 DEF ToSet
      <3>2. CASE i \in 1..Len(units)
        <4>1. u \in Units
          BY <1>6, <3>1, <3>2 DEF Units, ToSet
        <4> QED BY <4>1, SameItself, Zenon DEF Unchanged
      <3>3. CASE i = Len(units) + 1
        <4>1. u = w
          BY <1>6, <3>1, <3>3
        <4>2. \A v \in Units : v.num # w.num
          BY <1>6, <1>7 DEF Units, ToSet
        <4> QED BY <1>3, <4>1, <4>2, Zenon DEF Renewed
      <3> QED BY <1>6, <3>1, <3>2, <3>3
    <2> QED BY <2>1, Zenon DEF KeepsClips
  <1> QED BY <1>5, <1>8, <1>9, Zenon DEF ListsUnits, us, w, n

LEMMA RemovedUnits ==
  ASSUME UnitsListed, NEW i \in DOMAIN units
  PROVE  ListsUnits(RemoveAt(units, i))
  <1> DEFINE us == RemoveAt(units, i)
  <1>1. units \in Seq(Unit) /\ OneUnitANumber(units)
    BY DEF UnitsListed
  <1>2. /\ us \in Seq(Unit) /\ Len(us) = Len(units) - 1
        /\ \A j \in 1..(Len(units) - 1) : us[j] = units[Without(i, j)]
    BY <1>1, RemovedAt, Zenon
  <1> HIDE DEF us
  <1>3. /\ DOMAIN us = 1..(Len(units) - 1) /\ DOMAIN units = 1..Len(units)
        /\ Len(units) \in Nat /\ i \in 1..Len(units)
    BY <1>1, <1>2
  <1>4. \A j \in DOMAIN us : us[j] = units[Without(i, j)] /\ Without(i, j) \in DOMAIN units
    BY <1>2, <1>3 DEF Without
  <1>5. \A j, k \in DOMAIN us : Without(i, j) = Without(i, k) => j = k
    BY <1>3 DEF Without
  <1>6. ASSUME NEW j \in DOMAIN us, NEW k \in DOMAIN us, us[j].num = us[k].num PROVE j = k
    <2>1. Without(i, j) \in DOMAIN units /\ Without(i, k) \in DOMAIN units
          /\ units[Without(i, j)].num = units[Without(i, k)].num
      BY <1>4, <1>6
    <2>2. Without(i, j) = Without(i, k)
      BY <1>1, <2>1 DEF OneUnitANumber
    <2> QED BY <1>5, <2>2
  <1>7. ToSet(us) \subseteq Units
    BY <1>4 DEF ToSet, Units
  <1>8. OneUnitANumber(us)
    BY <1>6 DEF OneUnitANumber
  <1> QED BY <1>2, <1>7, <1>8, FewerUnits, Zenon DEF us

LEMMA ExchangedUnits ==
  ASSUME UnitsListed, NEW i \in DOMAIN units, i + 1 \in DOMAIN units
  PROVE  ListsUnits([units EXCEPT ![i] = units[i + 1], ![i + 1] = units[i]])
  <1> DEFINE us == [units EXCEPT ![i] = units[i + 1], ![i + 1] = units[i]]
             At(j) == IF j = i THEN i + 1 ELSE IF j = i + 1 THEN i ELSE j
  <1>1. units \in Seq(Unit) /\ OneUnitANumber(units) /\ i \in Nat
    BY DEF UnitsListed
  <1>2. /\ DOMAIN us = DOMAIN units /\ us \in Seq(Unit)
        /\ \A j \in DOMAIN units : us[j] = units[At(j)] /\ At(j) \in DOMAIN units
    BY <1>1
  <1>3. \A j, k \in DOMAIN units : At(j) = At(k) => j = k
    BY <1>1
  <1> HIDE DEF us, At
  <1>4. ASSUME NEW j \in DOMAIN us, NEW k \in DOMAIN us, us[j].num = us[k].num PROVE j = k
    <2>1. At(j) \in DOMAIN units /\ At(k) \in DOMAIN units /\ units[At(j)].num = units[At(k)].num
      BY <1>2, <1>4
    <2>2. At(j) = At(k)
      BY <1>1, <2>1 DEF OneUnitANumber
    <2> QED BY <1>2, <1>3, <2>2
  <1>5. OneUnitANumber(us)
    BY <1>4 DEF OneUnitANumber
  <1>6. ToSet(us) \subseteq Units
    BY <1>2 DEF ToSet, Units
  <1> QED BY <1>2, <1>5, <1>6, FewerUnits, Zenon DEF us

\* The groups of s shots each of a list of l.
GroupEnd(n, s, l) == IF n * s < l THEN n * s ELSE l

LEMMA Groups ==
  ASSUME NEW l \in Nat, NEW s \in Nat \ {0}, NEW n \in 1 .. (l + s - 1) \div s
  PROVE  /\ (n - 1) * s + 1 \in Nat \ {0} /\ (n - 1) * s + 1 <= l /\ n <= l
         /\ GroupEnd(n, s, l) \in Nat /\ GroupEnd(n, s, l) <= l
         /\ (n - 1) * s + 1 <= GroupEnd(n, s, l)
         /\ GroupEnd(n, s, l) - ((n - 1) * s + 1) + 1 \in 1..s
  <1> DEFINE a == l + s - 1
             q == a \div s
  <1>1. a \in Nat /\ q \in Int /\ n \in 1..q
    OBVIOUS
  <1>2. q * s <= a
    <2> HIDE DEF a
    <2> QED BY <1>1
  <1> HIDE DEF a, q
  <1>3. n * s <= q * s /\ n \in Nat
    BY <1>1
  <1> DEFINE m == n * s
  <1>4. n * s <= a /\ n * s \in Nat
    <2>1. n * s \in Nat /\ q * s \in Int
      BY <1>1, <1>3
    <2> HIDE DEF m
    <2> QED BY <1>1, <1>2, <1>3, <2>1
  <1>5. m \in Nat /\ m <= l + s - 1
    BY <1>4 DEF a
  <1>6. (n - 1) * s = m - s
    BY <1>3
  <1>7. n - 1 <= (n - 1) * s /\ (n - 1) * s \in Nat
    BY <1>1, <1>3
  <1>8. GroupEnd(n, s, l) = IF m < l THEN m ELSE l
    BY DEF GroupEnd
  <1> HIDE DEF m
  <1> QED BY <1>3, <1>5, <1>6, <1>7, <1>8

\* Shots that are in the list.
IsListed(group) == \A j \in DOMAIN group : group[j] \in ToSet(adShots)

LEMMA Derivation ==
  ASSUME ShotsListed, NEW size \in 1..UnitSize
  PROVE  /\ \E d \in Nat : DOMAIN Derived(size) = 1..d
         /\ \A n \in DOMAIN Derived(size) :
               /\ Derived(size)[n] \in Unit /\ Derived(size)[n].num = n
               /\ IsListed(Derived(size)[n].of)
  <1> DEFINE l == Len(adShots)
             d == (l + size - 1) \div size
             G(n) == SubSeq(adShots, (n - 1) * size + 1, IF n * size < l THEN n * size ELSE l)
  <1>1. l \in Nat /\ l <= MaxUnit /\ MaxUnit \in Nat /\ size \in Nat \ {0} /\ UnitSize \in Nat
    BY UnitsAssumption DEF ShotsListed
  <1>2. DOMAIN Derived(size) = 1..d /\ \A n \in 1..d : Derived(size)[n] = NewUnit(n, G(n))
    BY DEF Derived
  <1>3. d \in Nat
    <2>1. l + size - 1 \in Nat
      BY <1>1
    <2> QED BY <1>1, <2>1
  <1>4. ASSUME NEW n \in 1..d
        PROVE  n \in Numbers /\ G(n) \in Content /\ IsListed(G(n))
    <2> DEFINE lo == (n - 1) * size + 1
               hi == GroupEnd(n, size, l)
    <2>1. /\ lo \in Nat \ {0} /\ lo <= l /\ n <= l /\ hi \in Nat /\ hi <= l /\ lo <= hi
          /\ hi - lo + 1 \in 1..size
      BY <1>1, <1>4, Groups, Zenon
    <2>2. G(n) = SubSeq(adShots, lo, hi)
      BY DEF GroupEnd
    <2> HIDE DEF lo, hi, l, G
    <2>3. n \in Numbers
      BY <1>1, <1>3, <2>1 DEF Numbers
    <2>4. adShots \in Seq(AdShot) /\ l = Len(adShots)
      BY DEF ShotsListed, l
    <2>5. SubSeq(adShots, lo, hi) \in [1..(hi - lo + 1) -> AdShot] /\ IsListed(SubSeq(adShots, lo, hi))
      <3> DEFINE c == SubSeq(adShots, lo, hi)
      <3>1. /\ c \in Seq(AdShot) /\ Len(c) = hi - lo + 1
            /\ \A j \in 1..(hi - lo + 1) : c[j] = adShots[lo + j - 1] /\ lo + j - 1 \in 1..Len(adShots)
        BY <2>1, <2>4
      <3> HIDE DEF c
      <3>2. c \in [1..Len(c) -> AdShot]
        BY <3>1
      <3>3. \A k \in 1..Len(adShots) : adShots[k] \in ToSet(adShots)
        BY <2>4 DEF ToSet
      <3>4. \A j \in DOMAIN c : c[j] \in ToSet(adShots)
        BY <3>1, <3>2, <3>3
      <3> QED BY <3>1, <3>2, <3>4 DEF c, IsListed
    <2>6. hi - lo + 1 \in 1..UnitSize
      BY <1>1, <2>1
    <2> QED BY <2>2, <2>3, <2>5, <2>6 DEF Content
  <1> HIDE DEF d, G
  <1>5. \A n \in 1..d : /\ Derived(size)[n] \in Unit /\ Derived(size)[n].num = n
                        /\ IsListed(Derived(size)[n].of)
    <2> TAKE n \in 1..d
    <2>1. /\ NewUnit(n, G(n)) \in Unit /\ NewUnit(n, G(n)).num = n
          /\ NewUnit(n, G(n)).of = G(n) /\ IsListed(G(n))
      BY <1>4, NewUnitShape
    <2> QED BY <1>2, <2>1, Zenon
  <1> QED BY <1>2, <1>3, <1>5, Zenon

\* u is a derived unit with its clip if it had one.
Inherits(u, w) ==
    /\ u \in Unit /\ u.num = w.num /\ u.of = w.of
    /\ u.clip <=> \E v \in Units : v.num = w.num /\ v.clip /\ Listed(v.of) = Listed(w.of)

\* Shots of the list that are listed alike are the same, but in a marked unit.
LEMMA ListedAlike ==
  ASSUME isAd, IndexInv, NEW v \in Units, NEW group, IsListed(group), Listed(v.of) = Listed(group)
  PROVE  Alike(v.of, group) \/ Handed(v)
  <1>1. Ids(v.of) = Ids(group)
    <2>1. Listed(v.of).shot_ids = Ids(v.of) /\ Listed(group).shot_ids = Ids(group)
      BY DEF Listed
    <2> QED BY <2>1
  <1>2. DOMAIN v.of = DOMAIN group /\ \A i \in DOMAIN group : v.of[i].id = group[i].id
    <2>1. DOMAIN Ids(v.of) = DOMAIN v.of /\ DOMAIN Ids(group) = DOMAIN group
      BY DEF Ids
    <2>2. \A i \in DOMAIN group : Ids(v.of)[i] = v.of[i].id /\ Ids(group)[i] = group[i].id
      BY <1>1, <2>1 DEF Ids
    <2> QED BY <1>1, <2>1, <2>2
  <1>3. CASE v.num \in reborn
    BY <1>3 DEF Handed
  <1>4. CASE v.num \notin reborn
    <2>1. \A i \in DOMAIN group : v.of[i].birth = group[i].birth
      BY <1>2, <1>4, Zenon DEF IndexInv, UpToDate, IsListed
    <2>2. Births(v.of) = Births(group)
      BY <1>2, <2>1 DEF Births
    <2> QED BY <2>2 DEF Alike
  <1> QED BY <1>3, <1>4

LEMMA DerivedUnits ==
  ASSUME UnitsListed, ShotsListed, isAd, IndexInv, NEW size \in 1..UnitSize
  PROVE  /\ ListsUnits(Merged(Derived(size)))
         /\ \A u \in ToSet(Merged(Derived(size))) : IsListed(u.of)
  <1> DEFINE ds == Derived(size)
             us == Merged(ds)
  <1>1. PICK d \in Nat : DOMAIN ds = 1..d
    BY Derivation, Zenon
  <1>2. \A n \in 1..d : ds[n] \in Unit /\ ds[n].num = n /\ IsListed(ds[n].of)
    BY <1>1, Derivation, Zenon
  <1> HIDE DEF ds
  <1>3. DOMAIN us = 1..d
    BY <1>1 DEF Merged
  <1>4. ASSUME NEW n \in 1..d
        PROVE  Inherits(us[n], ds[n])
    <2> DEFINE w == ds[n]
               b == \E u \in ToSet(units) : u.num = n /\ u.clip /\ Listed(u.of) = Listed(w.of)
    <2>1. us[n] = [w EXCEPT !.clip = b]
      BY <1>1, <1>4, Zenon DEF Merged
    <2>2. b \in BOOLEAN
      OBVIOUS
    <2>3. w \in Unit /\ w.num = n
      BY <1>2, <1>4
    <2>4. b <=> \E v \in Units : v.num = w.num /\ v.clip /\ Listed(v.of) = Listed(w.of)
      BY <2>3, Zenon DEF Units
    <2> HIDE DEF w, b
    <2>5. us[n] \in Unit /\ us[n].num = w.num /\ us[n].of = w.of /\ us[n].clip = b
      <3>1. \A r : r = [w EXCEPT !.clip = b] => r \in Unit /\ r.num = w.num /\ r.of = w.of /\ r.clip = b
        BY <2>2, <2>3 DEF Unit
      <3> HIDE DEF us
      <3> QED BY <2>1, <3>1, Zenon
    <2> HIDE DEF us
    <2>6. Inherits(us[n], w)
      BY <2>4, <2>5, Zenon DEF Inherits
    <2> QED BY <2>6 DEF w
  <1>5. us \in Seq(Unit)
    <2>1. us = [n \in 1..d |-> us[n]]
      BY <1>1 DEF Merged
    <2>2. \A n \in 1..d : us[n] \in Unit
      BY <1>4, Zenon DEF Inherits
    <2> HIDE DEF us
    <2> QED BY <2>1, <2>2
  <1> HIDE DEF us
  <1>6. \A n \in 1..d : us[n].num = n
    BY <1>2, <1>4, Zenon DEF Inherits
  <1>7. OneUnitANumber(us)
    BY <1>3, <1>6, Zenon DEF OneUnitANumber
  <1>8. ASSUME NEW u \in ToSet(us)
        PROVE  IsListed(u.of) /\ (Unchanged(u) \/ Renewed(u))
    <2>1. PICK n \in 1..d : u = us[n]
      BY <1>3, <1>8 DEF ToSet
    <2> DEFINE w == ds[n]
    <2>2. Inherits(u, w) /\ IsListed(w.of)
      BY <1>2, <1>4, <2>1, Zenon
    <2> HIDE DEF w
    <2>3. IsListed(u.of)
      BY <2>2, Zenon DEF Inherits
    <2>4. CASE \E v \in Units : v.num = u.num /\ Listed(v.of) = Listed(u.of)
      <3>1. PICK v \in Units : v.num = u.num /\ Listed(v.of) = Listed(u.of)
        BY <2>4
      <3>2. u.clip <=> v.clip
        <4>1. \A t \in Units : t.num = v.num => t = v
          BY <3>1, UnitsOf, Zenon
        <4> QED BY <2>2, <3>1, <4>1, Zenon DEF Inherits
      <3>3. Alike(v.of, u.of) \/ Handed(v)
        BY <2>3, <3>1, ListedAlike, Zenon
      <3> QED BY <2>3, <3>1, <3>2, <3>3, Zenon DEF Unchanged, SameUnit
    <2>5. CASE ~\E v \in Units : v.num = u.num /\ Listed(v.of) = Listed(u.of)
      BY <2>2, <2>3, <2>5, Zenon DEF Inherits, Renewed
    <2> QED BY <2>4, <2>5, Zenon
  <1>9. KeepsClips(us)
    BY <1>8, Zenon DEF KeepsClips
  <1> QED BY <1>5, <1>7, <1>8, <1>9, Zenon DEF ListsUnits, us, ds

-----------------------------------------------------------------------------
(* The steps of tasks and uploads.                                         *)

LEMMA QueuedUnits ==
  ASSUME UnitShapes, NEW ns, unitJobs' = QueuedFor(ns)
  PROVE  /\ unitJobs' \in [Numbers -> UnitWork \cup {NoWork}]
         /\ NoJobMoves
  <1>1. unitJobs \in [Numbers -> UnitWork \cup {NoWork}]
    BY DEF UnitShapes, WorkShapes
  <1>2. [of |-> <<>>, at |-> "queued"] \in UnitWork
    BY DEF UnitWork, Contents
  <1> QED BY <1>1, <1>2 DEF QueuedFor, NoJobMoves

LEMMA UnitsQueued ==
  ASSUME UnitsInv, NEW n \in Numbers, GenerateUnit(n)
  PROVE  UnitsInv'
  <1>1. /\ unitJobs' = QueuedFor({n}) /\ Bounded("asks", MaxUnitAsks)
        /\ UNCHANGED <<isAd, adShots, units, videos, unitUpload, unitTool, births,
                       handedOver, reborn, inheriting, toldDone>>
    BY DEF GenerateUnit, histories
  <1>2. UnitShapes /\ \A u \in Units : Holds(u)
    BY DEF UnitsInv
  <1>3. /\ unitJobs' \in [Numbers -> UnitWork \cup {NoWork}]
        /\ NoJobMoves
    BY <1>1, <1>2, QueuedUnits, Zenon
  <1>4. unitCounts' \in [UnitMoves -> Nat]
    BY <1>1, <1>2, UnitMoveCounts DEF UnitShapes, UnitMoves
  <1>5. /\ UnitsListed' /\ Units' = Units
        /\ \A u \in Units : /\ ClipHolds(u)' /\ FileHolds(u)'
                            /\ (Showing(u)' <=> Showing(u)) /\ (Told(u)' <=> Told(u))
                            /\ (Handed(u)' <=> Handed(u))
    BY <1>1, FilesStay
  <1>6. UnitShapes'
    BY <1>1, <1>2, <1>3, <1>4, <1>5 DEF UnitShapes, WorkShapes, ShotsListed, NoJobMoves
  <1>7. ASSUME NEW u \in Units
        PROVE  Holds(u)'
    <2>1. u.num \in Numbers
      BY <1>2, UnitsOf, Zenon DEF UnitShapes
    <2>2. JobHolds(u)'
      BY <1>2, <1>3, <1>5, <2>1 DEF Holds, JobHolds, NoJobMoves
    <2>3. UploadHolds(u)' /\ ToolHolds(u)' /\ ReportHolds(u)'
      BY <1>1, <1>2, <1>5 DEF Holds, UploadHolds, ToolHolds, ReportHolds, Claimed
    <2> QED BY <1>5, <2>2, <2>3 DEF Holds
  <1> QED BY <1>5, <1>6, <1>7 DEF UnitsInv

\* The end of a task, or of its record, claims no more than it did.
LEMMA WorkEndHolds ==
  ASSUME UnitShapes, NEW n \in Numbers, NEW ok \in BOOLEAN, EndWork(n, ok),
         NEW u, u.num \in Numbers, Holds(u), UNCHANGED <<unitUpload, toldDone>>,
         NEW v, v.num = u.num, v.of = u.of, Showing(v)' <=> Showing(u), Handed(v)' <=> Handed(u),
         Told(u) => Told(v)', u.num = n /\ ok => Told(v)'
  PROVE  JobHolds(v)' /\ UploadHolds(v)' /\ ToolHolds(v)' /\ ReportHolds(v)'
  <1>1. /\ unitJobs'[n] = NoWork /\ \A k \in Numbers : k # n => unitJobs'[k] = unitJobs[k]
        /\ \A k : Claimed(k)' => Claimed(k) \/ (k = n /\ ok)
    BY WorkEnds, Zenon
  <1>2. JobHolds(v)'
    <2>1. CASE u.num = n
      BY <1>1, <2>1 DEF JobHolds
    <2>2. CASE u.num # n
      BY <1>1, <2>2 DEF Holds, JobHolds
    <2> QED BY <2>1, <2>2
  <1>3. UploadHolds(v)'
    BY DEF Holds, UploadHolds
  <1>4. ToolHolds(v)'
    BY <1>1, Zenon DEF Holds, ToolHolds
  <1>5. ReportHolds(v)'
    BY DEF Holds, ReportHolds
  <1> QED BY <1>2, <1>3, <1>4, <1>5

LEMMA WorkEndShapes ==
  ASSUME UnitShapes, NEW n \in Numbers, NEW ok \in BOOLEAN, EndWork(n, ok),
         UNCHANGED <<videos, unitUpload>>
  PROVE  WorkShapes' /\ unitTool' \in UnitTools
  <1>1. /\ unitJobs'[n] = NoWork /\ \A k \in Numbers : k # n => unitJobs'[k] = unitJobs[k]
        /\ unitJobs' \in [Numbers -> UnitWork \cup {NoWork}] /\ unitTool' \in UnitTools
    BY WorkEnds, Zenon
  <1> QED BY <1>1 DEF UnitShapes, WorkShapes

LEMMA UnitFails ==
  ASSUME UnitsInv, NEW n \in Numbers, EndWork(n, FALSE), unitCounts' \in [UnitMoves -> Nat],
         UNCHANGED <<isAd, adShots, units, videos, unitUpload, births, handedOver, reborn, inheriting, toldDone>>
  PROVE  UnitsInv'
  <1>1. UnitShapes /\ (\A u \in Units : Holds(u)) /\ FALSE \in BOOLEAN
    BY DEF UnitsInv
  <1>2. /\ UnitsListed' /\ Units' = Units
        /\ \A u \in Units : /\ ClipHolds(u)' /\ FileHolds(u)'
                            /\ (Showing(u)' <=> Showing(u)) /\ (Told(u)' <=> Told(u))
                            /\ (Handed(u)' <=> Handed(u))
    BY FilesStay
  <1>3. WorkShapes' /\ unitTool' \in UnitTools
    BY <1>1, WorkEndShapes
  <1>4. UnitShapes'
    BY <1>1, <1>2, <1>3 DEF UnitShapes, ShotsListed
  <1>5. ASSUME NEW u \in Units
        PROVE  Holds(u)'
    <2>1. u.num \in Numbers
      BY <1>1, UnitsOf, Zenon DEF UnitShapes
    <2>2. JobHolds(u)' /\ UploadHolds(u)' /\ ToolHolds(u)' /\ ReportHolds(u)'
      BY <1>1, <1>2, <2>1, WorkEndHolds
    <2> QED BY <1>2, <2>2 DEF Holds
  <1> QED BY <1>2, <1>4, <1>5 DEF UnitsInv

\* What a unit that resolves is of now is what it was derived of, if it is not
\* marked.
LEMMA ResolvedUnit ==
  ASSUME UnitsListed, ShotsListed, IndexInv, NEW w \in Units, Resolves(w)
  PROVE  Resolved(w) \in Content /\ (Alike(Resolved(w), w.of) \/ Handed(w))
  <1>1. w.of \in Content
    BY UnitsOf, Zenon
  <1>2. CASE ~isAd
    <2>1. Resolved(w) = w.of
      BY <1>2, Zenon DEF Resolved
    <2> QED BY <1>1, <2>1 DEF Alike
  <1>3. CASE isAd
    <2> DEFINE c == Resolved(w)
    <2>1. PICK k \in 1..UnitSize : w.of \in [1..k -> AdShot]
      BY <1>1 DEF Content
    <2>2. DOMAIN w.of = 1..k /\ \A i \in 1..k : w.of[i] \in AdShot
      BY <2>1
    <2>3. DOMAIN c = 1..k /\ \A i \in 1..k : c[i] = [w.of[i] EXCEPT !.birth = Born(w.of[i].id)]
      BY <1>3, <2>2 DEF Resolved
    <2>4. \A s \in ToSet(adShots) : s.birth \in Nat
      <3>1. \A s \in ToSet(adShots) : s \in AdShot
        BY DEF ShotsListed, ToSet
      <3> QED BY <3>1 DEF AdShot
    <2>5. ASSUME NEW i \in 1..k
          PROVE  \E s \in ToSet(adShots) : s.id = w.of[i].id /\ s.birth = Born(w.of[i].id)
      <3> DEFINE id == w.of[i].id
                 s == CHOOSE t \in ToSet(adShots) : t.id = id
      <3>1. w.of[i] \in ToSet(w.of)
        BY <2>2 DEF ToSet
      <3>2. s \in ToSet(adShots) /\ s.id = id
        BY <1>3, <3>1, Zenon DEF Resolves
      <3>3. Born(id) = s.birth
        BY Zenon DEF Born
      <3> QED BY <3>2, <3>3, Zenon
    <2>6. \A i \in 1..k : Born(w.of[i].id) \in Nat
      BY <2>4, <2>5, Zenon
    <2> HIDE DEF c
    <2>7. \A i \in 1..k : /\ c[i] \in AdShot /\ c[i].id = w.of[i].id /\ c[i].cast = w.of[i].cast
                          /\ c[i].birth = Born(w.of[i].id)
      BY <2>2, <2>3, <2>6 DEF AdShot
    <2>8. c = [i \in 1..k |-> [w.of[i] EXCEPT !.birth = Born(w.of[i].id)]]
      BY <1>3, <2>2 DEF Resolved, c
    <2>9. c \in [1..k -> AdShot]
      BY <2>3, <2>7, <2>8
    <2>10. c \in Content
      BY <2>9 DEF Content
    <2>11. CASE w.num \in reborn
      BY <2>10, <2>11 DEF Handed, c
    <2>12. CASE w.num \notin reborn
      <3>1. \A i \in 1..k : Born(w.of[i].id) = w.of[i].birth
        BY <1>3, <2>2, <2>5, <2>12, Zenon DEF IndexInv, UpToDate
      <3>2. \A i \in 1..k : c[i] = w.of[i]
        BY <2>2, <2>7, <3>1 DEF AdShot
      <3>3. c = w.of
        BY <2>1, <2>9, <3>2
      <3> QED BY <2>10, <3>3 DEF Alike, c
    <2> QED BY <2>11, <2>12
  <1> QED BY <1>2, <1>3

LEMMA UnitStarts ==
  ASSUME UnitsInv, IndexInv, NEW n \in Numbers, StartUnit(n)
  PROVE  UnitsInv'
  <1>1. UnitShapes /\ (\A u \in Units : Holds(u)) /\ UnitsListed
    BY DEF UnitsInv, UnitShapes
  <1>2. UNCHANGED <<isAd, adShots, units, videos, unitUpload, births, handedOver, reborn, inheriting,
                    toldDone, unitCounts>>
    BY DEF StartUnit, histories
  <1>3. CASE ~(Has(n) /\ Resolves(UnitOf(n)))
    <2>1. EndWork(n, FALSE)
      BY <1>3, Zenon DEF StartUnit
    <2>2. unitCounts' \in [UnitMoves -> Nat]
      BY <1>1, <1>2 DEF UnitShapes
    <2> QED BY <1>2, <2>1, <2>2, UnitFails
  <1>4. CASE Has(n) /\ Resolves(UnitOf(n))
    <2>1. PICK w \in Units : w.num = n
      BY <1>1, <1>4, UnitsOf, Zenon
    <2> DEFINE c == Resolved(w)
    <2>0. UnitOf(n) = w
      BY <1>1, <2>1, UnitsOf, Zenon
    <2>2. UnitOf(n) = w /\ c \in Content /\ (Alike(c, w.of) \/ Handed(w))
      <3>1. ShotsListed /\ Resolves(w)
        BY <1>1, <1>4, <2>0 DEF UnitShapes
      <3> QED BY <1>1, <2>0, <3>1, ResolvedUnit, Zenon
    <2> HIDE DEF c
    <2>3. unitJobs' = [unitJobs EXCEPT ![n] = [of |-> c, at |-> "running"]] /\ unitTool' = unitTool
      BY <1>4, <2>2 DEF StartUnit, c
    <2>4. unitJobs \in [Numbers -> UnitWork \cup {NoWork}]
      BY <1>1 DEF UnitShapes, WorkShapes
    <2>5. [of |-> c, at |-> "running"] \in UnitWork
      BY <2>2 DEF UnitWork, Contents
    <2>6. /\ unitJobs' \in [Numbers -> UnitWork \cup {NoWork}]
          /\ unitJobs'[n] = [of |-> c, at |-> "running"]
          /\ \A k \in Numbers : k # n => unitJobs'[k] = unitJobs[k]
      BY <2>3, <2>4, <2>5
    <2>7. /\ UnitsListed' /\ Units' = Units
          /\ \A u \in Units : /\ ClipHolds(u)' /\ FileHolds(u)'
                              /\ (Showing(u)' <=> Showing(u)) /\ (Told(u)' <=> Told(u))
                              /\ (Handed(u)' <=> Handed(u))
      BY <1>2, FilesStay
    <2>8. WorkShapes'
      BY <1>1, <1>2, <2>2, <2>6 DEF UnitShapes, WorkShapes
    <2>9. UnitShapes'
      BY <1>1, <1>2, <2>3, <2>7, <2>8 DEF UnitShapes, ShotsListed
    <2>10. ASSUME NEW u \in Units
           PROVE  Holds(u)'
      <3>1. u.num \in Numbers /\ (u.num = n => u = w)
        BY <1>1, <2>1, UnitsOf, Zenon
      <3>2. JobHolds(u)'
        <4>1. CASE u.num = n
          BY <2>2, <2>6, <2>7, <3>1, <4>1 DEF JobHolds
        <4>2. CASE u.num # n
          BY <1>1, <2>6, <2>7, <3>1, <4>2 DEF Holds, JobHolds
        <4> QED BY <4>1, <4>2
      <3>3. UploadHolds(u)' /\ ToolHolds(u)' /\ ReportHolds(u)'
        BY <1>1, <1>2, <2>3, <2>7 DEF Holds, UploadHolds, ToolHolds, ReportHolds, Claimed
      <3> QED BY <2>7, <3>2, <3>3 DEF Holds
    <2> QED BY <2>7, <2>9, <2>10 DEF UnitsInv
  <1> QED BY <1>3, <1>4

LEMMA VideoWritten ==
  ASSUME UnitsInv, NEW n \in Numbers, WriteVideo(n)
  PROVE  UnitsInv'
  <1>1. UnitShapes /\ (\A u \in Units : Holds(u)) /\ UnitsListed
    BY DEF UnitsInv, UnitShapes
  <1>2. /\ unitJobs[n] # NoWork /\ unitJobs[n].at = "running"
        /\ unitJobs' = [unitJobs EXCEPT ![n].at = "written"]
        /\ videos' = [videos EXCEPT ![n] = unitJobs[n].of]
        /\ UNCHANGED <<isAd, adShots, units, unitUpload, unitTool, births, handedOver, reborn, inheriting,
                       toldDone, unitCounts>>
    BY DEF WriteVideo, histories
  <1>3. unitJobs \in [Numbers -> UnitWork \cup {NoWork}] /\ unitJobs[n].of \in Content
    BY <1>1, <1>2 DEF UnitShapes, WorkShapes
  <1>4. \A u \in Units : u.num = n => Alike(unitJobs[n].of, u.of) \/ Handed(u)
    BY <1>1, <1>2 DEF Holds, JobHolds
  <1>5. /\ videos' \in [Numbers -> Content \cup {NoVideo}]
        /\ UnitsListed' /\ Units' = Units
        /\ \A u \in Units : /\ ClipHolds(u)' /\ FileHolds(u)'
                            /\ (Showing(u) => Showing(u)') /\ (Told(u) => Told(u)')
                            /\ (Handed(u)' <=> Handed(u))
                            /\ u.num = n => Showing(u)'
    BY <1>2, <1>3, <1>4, FileWritten
  <1>6. unitJobs[n] \in UnitWork
    BY <1>2, <1>3
  <1>7. /\ unitJobs' \in [Numbers -> UnitWork \cup {NoWork}]
        /\ unitJobs'[n].at = "written" /\ unitJobs'[n].of = unitJobs[n].of
        /\ \A k \in Numbers : k # n => unitJobs'[k] = unitJobs[k]
    BY <1>2, <1>3, <1>6 DEF UnitWork
  <1>8. WorkShapes'
    BY <1>1, <1>2, <1>3, <1>5, <1>7 DEF UnitShapes, WorkShapes
  <1>9. UnitShapes'
    BY <1>1, <1>2, <1>5, <1>8 DEF UnitShapes, ShotsListed
  <1>10. ASSUME NEW u \in Units
         PROVE  Holds(u)'
    <2>1. u.num \in Numbers
      BY <1>1, UnitsOf, Zenon
    <2>2. JobHolds(u)'
      <3>1. CASE u.num = n
        BY <1>5, <1>7, <3>1 DEF JobHolds
      <3>2. CASE u.num # n
        BY <1>1, <1>5, <1>7, <2>1, <3>2 DEF Holds, JobHolds
      <3> QED BY <3>1, <3>2
    <2>3. UploadHolds(u)' /\ ToolHolds(u)' /\ ReportHolds(u)'
      BY <1>1, <1>2, <1>5 DEF Holds, UploadHolds, ToolHolds, ReportHolds, Claimed
    <2> QED BY <1>5, <2>2, <2>3 DEF Holds
  <1> QED BY <1>5, <1>9, <1>10 DEF UnitsInv

LEMMA UnitRecorded ==
  ASSUME UnitsInv, NEW n \in Numbers, RecordUnit(n)
  PROVE  UnitsInv'
  <1>1. UnitShapes /\ (\A u \in Units : Holds(u)) /\ UnitsListed
    BY DEF UnitsInv, UnitShapes
  <1>2. /\ unitJobs[n] # NoWork /\ unitJobs[n].at = "written"
        /\ units' = WithClip(n) /\ EndWork(n, Has(n)) /\ Has(n) \in BOOLEAN
        /\ UNCHANGED <<isAd, adShots, videos, unitUpload, births, handedOver, reborn, inheriting,
                       toldDone, unitCounts>>
    BY DEF RecordUnit, histories, Has
  <1>3. \A u \in Units : u.num = n => Showing(u)
    BY <1>1, <1>2 DEF Holds, JobHolds
  <1>4. /\ UnitsListed'
        /\ \A u \in Units' : /\ ClipHolds(u)' /\ FileHolds(u)' /\ (u.num = n => Told(u)')
                             /\ \E v \in Units : /\ v.num = u.num /\ v.of = u.of
                                                 /\ (Showing(u)' <=> Showing(v))
                                                 /\ (Handed(u)' <=> Handed(v))
                                                 /\ (Told(v) => Told(u)')
    BY <1>2, <1>3, ClipRecorded
  <1>5. WorkShapes' /\ unitTool' \in UnitTools
    BY <1>1, <1>2, WorkEndShapes
  <1>6. UnitShapes'
    BY <1>1, <1>2, <1>4, <1>5 DEF UnitShapes, ShotsListed
  <1>7. ASSUME NEW u \in Units'
        PROVE  Holds(u)'
    <2>1. PICK v \in Units : /\ v.num = u.num /\ v.of = u.of
                             /\ (Showing(u)' <=> Showing(v))
                             /\ (Handed(u)' <=> Handed(v))
                             /\ (Told(v) => Told(u)')
      BY <1>4, Zenon
    <2>2. Holds(v) /\ v.num \in Numbers /\ (v.num = n => Told(u)') /\ u.num = v.num /\ u.of = v.of
      BY <1>1, <1>4, <2>1, UnitsOf, Zenon
    <2>3. JobHolds(u)' /\ UploadHolds(u)' /\ ToolHolds(u)' /\ ReportHolds(u)'
      BY <1>1, <1>2, <2>1, <2>2, WorkEndHolds
    <2> QED BY <1>4, <2>3 DEF Holds
  <1> QED BY <1>6, <1>7 DEF UnitsInv

LEMMA UploadStarted ==
  ASSUME UnitsInv, NEW n \in Numbers, UploadStarts(n)
  PROVE  UnitsInv'
  <1>1. UnitShapes /\ (\A u \in Units : Holds(u)) /\ UnitsListed
    BY DEF UnitsInv, UnitShapes
  <1>2. /\ Has(n) /\ Bounded("asks", MaxUnitAsks)
        /\ unitUpload' = [num |-> n, of |-> UnitOf(n).of, at |-> "started"]
        /\ UNCHANGED <<isAd, adShots, units, videos, unitJobs, unitTool, births, handedOver, reborn, inheriting,
                       toldDone>>
    BY DEF UploadStarts, histories
  <1>3. PICK w \in Units : w.num = n
    BY <1>1, <1>2, UnitsOf, Zenon
  <1>4. UnitOf(n) = w /\ w.of \in Content
    BY <1>1, <1>3, UnitsOf, Zenon
  <1>5. unitUpload' = [num |-> n, of |-> w.of, at |-> "started"]
    BY <1>2, <1>4, Zenon
  <1>6. unitUpload' \in UnitUploads /\ unitUpload'.num = n /\ unitUpload'.of = w.of
          /\ unitUpload'.at = "started"
    BY <1>4, <1>5, UnitsAssumption DEF UnitUploads, Contents, Numbers
  <1>7. unitCounts' \in [UnitMoves -> Nat]
    BY <1>1, <1>2, UnitMoveCounts DEF UnitShapes, UnitMoves
  <1>8. /\ UnitsListed' /\ Units' = Units
        /\ \A u \in Units : /\ ClipHolds(u)' /\ FileHolds(u)'
                            /\ (Showing(u)' <=> Showing(u)) /\ (Told(u)' <=> Told(u))
                            /\ (Handed(u)' <=> Handed(u))
    BY <1>2, FilesStay
  <1>9. WorkShapes'
    BY <1>1, <1>2, <1>4, <1>6 DEF UnitShapes, WorkShapes
  <1>10. UnitShapes'
    BY <1>1, <1>2, <1>7, <1>8, <1>9 DEF UnitShapes, ShotsListed
  <1>11. ASSUME NEW u \in Units
         PROVE  Holds(u)'
    <2>1. u.num = n => u = w
      BY <1>1, <1>3, UnitsOf, Zenon
    <2>2. UploadHolds(u)'
      BY <1>6, <2>1 DEF UploadHolds, Alike
    <2>3. JobHolds(u)' /\ ToolHolds(u)' /\ ReportHolds(u)'
      BY <1>1, <1>2, <1>8 DEF Holds, JobHolds, ToolHolds, ReportHolds, Claimed
    <2> QED BY <1>8, <2>2, <2>3 DEF Holds
  <1> QED BY <1>8, <1>10, <1>11 DEF UnitsInv

LEMMA UploadSaved ==
  ASSUME UnitsInv, UploadSavesVideo
  PROVE  UnitsInv'
  <1>1. UnitShapes /\ (\A u \in Units : Holds(u)) /\ UnitsListed
    BY DEF UnitsInv, UnitShapes
  <1> DEFINE n == unitUpload.num
             c == unitUpload.of
  <1>2. /\ unitUpload.at = "started" /\ unitUpload' = [unitUpload EXCEPT !.at = "saved"]
        /\ videos' = [videos EXCEPT ![n] = c]
        /\ UNCHANGED <<isAd, adShots, units, unitJobs, unitTool, births, handedOver, reborn, inheriting,
                       toldDone, unitCounts>>
    BY DEF UploadSavesVideo, histories
  <1>3. unitUpload \in UnitUploads /\ n \in Numbers /\ c \in Content
    BY <1>1, <1>2 DEF UnitShapes, WorkShapes
  <1>4. \A u \in Units : u.num = n => Alike(c, u.of) \/ Handed(u)
    BY <1>1, <1>2 DEF Holds, UploadHolds
  <1>5. /\ unitUpload' \in UnitUploads /\ unitUpload'.num = n /\ unitUpload'.of = c
        /\ unitUpload'.at = "saved"
    BY <1>2, <1>3 DEF UnitUploads
  <1> HIDE DEF n, c
  <1>6. /\ videos' \in [Numbers -> Content \cup {NoVideo}]
        /\ UnitsListed' /\ Units' = Units
        /\ \A u \in Units : /\ ClipHolds(u)' /\ FileHolds(u)'
                            /\ (Showing(u) => Showing(u)') /\ (Told(u) => Told(u)')
                            /\ (Handed(u)' <=> Handed(u))
                            /\ u.num = n => Showing(u)'
    BY <1>2, <1>3, <1>4, FileWritten
  <1>7. WorkShapes'
    BY <1>1, <1>2, <1>3, <1>5, <1>6 DEF UnitShapes, WorkShapes
  <1>8. UnitShapes'
    BY <1>1, <1>2, <1>6, <1>7 DEF UnitShapes, ShotsListed
  <1>9. ASSUME NEW u \in Units
        PROVE  Holds(u)'
    <2>1. UploadHolds(u)'
      BY <1>5, <1>6 DEF UploadHolds
    <2>2. JobHolds(u)' /\ ToolHolds(u)' /\ ReportHolds(u)'
      BY <1>1, <1>2, <1>6 DEF Holds, JobHolds, ToolHolds, ReportHolds, Claimed
    <2> QED BY <1>6, <2>1, <2>2 DEF Holds
  <1> QED BY <1>6, <1>8, <1>9 DEF UnitsInv

LEMMA UploadRechecked ==
  ASSUME UnitsInv, UploadRechecks
  PROVE  UnitsInv'
  <1>1. UnitShapes /\ (\A u \in Units : Holds(u)) /\ UnitsListed
    BY DEF UnitsInv, UnitShapes
  <1>2. /\ unitUpload.at = "saved"
        /\ UNCHANGED <<isAd, adShots, units, videos, unitJobs, unitTool, births, handedOver, reborn, inheriting,
                       toldDone, unitCounts>>
    BY DEF UploadRechecks, histories
  <1>3. unitUpload' = NoUpload \/ unitUpload' = [unitUpload EXCEPT !.at = "checked"]
    BY DEF UploadRechecks
  <1>4. unitUpload \in UnitUploads /\ NoUpload \in UnitUploads /\ NoUpload.at = "none"
    BY <1>1, UnitsAssumption DEF UnitShapes, WorkShapes, NoUpload, UnitUploads, Contents
  <1>5. /\ unitUpload' \in UnitUploads
        /\ \/ unitUpload'.at = "none"
           \/ /\ unitUpload'.num = unitUpload.num /\ unitUpload'.of = unitUpload.of
              /\ unitUpload'.at = "checked"
    BY <1>3, <1>4 DEF UnitUploads
  <1>6. /\ UnitsListed' /\ Units' = Units
        /\ \A u \in Units : /\ ClipHolds(u)' /\ FileHolds(u)'
                            /\ (Showing(u)' <=> Showing(u)) /\ (Told(u)' <=> Told(u))
                            /\ (Handed(u)' <=> Handed(u))
    BY <1>2, FilesStay
  <1>7. WorkShapes'
    BY <1>1, <1>2, <1>5 DEF UnitShapes, WorkShapes
  <1>8. UnitShapes'
    BY <1>1, <1>2, <1>6, <1>7 DEF UnitShapes, ShotsListed
  <1>9. ASSUME NEW u \in Units
        PROVE  Holds(u)'
    <2>1. UploadHolds(u)'
      BY <1>1, <1>2, <1>5, <1>6 DEF Holds, UploadHolds
    <2>2. JobHolds(u)' /\ ToolHolds(u)' /\ ReportHolds(u)'
      BY <1>1, <1>2, <1>6 DEF Holds, JobHolds, ToolHolds, ReportHolds, Claimed
    <2> QED BY <1>6, <2>1, <2>2 DEF Holds
  <1> QED BY <1>6, <1>8, <1>9 DEF UnitsInv

LEMMA UploadRecorded ==
  ASSUME UnitsInv, UploadRecordsUnit
  PROVE  UnitsInv'
  <1>1. UnitShapes /\ (\A u \in Units : Holds(u)) /\ UnitsListed
    BY DEF UnitsInv, UnitShapes
  <1> DEFINE n == unitUpload.num
  <1>2. /\ unitUpload.at = "checked" /\ unitUpload' = NoUpload /\ units' = WithClip(n)
        /\ UNCHANGED <<isAd, adShots, videos, unitJobs, unitTool, births, handedOver, reborn, inheriting,
                       toldDone, unitCounts>>
    BY DEF UploadRecordsUnit, histories
  <1>3. n \in Numbers
    BY <1>1, <1>2 DEF UnitShapes, WorkShapes
  <1>4. \A u \in Units : u.num = n => Showing(u)
    BY <1>1, <1>2 DEF Holds, UploadHolds
  <1>5. unitUpload' \in UnitUploads /\ unitUpload'.at = "none"
    BY <1>2, UnitsAssumption DEF NoUpload, UnitUploads, Contents
  <1> HIDE DEF n
  <1>6. /\ UnitsListed'
        /\ \A u \in Units' : /\ ClipHolds(u)' /\ FileHolds(u)' /\ (u.num = n => Told(u)')
                             /\ \E v \in Units : /\ v.num = u.num /\ v.of = u.of
                                                 /\ (Showing(u)' <=> Showing(v))
                                                 /\ (Handed(u)' <=> Handed(v))
                                                 /\ (Told(v) => Told(u)')
    BY <1>2, <1>3, <1>4, ClipRecorded
  <1>7. WorkShapes'
    BY <1>1, <1>2, <1>5 DEF UnitShapes, WorkShapes
  <1>8. UnitShapes'
    BY <1>1, <1>2, <1>6, <1>7 DEF UnitShapes, ShotsListed
  <1>9. ASSUME NEW u \in Units'
        PROVE  Holds(u)'
    <2>1. PICK v \in Units : /\ v.num = u.num /\ v.of = u.of
                             /\ (Showing(u)' <=> Showing(v))
                             /\ (Handed(u)' <=> Handed(v))
                             /\ (Told(v) => Told(u)')
      BY <1>6, Zenon
    <2>2. UploadHolds(u)'
      BY <1>5 DEF UploadHolds
    <2>3. Holds(v)
      BY <1>1
    <2>4. JobHolds(u)' /\ ToolHolds(u)' /\ ReportHolds(u)'
      BY <1>2, <2>1, <2>3 DEF Holds, JobHolds, ToolHolds, ReportHolds, Claimed
    <2> QED BY <1>6, <2>2, <2>4 DEF Holds
  <1> QED BY <1>8, <1>9 DEF UnitsInv

-----------------------------------------------------------------------------
(* Edits and tools.                                                        *)

LEMMA HandsKeepShape ==
  ASSUME UnitShapes, NEW us, Replace(us)
  PROVE  handedOver' \subseteq Numbers /\ reborn' \subseteq Numbers /\ inheriting' \subseteq Numbers
BY DEF UnitShapes, Replace, ChangedBy

LEMMA UnitsRearranged ==
  ASSUME UnitsInv, NEW us, ListsUnits(us), Rearrange(us), Bounded("edits", MaxUnitEdits),
         births' \in Nat, UNCHANGED <<isAd, adShots, videos, unitJobs, unitUpload>>
  PROVE  UnitsInv'
  <1>1. UnitShapes /\ (\A u \in Units : Holds(u)) /\ UnitsListed
    BY DEF UnitsInv, UnitShapes
  <1>2. /\ Replace(us) /\ units' = us
        /\ unitTool' = [unitTool EXCEPT !.counted = @ \ ChangedBy(us)]
    BY DEF Rearrange, Replace
  <1>3. /\ \A u \in Units' : (FilesHold(u) /\ ReportHolds(u))'
        /\ \A u \in Units' : \A v \in Units :
              SameUnit(u, v) /\ u.num \notin ChangedBy(us) /\ Told(v) => Told(u)'
    <2>1. NoJobMoves
      BY DEF NoJobMoves
    <2> QED BY <1>2, <2>1, ReplaceKeeps
  <1>4. unitTool \in UnitTools
    BY <1>1 DEF UnitShapes
  <1>5. /\ unitTool' \in UnitTools
        /\ \A k : Claimed(k)' => Claimed(k) /\ k \notin ChangedBy(us)
    BY <1>2, <1>4 DEF UnitTools, Claimed
  <1>6. unitCounts' \in [UnitMoves -> Nat]
    BY <1>1, UnitMoveCounts DEF UnitShapes, UnitMoves
  <1>7. UnitsListed'
    BY <1>2 DEF ListsUnits, UnitsListed, OneUnitANumber
  <1>8. UnitShapes'
    BY <1>1, <1>2, <1>5, <1>6, <1>7, HandsKeepShape DEF UnitShapes, ShotsListed, WorkShapes
  <1>9. ASSUME NEW u \in Units', Claimed(u.num)'
        PROVE  Told(u)'
    <2>1. u \in ToSet(us) /\ Claimed(u.num) /\ u.num \notin ChangedBy(us)
      BY <1>2, <1>5, <1>9 DEF Units
    <2>2. Unchanged(u)
      BY <1>1, <2>1, WhoIsChanged, Zenon
    <2>3. PICK v \in Units : SameUnit(u, v)
      BY <2>2, Zenon DEF Unchanged
    <2>4. Told(v)
      BY <1>1, <2>1, <2>3, Zenon DEF Holds, ToolHolds, SameUnit
    <2> QED BY <1>3, <2>1, <2>3, <2>4, Zenon
  <1>10. ASSUME NEW u \in Units' PROVE Holds(u)'
    <2>1. ToolHolds(u)'
      BY <1>9 DEF ToolHolds
    <2>2. (FilesHold(u) /\ ReportHolds(u))'
      BY <1>3
    <2> QED BY <2>1, <2>2 DEF Holds, FilesHold
  <1> QED BY <1>8, <1>10 DEF UnitsInv

LEMMA UnitAdded ==
  ASSUME UnitsInv, AddUnit
  PROVE  UnitsInv'
  <1>1. UnitsListed /\ births \in Nat
    BY DEF UnitsInv, UnitShapes
  <1> DEFINE us == Append(units, NewUnit(NextUnitId, <<Plain(births + 1, births + 1)>>))
  <1>2. /\ FreeNumbers # {} /\ births + 1 \in ShotPool /\ births' = births + 1
        /\ Rearrange(us) /\ Bounded("edits", MaxUnitEdits)
        /\ UNCHANGED <<isAd, adShots, videos, unitJobs, unitUpload>>
    BY DEF AddUnit
  <1>3. ListsUnits(us)
    <2>1. births + 1 \in Nat
      BY <1>1
    <2> QED BY <1>1, <1>2, <2>1, AddedUnits
  <1> HIDE DEF us
  <1> QED BY <1>1, <1>2, <1>3, UnitsRearranged

LEMMA UnitDeleted ==
  ASSUME UnitsInv, NEW i \in DOMAIN units, DeleteUnit(i)
  PROVE  UnitsInv'
  <1>1. UnitsListed /\ births \in Nat
    BY DEF UnitsInv, UnitShapes
  <1> DEFINE us == RemoveAt(units, i)
  <1>2. /\ Rearrange(us) /\ Bounded("edits", MaxUnitEdits)
        /\ UNCHANGED <<isAd, adShots, videos, unitJobs, unitUpload, births>>
    BY DEF DeleteUnit
  <1>3. ListsUnits(us)
    BY <1>1, RemovedUnits
  <1> HIDE DEF us
  <1> QED BY <1>1, <1>2, <1>3, UnitsRearranged

LEMMA UnitsReordered ==
  ASSUME UnitsInv, NEW i \in DOMAIN units, ReorderUnits(i)
  PROVE  UnitsInv'
  <1>1. UnitsListed /\ births \in Nat
    BY DEF UnitsInv, UnitShapes
  <1> DEFINE us == [units EXCEPT ![i] = units[i + 1], ![i + 1] = units[i]]
  <1>2. /\ i + 1 \in DOMAIN units /\ Rearrange(us) /\ Bounded("edits", MaxUnitEdits)
        /\ UNCHANGED <<isAd, adShots, videos, unitJobs, unitUpload, births>>
    BY DEF ReorderUnits
  <1>3. ListsUnits(us)
    BY <1>1, <1>2, ExchangedUnits
  <1> HIDE DEF us
  <1> QED BY <1>1, <1>2, <1>3, UnitsRearranged

LEMMA UnitsDerived ==
  ASSUME UnitsInv, IndexInv, NEW size \in 1..UnitSize, DeriveUnits(size)
  PROVE  UnitsInv'
  <1>1. UnitsListed /\ ShotsListed /\ births \in Nat
    BY DEF UnitsInv, UnitShapes
  <1> DEFINE us == Merged(Derived(size))
  <1>2. /\ isAd /\ Rearrange(us) /\ Bounded("edits", MaxUnitEdits)
        /\ UNCHANGED <<isAd, adShots, videos, unitJobs, unitUpload, births>>
    BY DEF DeriveUnits
  <1>3. ListsUnits(us)
    BY <1>1, <1>2, DerivedUnits
  <1> HIDE DEF us
  <1> QED BY <1>1, <1>2, <1>3, UnitsRearranged

\* A number that is marked is not claimed any more.
LEMMA MarksGrow ==
  ASSUME UnitsInv, reborn \subseteq reborn',
         UNCHANGED <<isAd, units, videos, unitJobs, unitUpload, unitTool, handedOver, inheriting, toldDone>>
  PROVE  UnitsListed' /\ Units' = Units /\ \A u \in Units : Holds(u)'
  <1>1. UnitsListed /\ \A u \in Units : Holds(u)
    BY DEF UnitsInv, UnitShapes
  <1>2. UnitsListed' /\ Units' = Units
    BY <1>1 DEF UnitsListed, Units
  <1>3. ASSUME NEW u \in Units
        PROVE  Holds(u)'
    <2>1. /\ Handed(u) => Handed(u)'
          /\ ShowsItsShots(u)' <=> ShowsItsShots(u)
      BY DEF Handed, ShowsItsShots
    <2>2. (Showing(u) => Showing(u)') /\ (Told(u) => Told(u)')
      BY <2>1 DEF Showing, Told
    <2> QED BY <1>1, <2>1, <2>2
            DEF Holds, ClipHolds, FileHolds, JobHolds, UploadHolds, ToolHolds, ReportHolds, Claimed
  <1> QED BY <1>2, <1>3

\* The list after an edit: every shot is new or has its id and birth from before.
SameBirths(group) ==
    \A s \in ToSet(group) : \E t \in ToSet(adShots) : s.id = t.id /\ s.birth = t.birth

LEMMA ShotInserted ==
  ASSUME ShotsListed, births \in Nat, InsertAdShot
  PROVE  /\ ShotsListed' /\ births' = births + 1
         /\ \E id \in ShotPool : /\ reborn' = reborn \cup {u.num : u \in {v \in Units : Lists(v, id)}}
                                 /\ \A t \in ToSet(adShots) : t.id # id
                                 /\ \A s \in ToSet(adShots') :
                                       s \in ToSet(adShots) \/ s = Plain(id, births + 1)
  <1>1. PICK i \in DOMAIN adShots, id \in ShotPool \ {s.id : s \in ToSet(adShots)} :
           /\ Len(adShots) < MaxUnit /\ adShots' = InsertAt(adShots, i + 1, Plain(id, births + 1))
           /\ births' = births + 1 /\ reborn' = reborn \cup {u.num : u \in {v \in Units : Lists(v, id)}}
    BY Zenon DEF InsertAdShot, Units
  <1> DEFINE e == Plain(id, births + 1)
  <1>2. /\ adShots \in Seq(AdShot) /\ Len(adShots) \in Nat /\ DOMAIN adShots = 1..Len(adShots)
        /\ MaxUnit \in Nat /\ i \in 1..Len(adShots)
    BY UnitsAssumption DEF ShotsListed
  <1>3. e \in AdShot
    <2>1. births + 1 \in Nat
      OBVIOUS
    <2> QED BY <1>1, <2>1, OneShot, Zenon
  <1>4. \A t \in ToSet(adShots) : t.id # id
    BY <1>1
  <1> HIDE DEF e
  <1>5. adShots' = InsertAt(adShots, i + 1, e)
    BY <1>1 DEF e
  <1>6. /\ adShots' \in Seq(AdShot) /\ Len(adShots') = Len(adShots) + 1
        /\ \A j \in 1..(Len(adShots) + 1) : adShots'[j] = WithAt(adShots, i, e, j)
    <2>1. /\ InsertAt(adShots, i + 1, e) \in Seq(AdShot)
          /\ Len(InsertAt(adShots, i + 1, e)) = Len(adShots) + 1
          /\ \A j \in 1..(Len(adShots) + 1) : InsertAt(adShots, i + 1, e)[j] = WithAt(adShots, i, e, j)
      <3>1. adShots \in Seq(AdShot) /\ i \in 1..Len(adShots)
        BY <1>2
      <3> QED BY <1>3, <3>1, InsertedAt
    <2> QED BY <1>5, <2>1
  <1>7. ShotsListed'
    BY <1>1, <1>2, <1>6 DEF ShotsListed
  <1>8. \A s \in ToSet(adShots') : s \in ToSet(adShots) \/ s = e
    <2> TAKE s \in ToSet(adShots')
    <2>1. PICK j \in 1..(Len(adShots) + 1) : s = WithAt(adShots, i, e, j)
      BY <1>2, <1>6 DEF ToSet
    <2>2. CASE j <= i \/ j > i + 1
      BY <1>1, <1>2, <2>1, <2>2 DEF WithAt, ToSet
    <2>3. CASE j = i + 1
      BY <1>1, <1>2, <2>1, <2>3 DEF WithAt
    <2> QED BY <1>2, <2>2, <2>3
  <1> QED BY <1>1, <1>4, <1>7, <1>8, Zenon DEF e

LEMMA ShotRemoved ==
  ASSUME ShotsListed, RemoveAdShot
  PROVE  ShotsListed' /\ SameBirths(adShots') /\ UNCHANGED <<births, reborn>>
  <1>1. UNCHANGED <<births, reborn>> /\ \E i \in DOMAIN adShots : adShots' = RemoveAt(adShots, i)
    BY Zenon DEF RemoveAdShot
  <1>2. PICK i \in DOMAIN adShots : adShots' = RemoveAt(adShots, i)
    BY <1>1
  <1>3. /\ adShots \in Seq(AdShot) /\ Len(adShots) \in Nat /\ DOMAIN adShots = 1..Len(adShots)
        /\ Len(adShots) <= MaxUnit /\ MaxUnit \in Nat
    BY UnitsAssumption DEF ShotsListed
  <1>4. /\ adShots' \in Seq(AdShot) /\ Len(adShots') = Len(adShots) - 1
        /\ \A j \in 1..(Len(adShots) - 1) : adShots'[j] = adShots[Without(i, j)]
    BY <1>2, <1>3, RemovedAt, Zenon
  <1>5. ToSet(adShots') \subseteq ToSet(adShots)
    <2> SUFFICES ASSUME NEW s \in ToSet(adShots')
                 PROVE  s \in ToSet(adShots)
      OBVIOUS
    <2>0. DOMAIN adShots' = 1..(Len(adShots) - 1)
      BY <1>3, <1>4
    <2>1. PICK j \in 1..(Len(adShots) - 1) : s = adShots[Without(i, j)]
      <3>1. PICK j \in DOMAIN adShots' : s = adShots'[j]
        BY DEF ToSet
      <3> QED BY <1>4, <2>0, <3>1
    <2>2. Without(i, j) \in 1..Len(adShots)
      BY <1>3, <2>1 DEF Without
    <2> QED BY <1>3, <2>1, <2>2 DEF ToSet
  <1>6. SameBirths(adShots')
    BY <1>5 DEF SameBirths
  <1>7. ShotsListed'
    BY <1>3, <1>4 DEF ShotsListed
  <1> QED BY <1>1, <1>6, <1>7

LEMMA ShotPatched ==
  ASSUME ShotsListed, PatchAdShot
  PROVE  ShotsListed' /\ SameBirths(adShots') /\ UNCHANGED <<births, reborn>>
  <1>1. /\ UNCHANGED <<births, reborn>>
        /\ \E i \in DOMAIN adShots, cast \in Casts : adShots' = [adShots EXCEPT ![i].cast = cast]
    BY Zenon DEF PatchAdShot
  <1>2. PICK i \in DOMAIN adShots, cast \in Casts : adShots' = [adShots EXCEPT ![i].cast = cast]
    BY <1>1
  <1> DEFINE t == [adShots[i] EXCEPT !.cast = cast]
  <1>3. adShots \in Seq(AdShot) /\ adShots' = [adShots EXCEPT ![i] = t] /\ adShots[i] \in AdShot
    BY <1>2 DEF ShotsListed
  <1>4. t \in AdShot /\ t.id = adShots[i].id /\ t.birth = adShots[i].birth
    BY <1>2, <1>3 DEF AdShot
  <1> HIDE DEF t
  <1>5. /\ adShots' \in Seq(AdShot) /\ Len(adShots') = Len(adShots) /\ DOMAIN adShots' = DOMAIN adShots
        /\ \A j \in DOMAIN adShots : adShots'[j] = IF j = i THEN t ELSE adShots[j]
    BY <1>3, <1>4
  <1>6. \A j \in DOMAIN adShots : adShots'[j].id = adShots[j].id /\ adShots'[j].birth = adShots[j].birth
    BY <1>4, <1>5
  <1>7. SameBirths(adShots')
    BY <1>5, <1>6 DEF SameBirths, ToSet
  <1> QED BY <1>1, <1>5, <1>7 DEF ShotsListed

LEMMA ShotsEdited ==
  ASSUME UnitsInv, EditAdShots
  PROVE  UnitsInv'
  <1>1. UnitShapes /\ ShotsListed /\ UnitsListed /\ births \in Nat
    BY DEF UnitsInv, UnitShapes
  <1>2. /\ Bounded("edits", MaxUnitEdits) /\ (InsertAdShot \/ RemoveAdShot \/ PatchAdShot)
        /\ UNCHANGED <<isAd, units, videos, unitJobs, unitUpload, unitTool, handedOver,
                       inheriting, toldDone>>
    BY DEF EditAdShots
  <1>3. ShotsListed' /\ births' \in Nat /\ reborn \subseteq reborn' /\ reborn' \subseteq Numbers
    <2>1. CASE InsertAdShot
      <3>1. PICK id \in ShotPool : reborn' = reborn \cup {u.num : u \in {v \in Units : Lists(v, id)}}
        BY <1>1, <2>1, ShotInserted, Zenon
      <3>2. \A u \in Units : u.num \in Numbers
        BY <1>1, UnitsOf, Zenon
      <3>3. reborn \subseteq reborn' /\ reborn' \subseteq Numbers
        BY <1>1, <3>1, <3>2 DEF UnitShapes
      <3>4. ShotsListed' /\ births' = births + 1
        BY <1>1, <2>1, ShotInserted, Zenon
      <3> QED BY <1>1, <3>3, <3>4
    <2>2. CASE RemoveAdShot \/ PatchAdShot
      <3>1. ShotsListed' /\ births' = births /\ reborn' = reborn
        BY <1>1, <2>2, ShotRemoved, ShotPatched
      <3> QED BY <1>1, <3>1 DEF UnitShapes
    <2> QED BY <1>2, <2>1, <2>2
  <1>4. unitCounts' \in [UnitMoves -> Nat]
    BY <1>1, <1>2, UnitMoveCounts DEF UnitShapes, UnitMoves
  <1>5. UnitsListed' /\ Units' = Units /\ \A u \in Units : Holds(u)'
    BY <1>2, <1>3, MarksGrow
  <1>6. UnitShapes'
    BY <1>1, <1>2, <1>3, <1>4, <1>5 DEF UnitShapes, WorkShapes
  <1> QED BY <1>5, <1>6 DEF UnitsInv

\* What a tool counts on from the beginning is told.
Reckoned(us) ==
    \A u \in ToSet(us) : ~Reusable(u) => u.num \in unitTool'.waits

LEMMA ToolShape ==
  ASSUME UnitShapes, NEW us \in Seq(Unit), RunTool(us)
  PROVE  /\ unitTool' \in UnitTools /\ Reckoned(us)
         /\ unitJobs' \in [Numbers -> UnitWork \cup {NoWork}]
         /\ NoJobMoves
         /\ WorkShapes' /\ unitCounts' \in [UnitMoves -> Nat]
         /\ UNCHANGED <<isAd, adShots, videos, unitUpload, births>>
  <1> DEFINE todo == {u.num : u \in {v \in ToSet(us) : ~Reusable(v)}}
             all == {u.num : u \in ToSet(us)}
  <1>1. /\ unitJobs' = QueuedFor(todo) /\ Bounded("tools", MaxUnitTools)
        /\ unitTool' = [waits |-> todo, counted |-> all, failed |-> FALSE]
        /\ UNCHANGED <<isAd, adShots, videos, unitUpload, births>>
    BY DEF RunTool
  <1>2. \A u \in ToSet(us) : u.num \in Numbers
    BY ListedUnits, UnitParts, Zenon
  <1>3. todo \subseteq Numbers /\ all \subseteq Numbers
    BY <1>2
  <1>4. \A u \in ToSet(us) : ~Reusable(u) => u.num \in todo
    OBVIOUS
  <1> HIDE DEF todo, all
  <1>5. unitTool' \in UnitTools /\ unitTool'.waits = todo
    BY <1>1, <1>3 DEF UnitTools
  <1>6. Reckoned(us)
    BY <1>4, <1>5 DEF Reckoned
  <1>7. /\ unitJobs' \in [Numbers -> UnitWork \cup {NoWork}]
        /\ NoJobMoves
    BY <1>1, QueuedUnits, Zenon
  <1>8. WorkShapes'
    BY <1>1, <1>7 DEF UnitShapes, WorkShapes, NoJobMoves
  <1>9. unitCounts' \in [UnitMoves -> Nat]
    BY <1>1, UnitMoveCounts DEF UnitShapes, UnitMoves
  <1> QED BY <1>1, <1>5, <1>6, <1>7, <1>8, <1>9

LEMMA EpisodeToolRuns ==
  ASSUME UnitsInv, RunReferenceEpisode
  PROVE  UnitsInv'
  <1>1. UnitShapes /\ (\A u \in Units : Holds(u)) /\ UnitsListed /\ units \in Seq(Unit)
    BY DEF UnitsInv, UnitShapes, UnitsListed
  <1>2. ~isAd /\ RunTool(units) /\ UNCHANGED <<units, handedOver, reborn, inheriting, toldDone>>
    BY DEF RunReferenceEpisode, histories
  <1>3. /\ unitTool' \in UnitTools /\ Reckoned(units)
        /\ NoJobMoves
        /\ WorkShapes' /\ unitCounts' \in [UnitMoves -> Nat]
        /\ UNCHANGED <<isAd, adShots, videos, unitUpload, births>>
    BY <1>1, <1>2, ToolShape
  <1>4. /\ UnitsListed' /\ Units' = Units
        /\ \A u \in Units : /\ ClipHolds(u)' /\ FileHolds(u)'
                            /\ (Showing(u)' <=> Showing(u)) /\ (Told(u)' <=> Told(u))
                            /\ (Handed(u)' <=> Handed(u))
    BY <1>2, <1>3, FilesStay
  <1>5. UnitShapes'
    BY <1>1, <1>2, <1>3, <1>4 DEF UnitShapes, ShotsListed
  <1>6. ASSUME NEW u \in Units PROVE Holds(u)'
    <2>1. u.num \in Numbers
      BY <1>1, UnitsOf, Zenon
    <2>2. JobHolds(u)'
      BY <1>1, <1>3, <1>4, <2>1 DEF Holds, JobHolds, NoJobMoves
    <2>3. ToolHolds(u)'
      <3>1. CASE Reusable(u)
        BY <1>1, <1>2, <1>4, <3>1 DEF Holds, FileHolds, Reusable, Showing, Told, Handed, ToolHolds
      <3>2. CASE ~Reusable(u)
        BY <1>3, <3>2 DEF Reckoned, Units, ToolHolds, Claimed
      <3> QED BY <3>1, <3>2
    <2>4. UploadHolds(u)' /\ ReportHolds(u)'
      BY <1>1, <1>2, <1>3, <1>4 DEF Holds, UploadHolds, ReportHolds
    <2> QED BY <1>4, <2>2, <2>3, <2>4 DEF Holds
  <1> QED BY <1>4, <1>5, <1>6 DEF UnitsInv

LEMMA AdToolRuns ==
  ASSUME UnitsInv, IndexInv, NEW size \in 1..UnitSize, RunAdReferenceEpisode(size)
  PROVE  UnitsInv'
  <1>1. UnitShapes /\ (\A u \in Units : Holds(u)) /\ UnitsListed /\ ShotsListed
    BY DEF UnitsInv, UnitShapes
  <1> DEFINE us == Merged(Derived(size))
  <1>2. isAd /\ RunTool(us) /\ Replace(us)
    BY DEF RunAdReferenceEpisode
  <1>3. ListsUnits(us)
    BY <1>1, <1>2, DerivedUnits
  <1> HIDE DEF us
  <1>4. us \in Seq(Unit) /\ units' = us /\ Units' = ToSet(us)
    BY <1>2, <1>3 DEF ListsUnits, Replace, Units
  <1>5. /\ unitTool' \in UnitTools /\ Reckoned(us)
        /\ NoJobMoves
        /\ WorkShapes' /\ unitCounts' \in [UnitMoves -> Nat]
        /\ UNCHANGED <<isAd, adShots, videos, unitUpload, births>>
    BY <1>1, <1>2, <1>4, ToolShape
  <1>6. \A u \in Units' : (FilesHold(u) /\ ReportHolds(u))'
    BY <1>2, <1>3, <1>5, ReplaceKeeps
  <1>7. UnitsListed'
    BY <1>3, <1>4 DEF ListsUnits, UnitsListed, OneUnitANumber
  <1>8. UnitShapes'
    BY <1>1, <1>2, <1>5, <1>7, HandsKeepShape DEF UnitShapes, ShotsListed
  <1>9. ASSUME NEW u \in Units' PROVE ToolHolds(u)'
    <2>1. CASE Reusable(u)
      BY <1>2, <1>5, <1>6, <2>1 DEF FilesHold, ClipHolds, Reusable, Showing, Told, Handed, ToolHolds
    <2>2. CASE ~Reusable(u)
      BY <1>4, <1>5, <2>2 DEF Reckoned, ToolHolds, Claimed
    <2> QED BY <2>1, <2>2
  <1> QED BY <1>6, <1>8, <1>9 DEF UnitsInv, Holds, FilesHold

LEMMA UnitToolEnds ==
  ASSUME UnitsInv, EndUnitTool
  PROVE  UnitsInv'
  <1>1. UnitShapes /\ (\A u \in Units : Holds(u)) /\ UnitsListed
    BY DEF UnitsInv, UnitShapes
  <1>2. /\ unitTool.waits = {} /\ unitTool' = NoTool
        /\ toldDone' = IF unitTool.failed THEN toldDone ELSE toldDone \cup unitTool.counted
        /\ UNCHANGED <<isAd, adShots, units, videos, unitJobs, unitUpload, births, handedOver, reborn,
                       inheriting, unitCounts>>
    BY DEF EndUnitTool
  <1>3. NoTool \in UnitTools /\ NoTool.counted = {}
    BY DEF NoTool, UnitTools
  <1>4. \A k : k \in toldDone' => k \in toldDone \/ Claimed(k)
    BY <1>2 DEF Claimed
  <1>5. /\ UnitsListed' /\ Units' = Units
        /\ \A u \in Units : /\ ClipHolds(u)' /\ FileHolds(u)'
                            /\ (Showing(u)' <=> Showing(u)) /\ (Told(u)' <=> Told(u))
                            /\ (Handed(u)' <=> Handed(u))
    BY <1>2, FilesStay
  <1>6. UnitShapes'
    BY <1>1, <1>2, <1>3, <1>5 DEF UnitShapes, WorkShapes, ShotsListed
  <1>7. ASSUME NEW u \in Units PROVE Holds(u)'
    <2>1. JobHolds(u)' /\ UploadHolds(u)'
      BY <1>1, <1>2, <1>5 DEF Holds, JobHolds, UploadHolds
    <2>2. ToolHolds(u)'
      BY <1>2, <1>3 DEF ToolHolds, Claimed
    <2>3. ReportHolds(u)'
      BY <1>1, <1>4, <1>5, Zenon DEF Holds, ReportHolds, ToolHolds
    <2> QED BY <1>5, <2>1, <2>2, <2>3 DEF Holds
  <1> QED BY <1>5, <1>6, <1>7 DEF UnitsInv

LEMMA UnitsStart == UnitsInit => UnitsInv /\ IndexInv
  <1> SUFFICES ASSUME UnitsInit PROVE UnitsInv /\ IndexInv
    OBVIOUS
  <1> DEFINE cast(i) == IF isAd /\ i = 1 THEN StartCast ELSE <<>>
             shot(i) == [Plain(StartShots[i], i) EXCEPT !.cast = cast(i)]
             listed == [i \in DOMAIN StartShots |-> shot(i)]
             d == Len(StartShots)
  <1>1. /\ StartShots \in Seq(ShotPool) /\ d \in Nat /\ DOMAIN StartShots = 1..d /\ 1 \in 1..d
        /\ d <= MaxUnit /\ MaxUnit \in Nat
    BY UnitsAssumption
  <1>2. \A i \in 1..d : /\ i \in Numbers /\ shot(i) \in AdShot /\ <<shot(i)>> \in Content
                        /\ shot(i).id = StartShots[i] /\ shot(i).birth = i
    <2> TAKE i \in 1..d
    <2>1. StartShots[i] \in ShotPool /\ i \in Nat
      BY <1>1
    <2>2. i \in Numbers
      BY <1>1 DEF Numbers
    <2>3. cast(i) \in Casts
      BY UnitsAssumption
    <2>4. Plain(StartShots[i], i) = [id |-> StartShots[i], birth |-> i, cast |-> <<>>]
      BY DEF Plain
    <2> HIDE DEF cast
    <2>5. shot(i) = [id |-> StartShots[i], birth |-> i, cast |-> cast(i)]
      BY <2>4
    <2>6. shot(i) \in AdShot /\ shot(i).id = StartShots[i] /\ shot(i).birth = i
      BY <2>1, <2>3, <2>5 DEF AdShot
    <2> HIDE DEF shot
    <2>7. <<shot(i)>> \in [1..1 -> AdShot] /\ 1 \in 1..UnitSize
      BY <2>6, UnitsAssumption
    <2> QED BY <2>2, <2>6, <2>7 DEF Content
  <1>3. /\ isAd \in BOOLEAN /\ adShots = (IF isAd THEN listed ELSE <<>>)
        /\ units = [i \in DOMAIN listed |-> [NewUnit(i, <<listed[i]>>) EXCEPT !.clip = (i = 1)]]
        /\ videos = [n \in Numbers |-> IF n = 1 THEN units[1].of ELSE NoVideo]
        /\ unitJobs = [n \in Numbers |-> NoWork]
        /\ unitUpload = NoUpload /\ unitTool = NoTool
        /\ births = d /\ handedOver = {} /\ reborn = {} /\ inheriting = {} /\ toldDone = {}
        /\ unitCounts = [c \in UnitMoves |-> 0]
    BY Zenon DEF UnitsInit
  <1> HIDE DEF shot
  <1>4. DOMAIN listed = 1..d /\ \A i \in 1..d : listed[i] = shot(i)
    BY <1>1
  <1> HIDE DEF listed
  <1>5. ShotsListed
    <2>1. listed \in Seq(AdShot) /\ Len(listed) = d
      <3>1. listed = [i \in 1..d |-> shot(i)]
        BY <1>1 DEF listed
      <3>2. \A i \in 1..d : shot(i) \in AdShot
        BY <1>2
      <3> HIDE DEF d
      <3>3. listed \in [1..d -> AdShot]
        BY <3>1, <3>2
      <3>4. d \in Nat
        BY <1>1
      <3> QED BY <3>3, <3>4
    <2>2. <<>> \in Seq(AdShot) /\ Len(<<>>) = 0
      OBVIOUS
    <2> QED BY <1>1, <1>3, <2>1, <2>2 DEF ShotsListed
  <1> HIDE DEF d
  <1>6. ASSUME NEW i \in 1..d
        PROVE  /\ units[i] \in Unit /\ units[i].num = i /\ units[i].of = <<shot(i)>>
               /\ units[i].clip => i = 1
    <2> DEFINE g == <<shot(i)>>
               w == NewUnit(i, g)
               b == (i = 1)
    <2>0. g \in Content /\ i \in Numbers
      BY <1>2
    <2> HIDE DEF g
    <2>1. w \in Unit /\ w.num = i /\ w.of = g
      BY <2>0, NewUnitShape, Zenon
    <2>2. units[i] = [w EXCEPT !.clip = b]
      BY <1>3, <1>4, Zenon DEF g
    <2>3. b \in BOOLEAN /\ (b => i = 1)
      OBVIOUS
    <2> HIDE DEF w, b
    <2>4. \A r : r = [w EXCEPT !.clip = b] =>
             r \in Unit /\ r.num = w.num /\ r.of = w.of /\ r.clip = b
      BY <2>1, <2>3 DEF Unit
    <2>5. units[i] \in Unit /\ units[i].num = w.num /\ units[i].of = w.of /\ units[i].clip = b
      BY <2>2, <2>4, Zenon
    <2> QED BY <2>1, <2>3, <2>5, Zenon DEF g
  <1>7. DOMAIN units = 1..d
    BY <1>3, <1>4
  <1>8. UnitsListed
    <2>1. units = [i \in 1..d |-> units[i]]
      BY <1>3, <1>4
    <2>2. \A i \in 1..d : units[i] \in Unit
      BY <1>6
    <2>3. units \in Seq(Unit)
      BY <1>1, <2>1, <2>2
    <2>4. OneUnitANumber(units)
      <3>1. \A i \in 1..d : units[i].num = i
        BY <1>6
      <3> QED BY <1>7, <3>1 DEF OneUnitANumber
    <2> QED BY <2>3, <2>4 DEF UnitsListed
  <1>9. videos \in [Numbers -> Content \cup {NoVideo}]
    <2>1. units[1].of \in Content
      BY <1>1, <1>2, <1>6
    <2> QED BY <1>3, <2>1
  <1>10. WorkShapes
    <2>1. NoUpload \in UnitUploads /\ NoUpload.at = "none"
      BY <1>1 DEF NoUpload, UnitUploads, Contents
    <2> QED BY <1>3, <1>9, <2>1 DEF WorkShapes
  <1>11. NoTool \in UnitTools /\ NoTool.counted = {}
    BY DEF NoTool, UnitTools
  <1>12. births \in Nat /\ unitCounts \in [UnitMoves -> Nat]
    BY <1>1, <1>3
  <1>13. UnitShapes
    BY <1>3, <1>5, <1>8, <1>10, <1>11, <1>12 DEF UnitShapes
  <1>14. ASSUME NEW u \in Units PROVE Holds(u)
    <2>1. PICK i \in 1..d : u = units[i]
      BY <1>7, <1>14 DEF Units, ToSet
    <2>2. u.num = i /\ u.num \in Numbers /\ u.of \in Content /\ (u.clip => i = 1)
      BY <1>2, <1>6, <2>1
    <2>3. i = 1 => videos[u.num] = u.of /\ u.of # NoVideo
      BY <1>3, <2>1, <2>2, NoVideoIsNoContent DEF Content
    <2>4. ClipHolds(u) /\ FileHolds(u)
      BY <1>3, <2>2, <2>3 DEF ClipHolds, FileHolds, Showing, ShowsItsShots, Alike
    <2>5. JobHolds(u) /\ UploadHolds(u)
      BY <1>3, <2>2 DEF JobHolds, UploadHolds, NoUpload
    <2>6. ToolHolds(u) /\ ReportHolds(u)
      BY <1>3, <1>11 DEF ToolHolds, ReportHolds, Claimed
    <2> QED BY <2>4, <2>5, <2>6 DEF Holds
  <1>15. ASSUME isAd PROVE OneBirthAnId /\ \A u \in Units : UpToDate(u)
    <2>1. \A s \in ToSet(adShots) : \E i \in 1..d : s = shot(i)
      BY <1>3, <1>4, <1>15 DEF ToSet
    <2>2. \A i, j \in 1..d : shot(i).id = shot(j).id => i = j
      <3>1. \A i, j \in 1..d : StartShots[i] = StartShots[j] => i = j
        <4>1. IsInjective(StartShots)
          BY UnitsAssumption
        <4> QED BY <1>1, <4>1, Zenon DEF IsInjective
      <3>2. \A i \in 1..d : shot(i).id = StartShots[i]
        BY <1>2, Zenon
      <3> QED BY <3>1, <3>2, Zenon
    <2>3. OneBirthAnId
      BY <2>1, <2>2, Zenon DEF OneBirthAnId
    <2>4. ASSUME NEW u \in Units PROVE UpToDate(u)
      <3>1. PICK i \in 1..d : u = units[i]
        BY <1>7, <2>4 DEF Units, ToSet
      <3>2. u.of = <<shot(i)>>
        BY <1>6, <3>1, Zenon
      <3>3. DOMAIN u.of = {1} /\ u.of[1] = shot(i)
        BY <3>2
      <3>4. \A s \in ToSet(adShots) : s.id = shot(i).id => s = shot(i)
        BY <2>1, <2>2, Zenon
      <3> QED BY <3>3, <3>4 DEF UpToDate
    <2> QED BY <2>3, <2>4
  <1> QED BY <1>13, <1>14, <1>15 DEF UnitsInv, IndexInv

-----------------------------------------------------------------------------
(* The index and the shots.                                                *)

\* The units that were are of what they were.
LEMMA IndexKept ==
  ASSUME IndexInv, UNCHANGED <<isAd, adShots, reborn>>,
         \A u \in Units' : \E v \in Units : v.num = u.num /\ v.of = u.of
  PROVE  IndexInv'
  <1>1. ASSUME isAd, NEW u \in Units' PROVE UpToDate(u)'
    <2>1. PICK v \in Units : v.num = u.num /\ v.of = u.of
      BY Zenon
    <2>2. UpToDate(v)
      BY <1>1 DEF IndexInv
    <2> QED BY <2>1, <2>2 DEF UpToDate
  <1>2. isAd => OneBirthAnId'
    BY DEF IndexInv, OneBirthAnId
  <1> QED BY <1>1, <1>2 DEF IndexInv

LEMMA ClipsOnly ==
  ASSUME UnitsListed, NEW n, units' = WithClip(n)
  PROVE  \A u \in Units' : \E v \in Units : v.num = u.num /\ v.of = u.of
  <1> TAKE u \in Units'
  <1>1. units \in Seq(Unit)
    BY DEF UnitsListed
  <1>2. /\ DOMAIN units' = DOMAIN units
        /\ \A i \in DOMAIN units : units'[i] = IF units[i].num = n THEN [units[i] EXCEPT !.clip = TRUE]
                                                                   ELSE units[i]
    BY DEF WithClip
  <1>3. PICK i \in DOMAIN units : u = units'[i]
    BY <1>2 DEF Units, ToSet
  <1>4. units[i] \in Units /\ units[i] \in Unit
    BY <1>1, ListedUnits, Zenon DEF Units
  <1>5. \A v \in Unit : [v EXCEPT !.clip = TRUE].num = v.num /\ [v EXCEPT !.clip = TRUE].of = v.of
    BY DEF Unit
  <1>6. units[i].num = u.num /\ units[i].of = u.of
    BY <1>2, <1>3, <1>4, <1>5, Zenon
  <1> QED BY <1>4, <1>6

LEMMA IndexDerived ==
  ASSUME UnitsInv, isAd, IndexInv, NEW size \in 1..UnitSize, Replace(Merged(Derived(size))),
         UNCHANGED <<isAd, adShots>>
  PROVE  IndexInv'
  <1> DEFINE us == Merged(Derived(size))
  <1>1. UnitsListed /\ ShotsListed
    BY DEF UnitsInv, UnitShapes
  <1>2. \A u \in ToSet(us) : IsListed(u.of)
    BY <1>1, DerivedUnits
  <1>3. Units' = ToSet(us)
    BY DEF Replace, Units
  <1> HIDE DEF us
  <1>4. OneBirthAnId /\ OneBirthAnId'
    BY DEF IndexInv, OneBirthAnId
  <1>5. ASSUME NEW u \in Units' PROVE UpToDate(u)'
    <2>1. IsListed(u.of)
      BY <1>2, <1>3
    <2> QED BY <1>4, <2>1, Zenon DEF UpToDate, IsListed, OneBirthAnId
  <1> QED BY <1>4, <1>5 DEF IndexInv

LEMMA IndexEdited ==
  ASSUME UnitsInv, IndexInv, EditAdShots
  PROVE  IndexInv'
  <1>1. ShotsListed /\ births \in Nat /\ UnitsListed
    BY DEF UnitsInv, UnitShapes
  <1>2. isAd /\ (InsertAdShot \/ RemoveAdShot \/ PatchAdShot) /\ UNCHANGED <<isAd, units>>
    BY DEF EditAdShots
  <1>3. Units' = Units /\ OneBirthAnId /\ \A u \in Units : UpToDate(u)
    BY <1>2 DEF Units, IndexInv
  <1>4. CASE InsertAdShot
    <2>1. PICK id \in ShotPool : /\ reborn' = reborn \cup {u.num : u \in {v \in Units : Lists(v, id)}}
                                 /\ \A t \in ToSet(adShots) : t.id # id
                                 /\ \A s \in ToSet(adShots') :
                                       s \in ToSet(adShots) \/ s = Plain(id, births + 1)
      BY <1>1, <1>4, ShotInserted, Zenon
    <2>2. Plain(id, births + 1).id = id
      BY DEF Plain
    <2>3. \A s \in ToSet(adShots') :
             s \in ToSet(adShots) \/ (s = Plain(id, births + 1) /\ s.id = id)
      BY <2>1, <2>2, Zenon
    <2>4. OneBirthAnId'
      BY <1>3, <2>1, <2>3, Zenon DEF OneBirthAnId
    <2>5. ASSUME NEW u \in Units,
                 NEW i \in DOMAIN u.of, NEW s \in ToSet(adShots'), s.id = u.of[i].id
          PROVE  s.birth = u.of[i].birth \/ u.num \in reborn'
      <3>1. CASE s \in ToSet(adShots)
        BY <1>3, <2>1, <2>5, <3>1 DEF UpToDate
      <3>2. CASE s.id = id
        <4>1. Lists(u, id)
          BY <2>5, <3>2 DEF Lists, ToSet
        <4> QED BY <2>1, <4>1
      <3> QED BY <2>3, <2>5, <3>1, <3>2
    <2>6. \A u \in Units : UpToDate(u)'
      BY <2>5, Zenon DEF UpToDate
    <2> QED BY <1>3, <2>4, <2>6 DEF IndexInv
  <1>5. CASE RemoveAdShot \/ PatchAdShot
    <2>1. SameBirths(adShots') /\ reborn' = reborn
      BY <1>1, <1>5, ShotRemoved, ShotPatched
    <2>2. \A s \in ToSet(adShots') : \E t \in ToSet(adShots) : s.id = t.id /\ s.birth = t.birth
      BY <2>1, Zenon DEF SameBirths
    <2>3. OneBirthAnId'
      <3>1. ASSUME NEW s \in ToSet(adShots'), NEW t \in ToSet(adShots'), s.id = t.id
            PROVE  s.birth = t.birth
        <4>1. PICK v \in ToSet(adShots), w \in ToSet(adShots) :
                 s.id = v.id /\ s.birth = v.birth /\ t.id = w.id /\ t.birth = w.birth
          BY <2>2, Zenon
        <4>2. v.birth = w.birth
          <5>1. v.id = w.id
            BY <3>1, <4>1
          <5> QED BY <1>3, <5>1, Zenon DEF OneBirthAnId
        <4> QED BY <4>1, <4>2
      <3> QED BY <3>1 DEF OneBirthAnId
    <2>4. \A u \in Units : UpToDate(u)'
      BY <1>3, <2>1, <2>2, Zenon DEF UpToDate
    <2> QED BY <1>3, <2>3, <2>4 DEF IndexInv
  <1> QED BY <1>2, <1>4, <1>5

LEMMA IndexStep ==
  ASSUME UnitsInv, IndexInv, [UnitsNext]_unitVars
  PROVE  IndexInv'
  <1>1. UnitsListed
    BY DEF UnitsInv, UnitShapes
  <1>2. CASE AddUnit \/ RunReferenceEpisode \/ \E i \in DOMAIN units : DeleteUnit(i) \/ ReorderUnits(i)
    <2>1. ~isAd'
      BY <1>2 DEF AddUnit, RunReferenceEpisode, RunTool, DeleteUnit, ReorderUnits
    <2> QED BY <2>1 DEF IndexInv
  <1>3. CASE EditAdShots
    BY <1>3, IndexEdited
  <1>4. CASE \E size \in 1..UnitSize : DeriveUnits(size) \/ RunAdReferenceEpisode(size)
    <2>1. PICK size \in 1..UnitSize : DeriveUnits(size) \/ RunAdReferenceEpisode(size)
      BY <1>4
    <2>2. isAd /\ Replace(Merged(Derived(size))) /\ UNCHANGED <<isAd, adShots>>
      BY <2>1, Zenon DEF DeriveUnits, RunAdReferenceEpisode, RunTool, Rearrange
    <2> QED BY <2>2, IndexDerived
  <1>5. CASE UploadRecordsUnit \/ \E n \in Numbers : RecordUnit(n)
    <2>1. PICK n : units' = WithClip(n)
      BY <1>5 DEF UploadRecordsUnit, RecordUnit
    <2>2. UNCHANGED <<isAd, adShots, reborn>>
      BY <1>5 DEF UploadRecordsUnit, RecordUnit, histories
    <2> QED BY <1>1, <2>1, <2>2, ClipsOnly, IndexKept
  <1>6. CASE \/ UploadSavesVideo \/ UploadRechecks \/ EndUnitTool \/ UNCHANGED unitVars
             \/ \E n \in Numbers : \/ GenerateUnit(n) \/ StartUnit(n) \/ WriteVideo(n) \/ FailUnit(n)
                                   \/ UploadStarts(n)
    <2>1. UNCHANGED <<isAd, adShots, units, reborn>>
      BY <1>6 DEF UploadSavesVideo, UploadRechecks, EndUnitTool, GenerateUnit, StartUnit, WriteVideo,
                  FailUnit, UploadStarts, unitVars, histories
    <2>2. \A u \in Units' : \E v \in Units : v.num = u.num /\ v.of = u.of
      BY <2>1 DEF Units
    <2> QED BY <2>1, <2>2, IndexKept
  <1> QED BY <1>2, <1>3, <1>4, <1>5, <1>6, Zenon DEF UnitsNext

LEMMA UnitsStep == UnitsInv /\ IndexInv /\ [UnitsNext]_unitVars => UnitsInv' /\ IndexInv'
  <1> SUFFICES ASSUME UnitsInv, IndexInv, [UnitsNext]_unitVars PROVE UnitsInv'
    BY IndexStep
  <1>1. CASE AddUnit \/ EditAdShots \/ UploadSavesVideo \/ UploadRechecks \/ UploadRecordsUnit
             \/ RunReferenceEpisode \/ EndUnitTool
    BY <1>1, UnitAdded, ShotsEdited, UploadSaved, UploadRechecked, UploadRecorded, EpisodeToolRuns,
       UnitToolEnds
  <1>2. CASE \E size \in 1..UnitSize : DeriveUnits(size) \/ RunAdReferenceEpisode(size)
    BY <1>2, UnitsDerived, AdToolRuns
  <1>3. CASE \E i \in DOMAIN units : DeleteUnit(i) \/ ReorderUnits(i)
    BY <1>3, UnitDeleted, UnitsReordered
  <1>4. ASSUME NEW n \in Numbers,
               \/ GenerateUnit(n) \/ StartUnit(n) \/ WriteVideo(n) \/ RecordUnit(n) \/ FailUnit(n)
               \/ UploadStarts(n)
        PROVE  UnitsInv'
    <2>1. CASE FailUnit(n)
      <3>1. /\ Bounded("fails", MaxUnitFails) /\ EndWork(n, FALSE)
            /\ UNCHANGED <<isAd, adShots, units, videos, unitUpload, births, handedOver, reborn, inheriting,
                           toldDone>>
        BY <2>1 DEF FailUnit, histories
      <3>2. unitCounts' \in [UnitMoves -> Nat]
        BY <3>1, UnitMoveCounts DEF UnitsInv, UnitShapes, UnitMoves
      <3> QED BY <3>1, <3>2, UnitFails
    <2> QED BY <1>4, <2>1, UnitsQueued, UnitStarts, VideoWritten, UnitRecorded, UploadStarted
  <1>5. CASE UNCHANGED unitVars
    <2>1. UNCHANGED <<isAd, adShots, units, videos, unitJobs, unitUpload, unitTool, births, handedOver, reborn,
                      inheriting, toldDone, unitCounts>>
      BY <1>5 DEF unitVars
    <2>2. /\ UnitsListed' /\ Units' = Units
          /\ \A u \in Units : /\ ClipHolds(u)' /\ FileHolds(u)'
                              /\ (Showing(u)' <=> Showing(u)) /\ (Told(u)' <=> Told(u))
                              /\ (Handed(u)' <=> Handed(u))
      BY <2>1, FilesStay
    <2>3. UnitShapes'
      BY <2>1, <2>2 DEF UnitsInv, UnitShapes, WorkShapes, ShotsListed
    <2>4. ASSUME NEW u \in Units PROVE Holds(u)'
      BY <2>1, <2>2 DEF UnitsInv, Holds, JobHolds, UploadHolds, ToolHolds, ReportHolds, Claimed
    <2> QED BY <2>2, <2>3, <2>4 DEF UnitsInv
  <1> QED BY <1>1, <1>2, <1>3, <1>4, <1>5, Zenon DEF UnitsNext

\* The invariant of the units holds for every number of shots, numbers and
\* edits: every writer at work knows what its unit is of, or the number is
\* marked; and a shot that the index lists is the one with its id now, or the
\* number is marked.
THEOREM UnitsInvariant == UnitsSpec => [](UnitsInv /\ IndexInv)
  BY UnitsStart, UnitsStep, PTL DEF UnitsSpec

\* The state of reference_units.py's units, tasks, uploads and tools is well
\* typed, and a number is that of one unit.
THEOREM UnitsTypeCorrect == UnitsSpec => []UnitsTypeOK
  <1>1. ASSUME UnitsInv PROVE UnitsTypeOK
    <2>1. UnitShapes
      BY <1>1 DEF UnitsInv
    <2>2. isAd \in BOOLEAN /\ adShots \in Seq(AdShot) /\ units \in Seq(Unit)
      BY <2>1 DEF UnitShapes, ShotsListed, UnitsListed
    <2>3. \A n \in Numbers :
            /\ videos[n] = NoVideo \/ videos[n] \in Content
            /\ unitJobs[n] = NoWork \/ unitJobs[n].at \in {"queued", "running", "written"}
      BY <2>1 DEF UnitShapes, WorkShapes, UnitWork
    <2>4. unitUpload.num \in 0..MaxUnit /\ unitUpload.at \in {"none", "started", "saved", "checked"}
      BY <2>1 DEF UnitShapes, WorkShapes, UnitUploads
    <2>5. unitTool.waits \subseteq Numbers /\ unitTool.failed \in BOOLEAN
      BY <2>1 DEF UnitShapes, UnitTools
    <2>6. births \in Nat /\ {handedOver, reborn, inheriting} \subseteq SUBSET Numbers
          /\ unitCounts \in [UnitMoves -> Nat]
      BY <2>1 DEF UnitShapes
    <2> QED BY <2>2, <2>3, <2>4, <2>5, <2>6 DEF UnitsTypeOK
  <1> QED BY <1>1, UnitsInvariant, PTL

\* reference_units.py and its writers: a unit that has recorded its video has
\* one of the shots and references it lists now, and so has one that a tool has
\* reported as done, but for a number that changed hands under a writer, one
\* with a shot whose id was given to another (the code tells members by their
\* ids), and one by hand that came with a file.
THEOREM UnitsStayTrue == UnitsSpec => []UnitsBelong
  <1>1. ASSUME UnitsInv PROVE UnitsBelong
    BY <1>1 DEF UnitsInv, UnitsBelong, Units, Holds, ClipHolds, ReportHolds, Told, Showing, Handed
  <1> QED BY <1>1, UnitsInvariant, PTL

-----------------------------------------------------------------------------
(* The ledger of the planner.                                              *)

\* The ranges of the episodes ascend with their numbers.
Ascends(book) == \A a, b \in Placed(book) : a < b => book[a].span.end <= book[b].span.start
Whole(book, at) == Tiles(book, at) /\ Ascends(book)

LEMMA LeastEpisode ==
  ASSUME NEW S \in SUBSET Nat, S # {}
  PROVE  Least(S) \in S /\ \A y \in S : Least(S) <= y
  <1>1. \E x \in S : \A y \in S : x <= y
    BY LeastOf, Zenon
  <1> QED BY <1>1, Zenon DEF Least

LEMMA GreatestEpisode ==
  ASSUME NEW n \in Nat, NEW S \in SUBSET (0..n), S # {}
  PROVE  Greatest(S) \in S /\ \A y \in S : y <= Greatest(S)
  <1> DEFINE B == {n - x : x \in S}
  <1>1. B \in SUBSET Nat /\ B # {}
    <2>1. B \in SUBSET Nat
      OBVIOUS
    <2>2. B # {}
      OBVIOUS
    <2> QED BY <2>1, <2>2
  <1>2. PICK z \in B : \A y \in B : z <= y
    <2> HIDE DEF B
    <2> QED BY <1>1, LeastOf, Zenon
  <1>3. PICK x \in S : z = n - x
    BY <1>2
  <1>4. \A y \in S : y <= x
    <2> TAKE y \in S
    <2>1. n - y \in B
      OBVIOUS
    <2>2. z <= n - y
      BY <2>1, <1>2
    <2> QED BY <2>2, <1>3
  <1>5. \E m \in S : \A y \in S : y <= m
    BY <1>4
  <1> QED BY <1>5, Zenon DEF Greatest

LEMMA LedgerShape ==
  ASSUME NEW book \in Ledgers
  PROVE  /\ \A n \in Episodes : book[n].span.start \in Nat /\ book[n].span.end \in Nat
         /\ \A n \in Placed(book) : /\ n \in Episodes /\ book[n].span \in Span /\ book[n].span.end <= Total
                                   /\ book[n].span.start < book[n].span.end
         /\ \A n \in Episodes : book[n].status \in Anchored \cup {"absent", "unset", "unanchored"}
  <1>1. \A n \in Episodes : book[n] \in Items
    BY DEF Ledgers
  <1>2. \A i \in Items : /\ i.span.start \in Nat /\ i.span.end \in Nat
                         /\ i.status \in Anchored => i.span \in Span
                         /\ i.status \in Anchored \cup {"absent", "unset", "unanchored"}
    BY PlannerAssumption DEF Items, Item, NoSpan, Span, Anchored
  <1>3. \A r \in Span : r.start < r.end /\ r.end <= Total
    BY PlannerAssumption DEF Span
  <1> QED BY <1>1, <1>2, <1>3 DEF Placed

LEMMA EpisodeFacts ==
  /\ Episodes \subseteq Nat /\ Episodes \in SUBSET (0..MaxEpisodes) /\ MaxEpisodes \in Nat
  /\ Total \in Nat /\ \A book : Placed(book) \subseteq Episodes
  BY PlannerAssumption DEF Episodes, Placed

LEMMA LastPlaced ==
  ASSUME NEW book \in Ledgers, Placed(book) # {}
  PROVE  /\ Greatest(Placed(book)) \in Placed(book)
         /\ \A n \in Placed(book) : n <= Greatest(Placed(book))
         /\ LastEnd(book) \in 1..Total
  <1> DEFINE g == Greatest(Placed(book))
  <1>1. Placed(book) \in SUBSET (0..MaxEpisodes)
    BY EpisodeFacts
  <1>2. g \in Placed(book) /\ \A n \in Placed(book) : n <= g
    BY <1>1, GreatestEpisode, EpisodeFacts, Zenon
  <1>3. LastEnd(book) = book[g].span.end
    BY DEF LastEnd
  <1> HIDE DEF g
  <1>4. /\ book[g].span.start \in Nat /\ book[g].span.end \in Nat
        /\ book[g].span.end <= Total /\ book[g].span.start < book[g].span.end
    BY <1>2, LedgerShape, EpisodeFacts
  <1>5. LastEnd(book) \in 1..Total
    BY <1>3, <1>4, EpisodeFacts
  <1> QED BY <1>2, <1>5 DEF g

\* The last episode ends where the ledger does.
LEMMA EndsWithLast ==
  ASSUME NEW book \in Ledgers, Ascends(book), Placed(book) # {}, NEW n \in Placed(book)
  PROVE  book[n].span.end <= LastEnd(book)
  <1> DEFINE g == Greatest(Placed(book))
  <1>2. g \in Placed(book) /\ n <= g
    BY LastPlaced
  <1>3. LastEnd(book) = book[g].span.end
    BY DEF LastEnd
  <1> HIDE DEF g
  <1>4. /\ n \in Nat /\ g \in Nat /\ book[n].span.end \in Nat
        /\ book[g].span.start \in Nat /\ book[g].span.end \in Nat
        /\ book[g].span.start < book[g].span.end
    BY <1>2, LedgerShape, EpisodeFacts
  <1>5. n < g => book[n].span.end <= book[g].span.start
    BY <1>2 DEF Ascends
  <1> QED BY <1>2, <1>3, <1>4, <1>5

\* Where the placed entries are the same, the rest is.
LEMMA SamePlaces ==
  ASSUME NEW book, NEW other, NEW at, Placed(other) = Placed(book),
         \A n \in Placed(book) : other[n].span = book[n].span
  PROVE  Whole(other, at) <=> Whole(book, at)
  BY DEF Whole, Tiles, Ascends

\* The first entries of a whole ledger are a whole ledger, the last of them cut
\* short maybe.
LEMMA FirstPart ==
  ASSUME NEW book \in Ledgers, NEW at, Whole(book, at), NEW part \in Ledgers, Placed(part) \subseteq Placed(book),
         \A n \in Placed(part), k \in Placed(book) : k < n => k \in Placed(part),
         \A n \in Placed(part) : part[n].span.start = book[n].span.start,
         \A n, k \in Placed(part) : n < k => part[n].span.end = book[n].span.end
  PROVE  Whole(part, at)
  <1>1. ASSUME NEW n \in Placed(part), \A k \in Placed(part) : n <= k
        PROVE  Joins(0, part[n].span.start, at)
    <2>1. \A k \in Placed(book) : k \in Nat /\ n \in Nat
      BY EpisodeFacts
    <2>2. ASSUME NEW k \in Placed(book)
          PROVE  n <= k
      <3>1. k < n => k \in Placed(part)
        OBVIOUS
      <3> QED BY <3>1, <1>1, <2>1
    <2>3. Joins(0, book[n].span.start, at)
      BY <2>2 DEF Whole, Tiles
    <2> QED BY <2>3
  <1>2. ASSUME NEW a \in Placed(part), NEW b \in Placed(part), NextIn(Placed(part), a, b)
        PROVE  Joins(part[a].span.end, part[b].span.start, at)
    <2>1. NextIn(Placed(book), a, b)
      BY <1>2, EpisodeFacts DEF NextIn
    <2>2. a \in Placed(book) /\ b \in Placed(book) /\ a < b
      BY <1>2 DEF NextIn
    <2>3. Joins(book[a].span.end, book[b].span.start, at)
      BY <2>1, <2>2 DEF Whole, Tiles
    <2>4. part[a].span.end = book[a].span.end /\ part[b].span.start = book[b].span.start
      BY <2>2
    <2> QED BY <2>3, <2>4
  <1>3. Ascends(part)
    <2> SUFFICES ASSUME NEW a \in Placed(part), NEW b \in Placed(part), a < b
                 PROVE  part[a].span.end <= part[b].span.start
      BY DEF Ascends
    <2>1. book[a].span.end <= book[b].span.start
      BY DEF Whole, Ascends
    <2> QED BY <2>1
  <1> QED BY <1>1, <1>2, <1>3 DEF Whole, Tiles

\* The numbers in S are the text from `start` on.
TilesFrom(book, S, start) ==
    /\ \A n \in S : start <= book[n].span.start
    /\ \A n \in S : (\A k \in S : n <= k) => book[n].span.start = start
    /\ \A a, b \in S : NextIn(S, a, b) => book[b].span.start = book[a].span.end
    /\ \A a, b \in S : a < b => book[a].span.end <= book[b].span.start

\* A whole ledger that is continued where it ends is whole.
LEMMA Continued ==
  ASSUME NEW low \in Ledgers, NEW at, Whole(low, at), NEW book \in Ledgers, NEW S, NEW start \in Nat,
         Placed(book) = Placed(low) \cup S, TilesFrom(book, S, start),
         \A n \in Placed(low) : book[n].span = low[n].span,
         \A n \in Placed(low), k \in S : n < k,
         Joins(IF Placed(low) = {} THEN 0 ELSE LastEnd(low), start, at)
  PROVE  Whole(book, at)
  <1> DEFINE L == Placed(low)
             g == Greatest(L)
  <1>1. S \subseteq Episodes /\ L \subseteq Episodes /\ Episodes \subseteq Nat
    BY EpisodeFacts
  <1>2. L # {} => /\ g \in L /\ \A n \in L : n <= g
                  /\ Joins(low[g].span.end, start, at)
                  /\ \A n \in L : low[n].span.end <= start
    <2> SUFFICES ASSUME L # {}
                 PROVE  /\ g \in L /\ \A n \in L : n <= g
                        /\ Joins(low[g].span.end, start, at)
                        /\ \A n \in L : low[n].span.end <= start
      OBVIOUS
    <2>1. /\ g \in L /\ (\A n \in L : n <= g) /\ LastEnd(low) = low[g].span.end /\ LastEnd(low) \in Nat
      BY LastPlaced DEF LastEnd
    <2>2. Joins(LastEnd(low), start, at)
      OBVIOUS
    <2>3. LastEnd(low) <= start
      BY <2>1, <2>2 DEF Joins
    <2>4. \A n \in L : low[n].span.end <= LastEnd(low) /\ low[n].span.end \in Nat
      BY EndsWithLast, LedgerShape DEF Whole
    <2> HIDE DEF g, L
    <2>5. \A n \in L : low[n].span.end <= start
      BY <2>1, <2>3, <2>4
    <2> QED BY <2>1, <2>2, <2>5
  <1>3. /\ \A n \in L : (\A k \in L : n <= k) => Joins(0, low[n].span.start, at)
        /\ \A a, b \in L : NextIn(L, a, b) => Joins(low[a].span.end, low[b].span.start, at)
        /\ \A a, b \in L : a < b => low[a].span.end <= low[b].span.start
    BY DEF Whole, Tiles, Ascends
  <1>4. /\ \A n \in S : start <= book[n].span.start
        /\ \A n \in S : (\A k \in S : n <= k) => book[n].span.start = start
        /\ \A a, b \in S : NextIn(S, a, b) => book[b].span.start = book[a].span.end
        /\ \A a, b \in S : a < b => book[a].span.end <= book[b].span.start
    BY DEF TilesFrom
  <1>5. /\ Placed(book) = L \cup S
        /\ \A n \in L : book[n].span = low[n].span
        /\ \A n \in L, k \in S : n < k
    OBVIOUS
  <1>6. /\ \A n \in Episodes : book[n].span.start \in Nat /\ book[n].span.end \in Nat
        /\ \A n \in Episodes : low[n].span.start \in Nat /\ low[n].span.end \in Nat
    BY LedgerShape
  <1> HIDE DEF L, g
  <1>7. ASSUME NEW n \in Placed(book), \A k \in Placed(book) : n <= k
        PROVE  Joins(0, book[n].span.start, at)
    <2>1. CASE L = {}
      <3>1. Joins(0, start, at)
        BY <2>1 DEF L
      <3>2. n \in S /\ \A k \in S : n <= k
        BY <2>1, <1>5, <1>7
      <3> QED BY <3>1, <3>2, <1>4
    <2>2. CASE L # {}
      <3>1. PICK l \in L : TRUE
        BY <2>2
      <3>2. n <= l
        BY <1>5, <1>7
      <3>3. n \in L
        <4>1. n \in S => l < n
          BY <3>1, <1>5
        <4>2. n \in Nat /\ l \in Nat
          BY <3>1, <1>1, EpisodeFacts
        <4> QED BY <4>1, <4>2, <3>2, <1>5
      <3>4. \A k \in L : n <= k
        BY <1>5, <1>7
      <3> QED BY <3>3, <3>4, <1>3, <1>5
    <2> QED BY <2>1, <2>2
  <1>8. ASSUME NEW a \in Placed(book), NEW b \in Placed(book), NextIn(Placed(book), a, b)
        PROVE  Joins(book[a].span.end, book[b].span.start, at)
    <2>0. a < b /\ a \in Nat /\ b \in Nat /\ \A k \in Placed(book) : ~(a < k /\ k < b)
      BY <1>8, EpisodeFacts DEF NextIn
    <2>1. CASE a \in L /\ b \in L
      <3>1. NextIn(L, a, b)
        BY <2>0, <2>1, <1>5 DEF NextIn
      <3> QED BY <3>1, <2>1, <1>3, <1>5
    <2>2. CASE a \in S /\ b \in S
      <3>1. NextIn(S, a, b)
        BY <2>0, <2>2, <1>5 DEF NextIn
      <3> QED BY <3>1, <2>2, <1>4 DEF Joins
    <2>3. CASE a \in L /\ b \in S
      <3>1. a = g
        <4>1. a <= g /\ g \in L /\ g < b /\ g \in Nat
          BY <2>3, <1>1, <1>2, <1>5
        <4>2. ~(a < g /\ g < b)
          BY <4>1, <2>0, <1>5
        <4> QED BY <4>1, <4>2, <2>0
      <3>2. \A k \in S : b <= k
        <4> TAKE k \in S
        <4>1. k \in Placed(book) /\ a < k /\ k \in Nat
          BY <2>3, <1>1, <1>5
        <4> QED BY <4>1, <2>0
      <3>3. book[b].span.start = start
        BY <3>2, <2>3, <1>4
      <3> QED BY <3>1, <3>3, <2>3, <1>2, <1>5
    <2>4. ASSUME a \in S, b \in L
          PROVE  FALSE
      <3>1. b < a
        BY <2>4, <1>5
      <3> QED BY <3>1, <2>0
    <2>5. a \in L \cup S /\ b \in L \cup S
      BY <1>5
    <2> QED BY <2>1, <2>2, <2>3, <2>4, <2>5
  <1>9. ASSUME NEW a \in Placed(book), NEW b \in Placed(book), a < b
        PROVE  book[a].span.end <= book[b].span.start
    <2>1. CASE a \in L /\ b \in L
      BY <2>1, <1>9, <1>3, <1>5
    <2>2. CASE a \in S /\ b \in S
      BY <2>2, <1>9, <1>4
    <2>3. CASE a \in L /\ b \in S
      <3>1. book[a].span.end <= start /\ start <= book[b].span.start
        BY <2>3, <1>2, <1>4, <1>5
      <3>2. /\ book[a].span.end \in Nat /\ book[b].span.start \in Nat
        BY <2>3, <1>1, <1>6
      <3> QED BY <3>1, <3>2
    <2>4. ASSUME a \in S, b \in L
          PROVE  FALSE
      <3>1. b < a
        BY <2>4, <1>5
      <3>2. a \in Nat /\ b \in Nat
        BY <2>4, <1>1
      <3> QED BY <3>1, <3>2, <1>9
    <2>5. a \in L \cup S /\ b \in L \cup S
      BY <1>5
    <2> QED BY <2>1, <2>2, <2>3, <2>4, <2>5
  <1> QED BY <1>7, <1>8, <1>9 DEF Whole, Tiles, Ascends

-----------------------------------------------------------------------------
(* Cutting a stretch of the text into episodes.                            *)

LEMMA RankFacts ==
  ASSUME NEW cuts \in SUBSET (1..Total)
  PROVE  /\ \A x \in cuts : Rank(x, cuts) \in Nat /\ Rank(x, cuts) < Cardinality(cuts)
         /\ Cardinality(cuts) \in Nat
         /\ \A x, y \in cuts : x < y => Rank(x, cuts) < Rank(y, cuts)
  <1>1. /\ IsFiniteSet(1..Total) /\ \A x \in cuts : x \in Nat
    BY FS_Interval, EpisodeFacts
  <1>2. IsFiniteSet(cuts)
    BY <1>1, FS_Subset
  <1>3. ASSUME NEW T \in SUBSET cuts
        PROVE  /\ IsFiniteSet(T) /\ Cardinality(T) \in Nat
               /\ \A U \in SUBSET T : U # T => Cardinality(U) \in Nat /\ Cardinality(U) < Cardinality(T)
    <2>1. IsFiniteSet(T)
      BY <1>2, FS_Subset
    <2>2. Cardinality(T) \in Nat
      BY <2>1, FS_CardinalityType
    <2>3. ASSUME NEW U \in SUBSET T, U # T
          PROVE  Cardinality(U) \in Nat /\ Cardinality(U) < Cardinality(T)
      <3>1. /\ IsFiniteSet(U) /\ Cardinality(U) <= Cardinality(T)
            /\ Cardinality(T) = Cardinality(U) => T = U
        BY <2>1, FS_Subset
      <3>2. Cardinality(U) \in Nat
        BY <3>1, FS_CardinalityType
      <3> QED BY <2>2, <2>3, <3>1, <3>2
    <2> QED BY <2>1, <2>2, <2>3
  <1>4. ASSUME NEW x \in cuts
        PROVE  Rank(x, cuts) \in Nat /\ Rank(x, cuts) < Cardinality(cuts)
    <2> DEFINE U == {z \in cuts : z < x}
    <2>1. U \in SUBSET cuts
      OBVIOUS
    <2>2. U # cuts
      BY <1>1
    <2>3. Rank(x, cuts) = Cardinality(U)
      BY DEF Rank
    <2> HIDE DEF U
    <2> QED BY <1>3, <2>1, <2>2, <2>3
  <1>5. ASSUME NEW x \in cuts, NEW y \in cuts, x < y
        PROVE  Rank(x, cuts) < Rank(y, cuts)
    <2> DEFINE U == {z \in cuts : z < x}
               T == {z \in cuts : z < y}
    <2>a. \A z \in cuts : z < x => z < y
      BY <1>1, <1>5
    <2>1. U \in SUBSET T /\ T \in SUBSET cuts
      <3>1. U \in SUBSET T
        BY <2>a
      <3>2. T \in SUBSET cuts
        OBVIOUS
      <3> QED BY <3>1, <3>2
    <2>2. x \in T /\ x \notin U
      BY <1>1, <1>5
    <2>3. Rank(x, cuts) = Cardinality(U) /\ Rank(y, cuts) = Cardinality(T)
      BY DEF Rank
    <2> HIDE DEF U, T
    <2>4. U # T
      BY <2>2
    <2> QED BY <1>3, <2>1, <2>3, <2>4
  <1>6. Cardinality(cuts) \in Nat
    BY <1>3
  <1> QED BY <1>4, <1>5, <1>6

LEMMA SpanToFacts ==
  ASSUME NEW cuts \in SUBSET (1..Total), NEW start \in 0..Total, \A x \in cuts : start < x, NEW cut \in cuts
  PROVE  /\ SpanTo(cut, start, cuts) \in Span /\ SpanTo(cut, start, cuts).end = cut
         /\ start <= SpanTo(cut, start, cuts).start
         /\ \A x \in cuts : x < cut => x <= SpanTo(cut, start, cuts).start
         /\ SpanTo(cut, start, cuts).start \in {start} \cup {x \in cuts : x < cut}
  <1> DEFINE S == {start} \cup {x \in cuts : x < cut}
             g == Greatest(S)
  <1>1. S \in SUBSET (0..Total) /\ S # {}
    <2>1. \A x \in cuts : x \in 0..Total
      BY EpisodeFacts
    <2>a. S \subseteq 0..Total
      BY <2>1
    <2>2. S # {}
      OBVIOUS
    <2> QED BY <2>a, <2>2
  <1>2. g \in S /\ \A y \in S : y <= g
    <2> HIDE DEF S
    <2> QED BY <1>1, GreatestEpisode, EpisodeFacts, Zenon
  <1>3. SpanTo(cut, start, cuts) = [start |-> g, end |-> cut]
    BY DEF SpanTo
  <1>4. g \in 0..Total /\ g < cut
    BY <1>1, <1>2
  <1>5. start <= g /\ \A x \in cuts : x < cut => x <= g
    BY <1>2
  <1> HIDE DEF g
  <1>6. SpanTo(cut, start, cuts) \in Span
    <2>1. cut \in 0..Total
      BY EpisodeFacts
    <2> QED BY <1>3, <1>4, <2>1 DEF Span
  <1> QED BY <1>3, <1>5, <1>6, <1>2

\* The entries that the cuts make.
CutNumbers(from, cuts) == {from + Rank(cut, cuts) : cut \in cuts}

LEMMA LaidFacts ==
  ASSUME NEW book \in Ledgers, NEW from \in Episodes, NEW start \in 0..Total,
         NEW cuts \in SUBSET (1..Total), \A x \in cuts : start < x,
         from + Cardinality(cuts) - 1 <= MaxEpisodes,
         NEW status \in [Episodes -> Anchored]
  PROVE  LET new == Laid(book, from, start, cuts, status) IN
         /\ CutNumbers(from, cuts) \subseteq Episodes /\ \A n \in CutNumbers(from, cuts) : from <= n
         /\ new \in Ledgers
         /\ Placed(new) = {n \in Placed(book) : n < from} \cup CutNumbers(from, cuts)
         /\ \A n \in Episodes : n < from => new[n] = book[n]
         /\ \A n \in Episodes : new[n].status = "unset" => n < from
         /\ TilesFrom(new, CutNumbers(from, cuts), start)
         /\ \A x \in cuts : \E n \in CutNumbers(from, cuts) : new[n].span.end = x
  <1> DEFINE new == Laid(book, from, start, cuts, status)
             N == CutNumbers(from, cuts)
             at(x) == from + Rank(x, cuts)
  <1>1. /\ \A x \in cuts : Rank(x, cuts) \in Nat /\ Rank(x, cuts) < Cardinality(cuts)
        /\ Cardinality(cuts) \in Nat
        /\ \A x, y \in cuts : x < y => Rank(x, cuts) < Rank(y, cuts)
        /\ \A x \in cuts : x \in Nat
        /\ from \in Nat /\ 1 <= from /\ MaxEpisodes \in Nat
    BY RankFacts, EpisodeFacts DEF Episodes
  <1>2. \A x \in cuts : at(x) \in Nat /\ at(x) \in N /\ at(x) \in Episodes /\ from <= at(x)
    BY <1>1 DEF Episodes, CutNumbers
  <1>3. \A x, y \in cuts : x < y <=> at(x) < at(y)
    BY <1>1
  <1>4. \A x, y \in cuts : at(x) = at(y) => x = y
    BY <1>1
  <1>5. \A n \in N : \E x \in cuts : n = at(x)
    BY DEF CutNumbers
  <1>6. ASSUME NEW x \in cuts
        PROVE  new[at(x)] = Item(status[at(x)], SpanTo(x, start, cuts))
    <2> DEFINE c == CHOOSE y \in cuts : at(x) = at(y)
    <2>1. c \in cuts /\ at(x) = at(c)
      <3>1. \E y \in cuts : at(x) = at(y)
        OBVIOUS
      <3> HIDE DEF at
      <3> QED BY <3>1, Zenon
    <2>2. c = x
      <3> HIDE DEF at, c
      <3> QED BY <2>1, <1>4
    <2>3. new[at(x)] = Item(status[at(x)], SpanTo(c, start, cuts))
      <3>1. at(x) \in Episodes /\ \E cut \in cuts : at(x) = from + Rank(cut, cuts)
        BY <1>2
      <3> QED BY <3>1, Zenon DEF Laid
    <2> HIDE DEF c, new
    <2> QED BY <2>2, <2>3
  <1>7. ASSUME NEW n \in Episodes, n \notin N
        PROVE  new[n] = IF n < from THEN book[n] ELSE Item("absent", NoSpan)
    BY <1>7 DEF Laid, CutNumbers
  <1>8. \A n \in Episodes : n < from => n \notin N
    BY <1>2, <1>5, EpisodeFacts
  <1>9. DOMAIN new = Episodes /\ new = [n \in Episodes |-> new[n]]
    BY DEF Laid
  <1> HIDE DEF new, N, at
  <1>10. ASSUME NEW x \in cuts
         PROVE  /\ SpanTo(x, start, cuts) \in Span
                /\ new[at(x)].status \in Anchored /\ new[at(x)].span = SpanTo(x, start, cuts)
                /\ new[at(x)] \in Items /\ new[at(x)].span.end = x
    <2>1. SpanTo(x, start, cuts) \in Span /\ SpanTo(x, start, cuts).end = x
      BY SpanToFacts
    <2>2. status[at(x)] \in Anchored
      BY <1>2
    <2>3. Item(status[at(x)], SpanTo(x, start, cuts)) \in Items
      BY <2>1, <2>2 DEF Item, Items
    <2> QED BY <1>6, <2>1, <2>2, <2>3 DEF Item
  <1>11. new \in Ledgers
    <2>1. ASSUME NEW n \in Episodes
          PROVE  new[n] \in Items
      <3>1. CASE n \in N
        BY <3>1, <1>5, <1>10
      <3>2. CASE n \notin N
        <4>1. book[n] \in Items
          BY DEF Ledgers
        <4>2. Item("absent", NoSpan) \in Items
          BY DEF Item, Items
        <4> QED BY <3>2, <4>1, <4>2, <1>7
      <3> QED BY <3>1, <3>2
    <2> QED BY <2>1, <1>9 DEF Ledgers
  <1>12. N \subseteq Episodes /\ \A n \in N : from <= n
    BY <1>2, <1>5
  <1>13. \A n \in Episodes : n < from => new[n] = book[n]
    BY <1>7, <1>8
  <1>14. ASSUME NEW n \in Episodes, n \notin N, ~(n < from)
         PROVE  new[n].status = "absent"
    BY <1>7, <1>14 DEF Item
  <1>15. ASSUME NEW n \in N
         PROVE  new[n].status \in Anchored
    BY <1>5, <1>10
  <1>16. Placed(new) = {n \in Placed(book) : n < from} \cup N
    <2>1. ASSUME NEW n \in Placed(new)
          PROVE  n \in {m \in Placed(book) : m < from} \cup N
      <3>1. n \in Episodes /\ new[n].status \in Anchored
        BY DEF Placed
      <3>2. CASE n \in N
        BY <3>2
      <3>3. CASE n \notin N /\ n < from
        BY <3>1, <3>3, <1>13 DEF Placed
      <3>4. CASE n \notin N /\ ~(n < from)
        BY <3>1, <3>4, <1>14 DEF Anchored
      <3> QED BY <3>2, <3>3, <3>4
    <2>2. ASSUME NEW n \in Placed(book), n < from
          PROVE  n \in Placed(new)
      BY <2>2, <1>13 DEF Placed
    <2>3. ASSUME NEW n \in N
          PROVE  n \in Placed(new)
      BY <1>12, <1>15 DEF Placed
    <2> QED BY <2>1, <2>2, <2>3
  <1>17. ASSUME NEW n \in Episodes, new[n].status = "unset"
         PROVE  n < from
    <2>1. n \notin N
      BY <1>15, <1>17 DEF Anchored
    <2> QED BY <2>1, <1>14, <1>17
  <1>18. ASSUME NEW x \in cuts
         PROVE  /\ start <= new[at(x)].span.start
                /\ \A y \in cuts : y < x => y <= new[at(x)].span.start
                /\ new[at(x)].span.start \in {start} \cup {y \in cuts : y < x}
    BY <1>10, SpanToFacts
  <1>19. TilesFrom(new, N, start)
    <2>1. ASSUME NEW n \in N
          PROVE  start <= new[n].span.start
      BY <1>5, <1>18
    <2>2. ASSUME NEW n \in N, \A k \in N : n <= k
          PROVE  new[n].span.start = start
      <3>1. PICK x \in cuts : n = at(x)
        BY <1>5
      <3>2. ASSUME NEW y \in cuts, y < x
            PROVE  FALSE
        <4>1. at(y) < at(x) /\ at(x) <= at(y)
          BY <1>2, <1>3, <2>2, <3>1, <3>2
        <4> QED BY <4>1, <1>2
      <3> QED BY <3>1, <3>2, <1>18
    <2>3. ASSUME NEW a \in N, NEW b \in N, NextIn(N, a, b)
          PROVE  new[b].span.start = new[a].span.end
      <3>1. PICK x \in cuts, y \in cuts : a = at(x) /\ b = at(y)
        BY <1>5
      <3>2. x < y
        <4>1. at(x) < at(y)
          BY <2>3, <3>1 DEF NextIn
        <4> QED BY <4>1, <1>3
      <3>3. ASSUME NEW z \in cuts, x < z, z < y
            PROVE  FALSE
        <4>1. at(x) < at(z) /\ at(z) < at(y) /\ at(z) \in N
          BY <1>2, <1>3, <3>3
        <4> QED BY <4>1, <2>3, <3>1 DEF NextIn
      <3>4. x <= new[b].span.start
        BY <1>18, <3>1, <3>2
      <3>5. new[b].span.start = start \/ (new[b].span.start \in cuts /\ new[b].span.start < y)
        BY <1>18, <3>1
      <3>6. start < x /\ x \in Nat /\ start \in Nat
        BY <1>1
      <3>7. new[b].span.start = x
        <4>1. new[b].span.start # start
          BY <3>4, <3>6
        <4>2. new[b].span.start \in cuts /\ new[b].span.start \in Nat
          BY <4>1, <3>5, <1>1
        <4>3. ~(x < new[b].span.start)
          BY <4>1, <3>5, <3>3
        <4> QED BY <4>2, <4>3, <3>4, <3>6
      <3> QED BY <3>1, <3>7, <1>10
    <2>4. ASSUME NEW a \in N, NEW b \in N, a < b
          PROVE  new[a].span.end <= new[b].span.start
      <3>1. PICK x \in cuts, y \in cuts : a = at(x) /\ b = at(y)
        BY <1>5
      <3>2. x < y
        BY <3>1, <2>4, <1>3
      <3> QED BY <3>1, <3>2, <1>10, <1>18
    <2> QED BY <2>1, <2>2, <2>3, <2>4 DEF TilesFrom
  <1>20. \A x \in cuts : \E n \in N : new[n].span.end = x
    BY <1>2, <1>10
  <1> QED BY <1>11, <1>12, <1>13, <1>16, <1>17, <1>19, <1>20 DEF new, N

-----------------------------------------------------------------------------
(* What the ledger, the files and the commit under way have to do with     *)
(* each other.                                                             *)

\* Files that stand for an episode come after the entries that do.
FileOnly(n) == Unrecorded(n) /\ texts[n] # NoText
FilesFollow == \A n \in Episodes, k \in Placed(entryOf) : FileOnly(n) => k < n

CursorWithin(book, cursor, at) ==
    cursor # NoCursor => cursor = at \/ (Placed(book) # {} /\ cursor <= LastEnd(book))

RecordSound == Whole(entryOf, splitAt) /\ CursorWithin(entryOf, planCursor, splitAt)

\* A replan rewrites what the next backfill would read.
ReadSound == commit.kind # "replan" => Whole(Backfilled, splitAt) /\ FilesFollow

CommitSound ==
    commit # NoCommit =>
        /\ Whole(commit.ledger, splitAt) /\ Placed(commit.ledger) # {}
        /\ CursorWithin(commit.ledger, commit.cursor, splitAt)
        /\ commit.step = "save" =>
             \A n \in Episodes : commit.ledger[n].status = "absent" => texts[n] = NoText

\* A plan keeps every episode that is read, and adds some after them.
PlanAdds ==
    commit.kind = "plan" =>
        /\ \A n \in Placed(Backfilled) : /\ n \in Placed(commit.ledger)
                                         /\ commit.ledger[n].span = Backfilled[n].span
        /\ \A n \in Placed(commit.ledger) \ Placed(Backfilled) :
               /\ n \in commit.todo /\ entryOf[n].status = "absent"
               /\ \A k \in Placed(Backfilled) : k < n

\* What is not left to do has been written.
CommitWrites ==
    commit # NoCommit =>
        /\ \A n \in Episodes : commit.ledger[n].status # "unset"
        /\ commit.todo \subseteq Placed(commit.ledger) /\ (commit.step = "save" => commit.todo = {})
        /\ \A n \in Placed(commit.ledger) \ commit.todo : texts[n] = commit.ledger[n].span

FilesAgree == commit = NoCommit /\ planFaults = 0 => \A n \in Placed(entryOf) : texts[n] = entryOf[n].span

LedgerInv ==
    /\ PlannerTypeOK /\ CommitWrites /\ FilesAgree
    /\ ~cutOff => RecordSound /\ ReadSound /\ CommitSound /\ PlanAdds

LEMMA CommitShape ==
  ASSUME PlannerTypeOK
  PROVE  /\ commit.kind \in {"none", "plan", "replan"} /\ commit.step \in {"none", "write", "save"}
         /\ commit.ledger \in Ledgers /\ commit.cursor \in 0..NoCursor /\ commit.todo \subseteq Episodes
         /\ commit.by \subseteq Callers
         /\ commit = NoCommit <=> commit.kind = "none"
         /\ commit = NoCommit <=> commit.step = "none"
         /\ commit = NoCommit => commit.by = {}
         /\ commit # NoCommit => \E c \in Callers : commit.by = {c} /\ plans[c].kind = commit.kind
  <1>1. commit \in Commit
    BY DEF PlannerTypeOK
  <1>2. /\ commit.kind \in {"none", "plan", "replan"} /\ commit.step \in {"none", "write", "save"}
        /\ commit.ledger \in Ledgers /\ commit.cursor \in 0..NoCursor /\ commit.todo \subseteq Episodes
        /\ commit.by \subseteq Callers
    BY <1>1 DEF Commit
  <1>3. NoCommit.kind = "none" /\ NoCommit.step = "none" /\ NoCommit.by = {}
    BY DEF NoCommit
  <1>4. commit # NoCommit => /\ commit.kind # "none" /\ commit.step # "none"
                             /\ \E c \in Callers : commit.by = {c} /\ plans[c].kind = commit.kind
    BY DEF PlannerTypeOK
  <1> QED BY <1>2, <1>3, <1>4

\* What backfill makes of each entry.
BackfilledOK ==
    /\ Backfilled \in Ledgers /\ entryOf \in Ledgers
    /\ \A n \in Episodes :
         /\ ~Unrecorded(n) => Backfilled[n] = entryOf[n]
         /\ Backfilled[n].status # "unset"
         /\ Unrecorded(n) => (n \in Placed(Backfilled) <=> texts[n] \in Span)
         /\ Unrecorded(n) /\ texts[n] \in Span => Backfilled[n].span = texts[n]
         /\ Backfilled[n].status = "absent" => entryOf[n].status = "absent" /\ texts[n] = NoText
    /\ \A n \in Placed(entryOf) : /\ n \in Episodes /\ ~Unrecorded(n) /\ n \in Placed(Backfilled)
                                  /\ Backfilled[n].span = entryOf[n].span
    /\ \A n \in Placed(Backfilled) : n \in Episodes /\ (n \in Placed(entryOf) \/ Unrecorded(n))
    /\ NoText \notin Span /\ Unmatched \notin Span

LEMMA BackfilledFacts ==
  ASSUME PlannerTypeOK
  PROVE  BackfilledOK
  <1>1. NoText \notin Span /\ Unmatched \notin Span /\ NoText # Unmatched
    <2>1. Span \subseteq [start : Nat, end : Nat]
      BY PlannerAssumption DEF Span
    <2> QED BY <2>1, PlannerAssumption
  <1>2. /\ entryOf \in [Episodes -> Items] /\ texts \in [Episodes -> Span \cup {NoText, Unmatched}]
    BY DEF PlannerTypeOK, Ledgers
  <1>3. /\ \A t \in Span : Item("planned", t) \in Items /\ Item("consumed", t) \in Items
        /\ Item("unanchored", NoSpan) \in Items
    BY DEF Item, Items, Anchored
  <1>4. /\ \A s, t : Item(s, t).status = s /\ Item(s, t).span = t
        /\ \A i \in Items : i.status \in Anchored \cup {"absent", "unset", "unanchored"}
    BY DEF Item, Items, Anchored
  <1>5. ASSUME NEW n \in Episodes
        PROVE  /\ Backfilled[n] \in Items
               /\ ~Unrecorded(n) => Backfilled[n] = entryOf[n]
               /\ Backfilled[n].status # "unset"
               /\ Unrecorded(n) => (Backfilled[n].status \in Anchored <=> texts[n] \in Span)
               /\ Unrecorded(n) /\ texts[n] \in Span => Backfilled[n].span = texts[n]
               /\ Backfilled[n].status = "absent" => entryOf[n].status = "absent" /\ texts[n] = NoText
    <2>0. entryOf[n] \in Items /\ texts[n] \in Span \cup {NoText, Unmatched}
      BY <1>2
    <2>1. CASE ~Unrecorded(n)
      <3>1. Backfilled[n] = entryOf[n]
        BY <2>1 DEF Backfilled, Unrecorded
      <3> QED BY <2>0, <2>1, <3>1 DEF Unrecorded
    <2>2. CASE Unrecorded(n) /\ entryOf[n].status = "absent" /\ texts[n] = NoText
      <3>1. Backfilled[n] = entryOf[n]
        BY <2>2 DEF Backfilled, Unrecorded
      <3> QED BY <2>0, <2>2, <3>1, <1>1 DEF Anchored
    <2>3. CASE Unrecorded(n) /\ ~(entryOf[n].status = "absent" /\ texts[n] = NoText)
      <3>1. CASE texts[n] \in Span
        <4>1. \/ Backfilled[n] = Item("planned", texts[n])
              \/ Backfilled[n] = Item("consumed", texts[n])
          BY <2>3, <3>1 DEF Backfilled, Unrecorded
        <4>2. Backfilled[n] \in Items
          BY <4>1, <3>1, <1>3
        <4>3. Backfilled[n].status \in Anchored /\ Backfilled[n].span = texts[n]
          BY <4>1, <1>4 DEF Anchored
        <4>4. Backfilled[n].status # "unset" /\ Backfilled[n].status # "absent"
          BY <4>3 DEF Anchored
        <4> QED BY <4>2, <4>3, <4>4, <3>1, <2>3
      <3>2. CASE texts[n] \notin Span
        <4>1. Backfilled[n] = Item("unanchored", NoSpan)
          BY <2>3, <3>2 DEF Backfilled, Unrecorded
        <4>2. Backfilled[n] \in Items
          BY <4>1, <1>3
        <4>3. Backfilled[n].status = "unanchored"
          BY <4>1, <1>4
        <4>4. Backfilled[n].status \notin Anchored
          BY <4>3 DEF Anchored
        <4> QED BY <4>2, <4>3, <4>4, <3>2, <2>3
      <3> QED BY <3>1, <3>2
    <2> QED BY <2>1, <2>2, <2>3
  <1>6. Backfilled \in Ledgers
    <2>1. Backfilled = [n \in Episodes |-> Backfilled[n]]
      BY DEF Backfilled
    <2> QED BY <2>1, <1>5 DEF Ledgers
  <1>7. \A n \in Placed(entryOf) : /\ n \in Episodes /\ ~Unrecorded(n) /\ n \in Placed(Backfilled)
                                   /\ Backfilled[n].span = entryOf[n].span
    <2> TAKE n \in Placed(entryOf)
    <2>1. n \in Episodes /\ entryOf[n].status \in Anchored
      BY DEF Placed
    <2>2. ~Unrecorded(n)
      BY <2>1 DEF Unrecorded, Anchored
    <2>3. Backfilled[n] = entryOf[n]
      BY <2>1, <2>2, <1>5
    <2> QED BY <2>1, <2>2, <2>3 DEF Placed
  <1>8. \A n \in Placed(Backfilled) : n \in Placed(entryOf) \/ Unrecorded(n)
    BY <1>5 DEF Placed
  <1>9. entryOf \in Ledgers
    BY DEF PlannerTypeOK
  <1>10. Placed(Backfilled) \subseteq Episodes
    BY DEF Placed
  <1>11. \A n \in Episodes : n \in Placed(Backfilled) <=> Backfilled[n].status \in Anchored
    BY DEF Placed
  <1> QED BY <1>1, <1>5, <1>6, <1>7, <1>8, <1>9, <1>10, <1>11 DEF BackfilledOK

\* The same, of the next state.
LEMMA BackfilledNext ==
  ASSUME PlannerTypeOK'
  PROVE  /\ Backfilled' \in Ledgers /\ entryOf' \in Ledgers
         /\ \A n \in Episodes :
              /\ ~Unrecorded(n)' => Backfilled'[n] = entryOf'[n]
              /\ Unrecorded(n)' => (n \in Placed(Backfilled') <=> texts'[n] \in Span)
              /\ Unrecorded(n)' /\ texts'[n] \in Span => Backfilled'[n].span = texts'[n]
         /\ \A n \in Placed(entryOf') : /\ n \in Episodes /\ ~Unrecorded(n)' /\ n \in Placed(Backfilled')
                                        /\ Backfilled'[n].span = entryOf'[n].span
         /\ \A n \in Placed(Backfilled') : n \in Episodes /\ (n \in Placed(entryOf') \/ Unrecorded(n)')
  <1>1. (PlannerTypeOK => BackfilledOK)'
    BY BackfilledFacts, PTL
  <1> QED BY <1>1 DEF BackfilledOK

\* A plan under way leaves, at each of its steps, the first part of its ledger.
LEMMA PlanReads ==
  ASSUME PlannerTypeOK, PlanAdds, CommitSound, commit.kind = "plan"
  PROVE  Whole(Backfilled, splitAt)
  <1>1. Whole(commit.ledger, splitAt) /\ commit.ledger \in Ledgers
    BY CommitShape DEF CommitSound
  <1>2. Backfilled \in Ledgers /\ Placed(Backfilled) \subseteq Nat /\ Placed(commit.ledger) \subseteq Nat
    BY BackfilledFacts, EpisodeFacts DEF BackfilledOK
  <1>3. /\ \A n \in Placed(Backfilled) : /\ n \in Placed(commit.ledger)
                                         /\ commit.ledger[n].span = Backfilled[n].span
        /\ \A n \in Placed(commit.ledger) \ Placed(Backfilled) :
             \A k \in Placed(Backfilled) : k < n
    BY DEF PlanAdds
  <1>4. \A n \in Placed(Backfilled), k \in Placed(commit.ledger) : k < n => k \in Placed(Backfilled)
    BY <1>2, <1>3
  <1> DEFINE book == commit.ledger
             part == Backfilled
  <1>5. /\ book \in Ledgers /\ Whole(book, splitAt) /\ part \in Ledgers /\ Placed(part) \subseteq Placed(book)
        /\ \A n \in Placed(part), k \in Placed(book) : k < n => k \in Placed(part)
        /\ \A n \in Placed(part) : part[n].span.start = book[n].span.start
        /\ \A n, k \in Placed(part) : n < k => part[n].span.end = book[n].span.end
    BY <1>1, <1>2, <1>3, <1>4
  <1> HIDE DEF book, part
  <1>6. Whole(part, splitAt)
    BY <1>5, FirstPart
  <1> QED BY <1>6 DEF part

\* What stays as it is when the entries and the files do.
LEMMA SameReading ==
  ASSUME PlannerTypeOK, entryOf' = entryOf, texts' = texts, scriptOf' = scriptOf
  PROVE  /\ Backfilled' = Backfilled /\ FilesFollow' = FilesFollow
         /\ \A n : FileOnly(n)' = FileOnly(n) /\ Unrecorded(n)' = Unrecorded(n)
  BY DEF Backfilled, FilesFollow, FileOnly, Unrecorded

-----------------------------------------------------------------------------
(* Types.                                                                  *)

\* The commit of a plan: the cuts follow the ledger that is read.
LEMMA BegunPlan ==
  ASSUME PlannerTypeOK, NEW c \in Callers, BeginPlan(c)
  PROVE  \E from \in Episodes, cuts \in SUBSET (1..Total), status \in [Episodes -> Anchored] :
           /\ \A x \in cuts : plans[c].start < x
           /\ from + Cardinality(cuts) - 1 <= MaxEpisodes
           /\ \A n \in Present(Backfilled) : n < from
           /\ commit'.ledger = Laid(Backfilled, from, plans[c].start, cuts, status)
           /\ commit'.cursor \in cuts
           /\ commit' = [by |-> {c}, kind |-> "plan", ledger |-> commit'.ledger, cursor |-> commit'.cursor,
                         todo |-> Placed(commit'.ledger), step |-> "write"]
  <1> DEFINE book == Backfilled
             next == 1 + Greatest({0} \cup Present(book))
             start == plans[c].start
             status == [n \in Episodes |-> "planned"]
  <1>0. plans[c].kind = "plan"
    BY DEF BeginPlan
  <1>1. PICK cuts \in PlanCuts(start) :
          /\ next + Cardinality(cuts) - 1 <= MaxEpisodes
          /\ Hold(c, Laid(book, next, start, cuts, status), Greatest(cuts))
    BY DEF BeginPlan
  <1>2. /\ cuts \in SUBSET (1..Total) /\ cuts # {} /\ \A x \in cuts : start < x
    BY DEF PlanCuts
  <1>3. Greatest(cuts) \in cuts
    <2>1. cuts \in SUBSET (0..Total)
      BY <1>2, EpisodeFacts
    <2> QED BY <2>1, <1>2, GreatestEpisode, EpisodeFacts
  <1>4. next \in Nat /\ 1 <= next /\ \A n \in Present(book) : n < next
    <2> DEFINE S == {0} \cup Present(book)
    <2>1. S \in SUBSET (0..MaxEpisodes) /\ S # {}
      <3>1. Present(book) \subseteq 0..MaxEpisodes
        BY EpisodeFacts DEF Present
      <3>2. 0 \in 0..MaxEpisodes
        BY EpisodeFacts
      <3> QED BY <3>1, <3>2
    <2>2. Greatest(S) \in S /\ \A y \in S : y <= Greatest(S)
      <3> HIDE DEF S
      <3> QED BY <2>1, GreatestEpisode, EpisodeFacts, Zenon
    <2> DEFINE top == Greatest(S)
    <2>3. next = 1 + top /\ top \in Nat /\ \A n \in Present(book) : n \in Nat /\ n <= top
      BY <2>1, <2>2
    <2> HIDE DEF top, next, S
    <2> QED BY <2>3
  <1>5. next \in Episodes
    <2>1. /\ Cardinality(cuts) \in Nat /\ \E x \in cuts : Rank(x, cuts) \in Nat /\ Rank(x, cuts) < Cardinality(cuts)
      BY <1>2, RankFacts
    <2>2. 1 <= Cardinality(cuts)
      BY <2>1
    <2> HIDE DEF next
    <2> QED BY <1>1, <1>4, <2>1, <2>2, EpisodeFacts DEF Episodes
  <1>6. status \in [Episodes -> Anchored]
    BY DEF Anchored
  <1>7. commit' = [by |-> {c}, kind |-> "plan", ledger |-> Laid(book, next, start, cuts, status),
                   cursor |-> Greatest(cuts), todo |-> Placed(Laid(book, next, start, cuts, status)),
                   step |-> "write"]
    BY <1>0, <1>1 DEF Hold
  <1>8. /\ commit'.ledger = Laid(book, next, start, cuts, status) /\ commit'.cursor = Greatest(cuts)
        /\ commit' = [by |-> {c}, kind |-> "plan", ledger |-> commit'.ledger, cursor |-> commit'.cursor,
                      todo |-> Placed(commit'.ledger), step |-> "write"]
    BY <1>7
  <1> HIDE DEF next, status
  <1> QED BY <1>1, <1>2, <1>3, <1>4, <1>5, <1>6, <1>8

\* The commit of a replan: the stretch of text that its episodes were is cut anew.
LEMMA BegunReplan ==
  ASSUME PlannerTypeOK, NEW c \in Callers, BeginReplan(c)
  PROVE  \E start \in 0..Total, cuts \in SUBSET (1..Total), status \in [Episodes -> Anchored] :
           LET from == plans[c].from
               book == Backfilled
               affected == Affected(book, from)
           IN  /\ \A x \in cuts : start < x
               /\ from + Cardinality(cuts) - 1 <= MaxEpisodes
               /\ from \in affected /\ affected \subseteq Placed(book) /\ from \in Episodes
               /\ \E k \in affected : start = book[k].span.start
               /\ \A k \in affected : start <= book[k].span.start
               /\ \A k \in affected :
                    (\A m \in affected : book[m].span.end <= book[k].span.end) => book[k].span.end \in cuts
               /\ commit'.ledger = Laid(book, from, start, cuts, status)
               /\ commit' = [by |-> {c}, kind |-> "replan", ledger |-> commit'.ledger,
                             cursor |-> CursorOf(book), todo |-> Placed(commit'.ledger), step |-> "write"]
  <1> DEFINE book == Backfilled
             from == plans[c].from
             seen == plans[c].seen
             affected == Affected(book, from)
             start == Least({x[2].start : x \in seen})
             status == [n \in Episodes |-> IF book[n].status \in {"consumed", "stale"} THEN "stale" ELSE "planned"]
  <1>0. plans[c].kind = "replan"
    BY DEF BeginReplan
  <1>1. PICK cuts \in ReplanCuts(seen) :
          /\ from + Cardinality(cuts) - 1 <= MaxEpisodes
          /\ Hold(c, Laid(book, from, start, cuts, status), CursorOf(book))
    BY DEF BeginReplan
  <1>2. /\ from \in affected /\ affected \subseteq Placed(book)
        /\ seen = {<<n, book[n].span>> : n \in affected}
    BY <1>0 DEF BeginReplan, StillTheSame, CanReplan, SpansFrom
  <1>3. from \in Episodes /\ affected \subseteq Episodes
    BY <1>2, EpisodeFacts
  <1>4. \A k \in affected : /\ book[k].span.start \in Nat /\ book[k].span.end \in Nat
                            /\ book[k].span.start < book[k].span.end /\ book[k].span.end <= Total
    BY <1>2, LedgerShape, BackfilledFacts DEF BackfilledOK
  <1>a. /\ \A x \in seen : \E k \in affected : x[2] = book[k].span
        /\ \A k \in affected : \E x \in seen : x[2] = book[k].span
    <2> HIDE DEF affected, book, seen
    <2>1. \A k \in affected : <<k, book[k].span>>[2] = book[k].span
      OBVIOUS
    <2>2. \A x \in seen : \E k \in affected : x = <<k, book[k].span>>
      BY <1>2
    <2>3. \A k \in affected : <<k, book[k].span>> \in seen
      BY <1>2
    <2> QED BY <2>1, <2>2, <2>3
  <1> DEFINE starts == {x[2].start : x \in seen}
  <1>5. starts = {book[k].span.start : k \in affected}
    <2> HIDE DEF affected, book, seen
    <2>1. \A x \in seen : \E k \in affected : x[2].start = book[k].span.start
      BY <1>a
    <2>2. \A k \in affected : \E x \in seen : x[2].start = book[k].span.start
      BY <1>a
    <2> QED BY <2>1, <2>2
  <1>6. start \in starts /\ \A y \in starts : start <= y
    <2>1. starts \in SUBSET Nat
      BY <1>4, <1>5
    <2>2. starts # {}
      <3>1. book[from].span.start \in starts
        BY <1>2, <1>5
      <3> HIDE DEF starts
      <3> QED BY <3>1
    <2> HIDE DEF starts
    <2>3. start = Least(starts)
      BY DEF starts
    <2> QED BY <2>1, <2>2, <2>3, LeastEpisode, Zenon
  <1> HIDE DEF start, starts
  <1>7. /\ \E k \in affected : start = book[k].span.start
        /\ \A k \in affected : start <= book[k].span.start
    BY <1>5, <1>6
  <1>8. start \in 0..Total
    BY <1>7, <1>4, EpisodeFacts
  <1>9. Covered(seen) = UNION {(book[k].span.start + 1)..book[k].span.end : k \in affected}
    <2> DEFINE range(span) == (span.start + 1)..span.end
    <2>1. Covered(seen) = UNION {range(x[2]) : x \in seen}
      BY DEF Covered
    <2> HIDE DEF affected, book, seen, range
    <2>2. \A p : p \in UNION {range(x[2]) : x \in seen} => \E k \in affected : p \in range(book[k].span)
      BY <1>a
    <2>3. \A p : (\E k \in affected : p \in range(book[k].span)) => p \in UNION {range(x[2]) : x \in seen}
      BY <1>a
    <2>4. UNION {range(x[2]) : x \in seen} = UNION {range(book[k].span) : k \in affected}
      BY <2>2, <2>3
    <2> QED BY <2>1, <2>4 DEF range
  <1>10. ASSUME NEW p \in Covered(seen)
         PROVE  /\ p \in 1..Total /\ start < p
                /\ \E k \in affected : p <= book[k].span.end
    <2>1. PICK k \in affected : p \in (book[k].span.start + 1)..book[k].span.end
      BY <1>9
    <2> QED BY <2>1, <1>4, <1>7, <1>8, EpisodeFacts
  <1>11. cuts \subseteq Covered(seen)
         /\ \A p \in Covered(seen) : p + 1 \notin Covered(seen) => p \in cuts
    BY <1>1 DEF ReplanCuts
  <1>12. cuts \in SUBSET (1..Total) /\ \A x \in cuts : start < x
    BY <1>10, <1>11
  <1>13. ASSUME NEW k \in affected, \A m \in affected : book[m].span.end <= book[k].span.end
         PROVE  book[k].span.end \in cuts
    <2> DEFINE e == book[k].span.end
    <2>1. e \in (book[k].span.start + 1)..e
      BY <1>4
    <2>2. e \in Covered(seen)
      BY <1>9, <2>1
    <2>3. ASSUME e + 1 \in Covered(seen)
          PROVE  FALSE
      <3>1. PICK m \in affected : e + 1 <= book[m].span.end
        BY <1>10, <2>3
      <3>2. book[m].span.end <= e /\ e \in Nat /\ book[m].span.end \in Nat
        BY <1>4, <1>13
      <3> QED BY <3>1, <3>2
    <2> QED BY <2>2, <2>3, <1>11
  <1>14. status \in [Episodes -> Anchored]
    BY DEF Anchored
  <1>15. Hold(c, Laid(book, from, start, cuts, status), CursorOf(book))
    BY <1>1 DEF start
  <1> HIDE DEF status
  <1>16. commit' = [by |-> {c}, kind |-> "replan", ledger |-> Laid(book, from, start, cuts, status),
                    cursor |-> CursorOf(book), todo |-> Placed(Laid(book, from, start, cuts, status)),
                    step |-> "write"]
    BY <1>0, <1>15 DEF Hold
  <1>17. /\ commit'.ledger = Laid(book, from, start, cuts, status)
         /\ commit' = [by |-> {c}, kind |-> "replan", ledger |-> commit'.ledger,
                       cursor |-> CursorOf(book), todo |-> Placed(commit'.ledger), step |-> "write"]
    BY <1>16
  <1>18. from + Cardinality(cuts) - 1 <= MaxEpisodes
    BY <1>1
  <1> QED BY <1>2, <1>3, <1>7, <1>8, <1>12, <1>13, <1>14, <1>17, <1>18

LEMMA PlanShape ==
  ASSUME PlannerTypeOK, NEW c \in Callers
  PROVE  /\ plans[c].from \in 0..MaxEpisodes /\ plans[c].start \in 0..Total
         /\ plans[c].kind \in {"none", "plan", "replan"}
  BY DEF PlannerTypeOK, Plan

LEMMA NoPlanTyped == NoPlan \in Plan /\ NoPlan.kind = "none"
  <1>1. 0 \in 0..MaxEpisodes /\ 0 \in 0..Total
    BY EpisodeFacts
  <1> QED BY <1>1 DEF NoPlan, Plan

LEMMA NoCommitTyped == NoCommit \in Commit /\ NoLedger \in Ledgers
  <1>1. NoLedger \in Ledgers
    BY DEF NoLedger, Ledgers, Items, Item
  <1>2. 0 \in 0..NoCursor
    BY EpisodeFacts DEF NoCursor
  <1> QED BY <1>1, <1>2 DEF NoCommit, Commit

LEMMA AskTyped ==
  ASSUME PlannerTypeOK, NEW c \in Callers, NEW request \in Plan, Ask(c, request)
  PROVE  PlannerTypeOK'
  <1>1. plans[c].kind = "none" /\ plans' = [plans EXCEPT ![c] = request] /\ planCount' = planCount + 1
        /\ planCount < MaxPlans /\ UNCHANGED <<splitAt, remaining, entryOf, planCursor, texts, scriptOf, commit, cutOff, planFaults>>
    BY DEF Ask
  <1>2. plans' \in [Callers -> Plan]
    BY <1>1 DEF PlannerTypeOK
  <1>3. planCount' \in 0..MaxPlans
    BY <1>1, PlannerAssumption DEF PlannerTypeOK
  <1>4. \/ commit' = NoCommit
        \/ /\ \E d \in Callers : commit'.by = {d} /\ plans'[d].kind = commit'.kind
           /\ commit'.kind # "none" /\ commit'.step # "none"
    <2>1. CASE commit = NoCommit
      BY <2>1, <1>1
    <2>2. CASE commit # NoCommit
      <3>1. PICK d \in Callers : commit.by = {d} /\ plans[d].kind = commit.kind
        BY <2>2 DEF PlannerTypeOK
      <3>2. commit.kind # "none" /\ commit.step # "none"
        BY <2>2 DEF PlannerTypeOK
      <3>3. d # c
        BY <3>1, <3>2, <1>1
      <3>4. plans'[d] = plans[d]
        BY <3>3, <1>1 DEF PlannerTypeOK
      <3> QED BY <3>1, <3>2, <3>4, <1>1
    <2> QED BY <2>1, <2>2
  <1> QED BY <1>1, <1>2, <1>3, <1>4 DEF PlannerTypeOK

LEMMA CursorTyped ==
  ASSUME PlannerTypeOK
  PROVE  CursorOf(Backfilled) \in 0..NoCursor
  <1>1. planCursor \in 0..NoCursor /\ NoCursor \in 0..NoCursor
    BY EpisodeFacts DEF PlannerTypeOK, NoCursor
  <1>2. Placed(Backfilled) # {} => LastEnd(Backfilled) \in 0..NoCursor
    <2>1. Placed(Backfilled) # {} => LastEnd(Backfilled) \in 1..Total
      BY BackfilledFacts, LastPlaced DEF BackfilledOK
    <2> QED BY <2>1, EpisodeFacts DEF NoCursor
  <1>3. remaining \in 0..NoCursor
    BY <1>1 DEF PlannerTypeOK
  <1> QED BY <1>1, <1>2, <1>3 DEF CursorOf

LEMMA AskPlanTyped ==
  ASSUME PlannerTypeOK, NEW c \in Callers, AskPlan(c)
  PROVE  PlannerTypeOK'
  <1> DEFINE book == Backfilled
             cursor == CursorOf(book)
             start == EffectiveStart(book, cursor)
             known == (IF Placed(book) = {} THEN {} ELSE {LastEnd(book)})
                      \cup (IF cursor = NoCursor THEN {} ELSE {cursor})
  <1>1. start < Total /\ Ask(c, [NoPlan EXCEPT !.kind = "plan", !.start = start])
    BY DEF AskPlan
  <1>2. start = IF known = {} THEN 0 ELSE Greatest(known)
    BY DEF EffectiveStart
  <1>3. Placed(book) # {} => LastEnd(book) \in 0..NoCursor
    <2>1. Placed(book) # {} => LastEnd(book) \in 1..Total
      BY BackfilledFacts, LastPlaced DEF BackfilledOK
    <2> QED BY <2>1, EpisodeFacts DEF NoCursor
  <1>4. cursor \in 0..NoCursor
    BY CursorTyped
  <1>5. start \in Nat
    <2>1. known \in SUBSET (0..NoCursor)
      BY <1>3, <1>4
    <2>2. NoCursor \in Nat
      BY EpisodeFacts DEF NoCursor
    <2> HIDE DEF known
    <2>3. known # {} => Greatest(known) \in known
      BY <2>1, <2>2, GreatestEpisode
    <2> HIDE DEF start
    <2> QED BY <1>2, <2>1, <2>2, <2>3
  <1>6. start \in 0..Total
    <2> HIDE DEF start
    <2> QED BY <1>1, <1>5, EpisodeFacts
  <1> HIDE DEF start
  <1>7. [NoPlan EXCEPT !.kind = "plan", !.start = start] \in Plan
    BY <1>6, NoPlanTyped DEF Plan
  <1> QED BY <1>1, <1>7, AskTyped

LEMMA AskReplanTyped ==
  ASSUME PlannerTypeOK, NEW c \in Callers, NEW from \in Episodes, NEW confirmed \in BOOLEAN,
         AskReplan(c, from, confirmed)
  PROVE  PlannerTypeOK'
  <1> DEFINE book == Backfilled
             seen == SpansFrom(book, from)
             agreed == Consumed(book, from)
             request == [NoPlan EXCEPT !.kind = "replan", !.from = from, !.seen = seen, !.agreed = agreed]
  <1>1. CanReplan(book, from) /\ Ask(c, request)
    BY DEF AskReplan
  <1>2. Affected(book, from) \subseteq Placed(book) /\ Affected(book, from) \subseteq Episodes
    BY <1>1 DEF CanReplan, Affected, Present
  <1>3. \A n \in Placed(book) : book[n].span \in Span
    BY LedgerShape, BackfilledFacts DEF BackfilledOK
  <1>4. seen \in SUBSET (Episodes \X Span)
    <2>1. \A n \in Affected(book, from) : <<n, book[n].span>> \in Episodes \X Span
      BY <1>2, <1>3
    <2> HIDE DEF book
    <2> QED BY <2>1 DEF SpansFrom
  <1>5. agreed \in SUBSET Episodes
    BY <1>2 DEF Consumed
  <1>6. from \in 0..MaxEpisodes
    BY EpisodeFacts
  <1> HIDE DEF seen, agreed
  <1>7. request \in Plan
    BY <1>4, <1>5, <1>6, NoPlanTyped DEF Plan
  <1> HIDE DEF request
  <1> QED BY <1>1, <1>7, AskTyped

\* A commit begun by c whose ledger and cursor are in range.
LEMMA HoldTyped ==
  ASSUME PlannerTypeOK, NEW c \in Callers, NEW kind \in {"plan", "replan"}, plans[c].kind = kind,
         NEW book \in Ledgers, NEW cursor \in 0..NoCursor,
         commit' = [by |-> {c}, kind |-> kind, ledger |-> book, cursor |-> cursor,
                    todo |-> Placed(book), step |-> "write"],
         UNCHANGED <<splitAt, remaining, entryOf, planCursor, texts, scriptOf, plans, cutOff, planCount, planFaults>>
  PROVE  PlannerTypeOK'
  <1>1. Placed(book) \in SUBSET Episodes /\ {c} \in SUBSET Callers
    BY EpisodeFacts
  <1> DEFINE todo == Placed(book)
             by == {c}
  <1>2. commit' = [by |-> by, kind |-> kind, ledger |-> book, cursor |-> cursor,
                   todo |-> todo, step |-> "write"]
    OBVIOUS
  <1>a. todo \in SUBSET Episodes /\ by \in SUBSET Callers
    BY <1>1
  <1>b. by = {c}
    OBVIOUS
  <1> HIDE DEF todo, by
  <1>3. commit' \in Commit
    BY <1>2, <1>a DEF Commit
  <1>4. commit'.by = {c} /\ plans'[c].kind = commit'.kind /\ commit'.kind # "none" /\ commit'.step # "none"
    BY <1>2, <1>b
  <1> QED BY <1>3, <1>4 DEF PlannerTypeOK

LEMMA BeginPlanTyped ==
  ASSUME PlannerTypeOK, NEW c \in Callers, BeginPlan(c)
  PROVE  PlannerTypeOK'
  <1>1. PICK from \in Episodes, cuts \in SUBSET (1..Total), status \in [Episodes -> Anchored] :
           /\ \A x \in cuts : plans[c].start < x
           /\ from + Cardinality(cuts) - 1 <= MaxEpisodes
           /\ commit'.ledger = Laid(Backfilled, from, plans[c].start, cuts, status)
           /\ commit'.cursor \in cuts
           /\ commit' = [by |-> {c}, kind |-> "plan", ledger |-> commit'.ledger, cursor |-> commit'.cursor,
                         todo |-> Placed(commit'.ledger), step |-> "write"]
    BY BegunPlan
  <1>2. commit'.ledger \in Ledgers
    <2>1. plans[c].start \in 0..Total /\ Backfilled \in Ledgers
      BY PlanShape, BackfilledFacts DEF BackfilledOK
    <2> QED BY <1>1, <2>1, LaidFacts
  <1>3. commit'.cursor \in 0..NoCursor
    BY <1>1, EpisodeFacts DEF NoCursor
  <1>4. plans[c].kind = "plan" /\ UNCHANGED <<splitAt, remaining, entryOf, planCursor, texts, scriptOf, plans, cutOff, planCount, planFaults>>
    BY DEF BeginPlan
  <1> DEFINE book == commit'.ledger
             cursor == commit'.cursor
  <1>5. commit' = [by |-> {c}, kind |-> "plan", ledger |-> book, cursor |-> cursor,
                   todo |-> Placed(book), step |-> "write"]
    BY <1>1
  <1>6. book \in Ledgers /\ cursor \in 0..NoCursor
    BY <1>2, <1>3
  <1> HIDE DEF book, cursor
  <1> QED BY <1>4, <1>5, <1>6, HoldTyped

LEMMA BeginReplanTyped ==
  ASSUME PlannerTypeOK, NEW c \in Callers, BeginReplan(c)
  PROVE  PlannerTypeOK'
  <1>1. PICK start \in 0..Total, cuts \in SUBSET (1..Total), status \in [Episodes -> Anchored] :
           /\ \A x \in cuts : start < x
           /\ plans[c].from + Cardinality(cuts) - 1 <= MaxEpisodes
           /\ plans[c].from \in Episodes
           /\ commit'.ledger = Laid(Backfilled, plans[c].from, start, cuts, status)
           /\ commit' = [by |-> {c}, kind |-> "replan", ledger |-> commit'.ledger,
                         cursor |-> CursorOf(Backfilled), todo |-> Placed(commit'.ledger), step |-> "write"]
    BY BegunReplan
  <1>2. commit'.ledger \in Ledgers
    BY <1>1, BackfilledFacts, LaidFacts DEF BackfilledOK
  <1>3. CursorOf(Backfilled) \in 0..NoCursor
    BY CursorTyped
  <1>4. plans[c].kind = "replan" /\ UNCHANGED <<splitAt, remaining, entryOf, planCursor, texts, scriptOf, plans, cutOff, planCount, planFaults>>
    BY DEF BeginReplan
  <1> DEFINE book == commit'.ledger
             cursor == CursorOf(Backfilled)
  <1>5. commit' = [by |-> {c}, kind |-> "replan", ledger |-> book, cursor |-> cursor,
                   todo |-> Placed(book), step |-> "write"]
    BY <1>1
  <1>6. book \in Ledgers /\ cursor \in 0..NoCursor
    BY <1>2, <1>3
  <1> HIDE DEF book, cursor
  <1> QED BY <1>4, <1>5, <1>6, HoldTyped

LEMMA GiveUpPlanTyped ==
  ASSUME PlannerTypeOK, NEW c \in Callers, GiveUpPlan(c)
  PROVE  PlannerTypeOK'
  <1>1. commit.by # {c} /\ plans' = [plans EXCEPT ![c] = NoPlan]
        /\ UNCHANGED <<splitAt, remaining, entryOf, planCursor, texts, scriptOf, commit, cutOff, planCount, planFaults>>
    BY DEF GiveUpPlan
  <1>2. plans' \in [Callers -> Plan]
    BY <1>1, NoPlanTyped DEF PlannerTypeOK
  <1>4. \/ commit' = NoCommit
        \/ /\ \E d \in Callers : commit'.by = {d} /\ plans'[d].kind = commit'.kind
           /\ commit'.kind # "none" /\ commit'.step # "none"
    <2>1. CASE commit = NoCommit
      BY <2>1, <1>1
    <2>2. CASE commit # NoCommit
      <3>1. PICK d \in Callers : commit.by = {d} /\ plans[d].kind = commit.kind
        BY <2>2 DEF PlannerTypeOK
      <3>2. commit.kind # "none" /\ commit.step # "none"
        BY <2>2 DEF PlannerTypeOK
      <3>3. d # c
        BY <3>1, <1>1
      <3>4. plans'[d] = plans[d]
        BY <3>3, <1>1 DEF PlannerTypeOK
      <3> QED BY <3>1, <3>2, <3>4, <1>1
    <2> QED BY <2>1, <2>2
  <1> QED BY <1>1, <1>2, <1>4 DEF PlannerTypeOK

\* The file that is next.
LEMMA NextFile ==
  ASSUME PlannerTypeOK, CommitWrites, commit.step = "write", commit.todo # {}
  PROVE  LET n == Least(commit.todo) IN
         /\ n \in commit.todo /\ n \in Episodes /\ n \in Placed(commit.ledger)
         /\ commit.ledger[n].span \in Span /\ commit # NoCommit
         /\ \A m \in commit.todo : m # n => n < m
  <1>1. commit # NoCommit /\ commit.ledger \in Ledgers /\ commit.todo \subseteq Episodes
    BY CommitShape
  <1>2. Least(commit.todo) \in commit.todo /\ \A m \in commit.todo : Least(commit.todo) <= m
    BY <1>1, LeastEpisode, EpisodeFacts
  <1>3. \A m \in commit.todo : m \in Nat /\ m \in Placed(commit.ledger)
    BY <1>1, EpisodeFacts DEF CommitWrites
  <1>4. commit.ledger[Least(commit.todo)].span \in Span
    BY <1>1, <1>2, <1>3, LedgerShape
  <1> DEFINE n == Least(commit.todo)
  <1> HIDE DEF n
  <1>5. \A m \in commit.todo : m # n => n < m
    BY <1>2, <1>3 DEF n
  <1> QED BY <1>1, <1>2, <1>3, <1>4, <1>5 DEF n

\* A commit in which one field changes that no type depends on.
LEMMA CommitTyped ==
  ASSUME PlannerTypeOK, commit # NoCommit, NEW todo \in SUBSET Episodes, NEW step \in {"write", "save"},
         commit' = [commit EXCEPT !.todo = todo] \/ commit' = [commit EXCEPT !.step = step],
         UNCHANGED plans
  PROVE  /\ commit' \in Commit
         /\ \E d \in Callers : commit'.by = {d} /\ plans'[d].kind = commit'.kind
         /\ commit'.kind # "none" /\ commit'.step # "none"
         /\ commit'.kind = commit.kind /\ commit'.ledger = commit.ledger /\ commit'.cursor = commit.cursor
         /\ commit'.by = commit.by
  <1>1. /\ commit \in Commit /\ commit.kind # "none" /\ commit.step # "none"
        /\ \E d \in Callers : commit.by = {d} /\ plans[d].kind = commit.kind
    BY DEF PlannerTypeOK
  <1>2. CASE commit' = [commit EXCEPT !.todo = todo]
    <2>1. commit' \in Commit /\ commit'.by = commit.by /\ commit'.kind = commit.kind /\ commit'.step = commit.step
          /\ commit'.ledger = commit.ledger /\ commit'.cursor = commit.cursor
      BY <1>1, <1>2 DEF Commit
    <2> QED BY <2>1, <1>1
  <1>3. CASE commit' = [commit EXCEPT !.step = step]
    <2>1. commit' \in Commit /\ commit'.by = commit.by /\ commit'.kind = commit.kind /\ commit'.step = step
          /\ commit'.ledger = commit.ledger /\ commit'.cursor = commit.cursor
      BY <1>1, <1>3 DEF Commit
    <2> QED BY <2>1, <1>1
  <1> QED BY <1>2, <1>3

LEMMA WriteTextTyped ==
  ASSUME PlannerTypeOK, CommitWrites, WriteText
  PROVE  PlannerTypeOK'
  <1> DEFINE n == Least(commit.todo)
             toWrite == commit.todo \ {n}
             text == commit.ledger[n].span
  <1>1. /\ commit.step = "write" /\ commit.todo # {}
        /\ texts' = [texts EXCEPT ![n] = text] /\ commit' = [commit EXCEPT !.todo = toWrite]
        /\ UNCHANGED <<splitAt, remaining, entryOf, planCursor, scriptOf, plans, cutOff, planCount, planFaults>>
    BY DEF WriteText
  <1>2. commit # NoCommit /\ text \in Span
    BY <1>1, NextFile
  <1>3. toWrite \in SUBSET Episodes
    BY CommitShape
  <1> HIDE DEF n, toWrite, text
  <1>4. texts' \in [Episodes -> Span \cup {NoText, Unmatched}]
    BY <1>1, <1>2 DEF PlannerTypeOK
  <1>5. /\ commit' \in Commit
        /\ \E d \in Callers : commit'.by = {d} /\ plans'[d].kind = commit'.kind
        /\ commit'.kind # "none" /\ commit'.step # "none"
    BY <1>1, <1>2, <1>3, CommitTyped
  <1> QED BY <1>1, <1>4, <1>5 DEF PlannerTypeOK

LEMMA RemoveTextsTyped ==
  ASSUME PlannerTypeOK, NEW undeleted \in SUBSET Episodes, RemoveTexts(undeleted)
  PROVE  PlannerTypeOK'
  <1>1. /\ commit.step = "write"
        /\ texts' = [n \in Episodes |-> IF n \in Leftover \ undeleted THEN NoText ELSE texts[n]]
        /\ commit' = [commit EXCEPT !.step = "save"]
        /\ cutOff' = (cutOff \/ undeleted # {}) /\ remaining' \in {remaining, NoCursor}
        /\ UNCHANGED <<splitAt, entryOf, planCursor, scriptOf, plans, planCount>>
    BY DEF RemoveTexts
  <1>a. \/ planFaults' = planFaults
        \/ planFaults < MaxPlanFaults /\ planFaults' = planFaults + 1
    BY DEF RemoveTexts
  <1>2. commit # NoCommit
    BY <1>1, CommitShape
  <1>3. texts' \in [Episodes -> Span \cup {NoText, Unmatched}]
    BY <1>1 DEF PlannerTypeOK
  <1>4. /\ commit' \in Commit
        /\ \E d \in Callers : commit'.by = {d} /\ plans'[d].kind = commit'.kind
        /\ commit'.kind # "none" /\ commit'.step # "none"
    BY <1>1, <1>2, CommitTyped
  <1>5. planFaults' \in 0..MaxPlanFaults
    BY <1>a, PlannerAssumption DEF PlannerTypeOK
  <1>6. cutOff' \in BOOLEAN
    BY <1>1, Zenon DEF PlannerTypeOK
  <1> QED BY <1>1, <1>3, <1>4, <1>5, <1>6 DEF PlannerTypeOK

LEMMA SaveLedgerTyped ==
  ASSUME PlannerTypeOK, SaveLedger
  PROVE  PlannerTypeOK'
  <1>1. /\ entryOf' = commit.ledger /\ planCursor' = commit.cursor /\ commit' = NoCommit
        /\ plans' = [c \in Callers |-> IF c \in commit.by THEN NoPlan ELSE plans[c]]
        /\ UNCHANGED <<splitAt, remaining, texts, scriptOf, cutOff, planCount, planFaults>>
    BY DEF SaveLedger
  <1>2. entryOf' \in Ledgers /\ planCursor' \in 0..NoCursor
    BY <1>1, CommitShape
  <1>3. plans' \in [Callers -> Plan]
    BY <1>1, NoPlanTyped DEF PlannerTypeOK
  <1>4. commit' \in Commit
    BY <1>1, NoCommitTyped
  <1>5. NoCursor' = NoCursor
    BY DEF NoCursor
  <1> QED BY <1>1, <1>2, <1>3, <1>4 DEF PlannerTypeOK

\* A file that is cut short.
LEMMA CutShort ==
  ASSUME NEW whole \in Span, NEW e \in whole.start + 1 .. whole.end
  PROVE  LET cut == [whole EXCEPT !.end = e] IN cut \in Span /\ cut.start = whole.start /\ cut.end = e
  <1>1. whole \in [start : 0..Total, end : 0..Total] /\ whole.start < whole.end
    BY DEF Span
  <1>2. e \in 0..Total /\ whole.start < e
    BY <1>1, EpisodeFacts
  <1>3. [whole EXCEPT !.end = e] \in [start : 0..Total, end : 0..Total]
    BY <1>1, <1>2
  <1> QED BY <1>1, <1>2, <1>3 DEF Span

\* What is on disk when a commit is cut off.
LEMMA CutOffLeaves ==
  ASSUME PlannerTypeOK, CommitWrites, CutOffCommit
  PROVE  /\ texts' \in [Episodes -> Span \cup {NoText, Unmatched}]
         /\ \/ texts' = texts
            \/ /\ commit.step = "write" /\ commit.todo # {}
               /\ LET n == Least(commit.todo) IN
                  /\ \A m \in Episodes : m # n => texts'[m] = texts[m]
                  /\ \/ texts'[n] = Unmatched
                     \/ texts'[n] \in Span /\ texts'[n].start = commit.ledger[n].span.start
  <1> DEFINE n == Least(commit.todo)
             whole == commit.ledger[n].span
  <1>1. \/ texts' = texts
        \/ /\ commit.step = "write" /\ commit.todo # {}
           /\ \E text \in {Unmatched} \cup {[whole EXCEPT !.end = e] : e \in whole.start + 1 .. whole.end} :
                texts' = [texts EXCEPT ![n] = text]
    BY DEF CutOffCommit
  <1>2. CASE texts' = texts
    BY <1>2 DEF PlannerTypeOK
  <1>3. CASE /\ commit.step = "write" /\ commit.todo # {}
             /\ \E text \in {Unmatched} \cup {[whole EXCEPT !.end = e] : e \in whole.start + 1 .. whole.end} :
                  texts' = [texts EXCEPT ![n] = text]
    <2>1. n \in Episodes /\ whole \in Span
      BY <1>3, NextFile
    <2>2. PICK text \in {Unmatched} \cup {[whole EXCEPT !.end = e] : e \in whole.start + 1 .. whole.end} :
                texts' = [texts EXCEPT ![n] = text]
      BY <1>3
    <2> HIDE DEF whole, n
    <2>3. text = Unmatched \/ (text \in Span /\ text.start = whole.start)
      <3>1. CASE text = Unmatched
        BY <3>1, Zenon
      <3>2. CASE text # Unmatched
        <4>1. PICK e \in whole.start + 1 .. whole.end : text = [whole EXCEPT !.end = e]
          BY <3>2
        <4> QED BY <4>1, <2>1, CutShort
      <3> QED BY <3>1, <3>2
    <2>4. texts \in [Episodes -> Span \cup {NoText, Unmatched}]
      BY DEF PlannerTypeOK
    <2>5. texts'[n] = text /\ \A m \in Episodes : m # n => texts'[m] = texts[m]
      BY <2>1, <2>2, <2>4
    <2>6. texts' \in [Episodes -> Span \cup {NoText, Unmatched}]
      BY <2>2, <2>3, <2>4
    <2>7. commit.step = "write" /\ commit.todo # {}
      BY <1>3
    <2> QED BY <2>3, <2>5, <2>6, <2>7 DEF n, whole
  <1> QED BY <1>1, <1>2, <1>3

LEMMA CutOffTyped ==
  ASSUME PlannerTypeOK, CommitWrites, CutOffCommit
  PROVE  PlannerTypeOK'
  <1>1. /\ planFaults < MaxPlanFaults /\ planFaults' = planFaults + 1 /\ commit' = NoCommit
        /\ plans' \in {[c \in Callers |-> NoPlan],
                       [c \in Callers |-> IF c \in commit.by THEN NoPlan ELSE plans[c]]}
        /\ cutOff' = (cutOff \/ Damaged(texts'))
        /\ UNCHANGED <<splitAt, remaining, entryOf, planCursor, scriptOf, planCount>>
    BY DEF CutOffCommit
  <1>2. plans' \in [Callers -> Plan]
    <2>1. [c \in Callers |-> NoPlan] \in [Callers -> Plan]
      BY NoPlanTyped
    <2>2. [c \in Callers |-> IF c \in commit.by THEN NoPlan ELSE plans[c]] \in [Callers -> Plan]
      BY NoPlanTyped DEF PlannerTypeOK
    <2> QED BY <1>1, <2>1, <2>2
  <1>3. texts' \in [Episodes -> Span \cup {NoText, Unmatched}]
    BY CutOffLeaves
  <1>4. planFaults' \in 0..MaxPlanFaults
    BY <1>1, PlannerAssumption DEF PlannerTypeOK
  <1>5. cutOff' \in BOOLEAN
    <2>1. Damaged(texts') \in BOOLEAN
      BY DEF Damaged
    <2> QED BY <1>1, <2>1, Zenon DEF PlannerTypeOK
  <1>6. commit' \in Commit /\ commit' = NoCommit
    BY <1>1, NoCommitTyped
  <1> QED BY <1>1, <1>2, <1>3, <1>4, <1>5, <1>6 DEF PlannerTypeOK

LEMMA IndexedFacts ==
  ASSUME PlannerTypeOK, NEW n \in Episodes
  PROVE  /\ Indexed(n) \in Ledgers /\ Placed(Indexed(n)) = Placed(entryOf)
         /\ \A m \in Episodes : m # n => Indexed(n)[m] = entryOf[m]
         /\ entryOf[n].status # "absent" => Indexed(n)[n] = entryOf[n]
         /\ entryOf[n].status = "absent" => Indexed(n)[n] = Item("unset", NoSpan)
         /\ \A m \in Placed(entryOf) : Indexed(n)[m] = entryOf[m]
  <1>1. entryOf \in [Episodes -> Items]
    BY DEF PlannerTypeOK, Ledgers
  <1>2. Item("unset", NoSpan) \in Items /\ Item("unset", NoSpan).status = "unset"
    BY DEF Item, Items
  <1> DEFINE new == IF entryOf[n].status = "absent" THEN Item("unset", NoSpan) ELSE entryOf[n]
  <1>3. Indexed(n) = [entryOf EXCEPT ![n] = new] /\ new \in Items
    BY <1>1, <1>2 DEF Indexed
  <1>4. new.status \in Anchored <=> entryOf[n].status \in Anchored
    BY <1>2 DEF Anchored
  <1>5. entryOf[n].status # "absent" => new = entryOf[n]
    OBVIOUS
  <1>6. entryOf[n].status = "absent" => new = Item("unset", NoSpan)
    OBVIOUS
  <1> HIDE DEF new
  <1>7. Indexed(n) \in Ledgers /\ Indexed(n)[n] = new /\ \A m \in Episodes : m # n => Indexed(n)[m] = entryOf[m]
    BY <1>1, <1>3 DEF Ledgers
  <1>8. Placed(Indexed(n)) = Placed(entryOf)
    BY <1>4, <1>7 DEF Placed
  <1>9. \A m \in Placed(entryOf) : Indexed(n)[m] = entryOf[m]
    <2> TAKE m \in Placed(entryOf)
    <2>1. m \in Episodes /\ entryOf[m].status # "absent"
      BY DEF Placed, Anchored
    <2> QED BY <2>1, <1>5, <1>7
  <1> QED BY <1>5, <1>6, <1>7, <1>8, <1>9

LEMMA ScriptsTyped ==
  ASSUME PlannerTypeOK, NEW n \in Episodes, WriteScript(n) \/ IndexScript(n)
  PROVE  PlannerTypeOK'
  <1>1. entryOf' = Indexed(n) /\ UNCHANGED <<splitAt, remaining, planCursor, texts, plans, commit, cutOff, planCount, planFaults>>
        /\ (scriptOf' = scriptOf \/ scriptOf' = [scriptOf EXCEPT ![n] = texts[n]])
    BY DEF WriteScript, IndexScript
  <1>2. entryOf' \in Ledgers
    BY <1>1, IndexedFacts
  <1>3. scriptOf' \in [Episodes -> Span \cup {NoText, Unmatched}]
    <2>1. {texts, scriptOf} \subseteq [Episodes -> Span \cup {NoText, Unmatched}]
      BY DEF PlannerTypeOK
    <2>2. texts[n] \in Span \cup {NoText, Unmatched}
      BY <2>1
    <2> QED BY <1>1, <2>1, <2>2
  <1> QED BY <1>1, <1>2, <1>3 DEF PlannerTypeOK

LEMMA PlannerTyped ==
  ASSUME PlannerTypeOK, CommitWrites, [PlannerNext]_plannerVars
  PROVE  PlannerTypeOK'
  <1>1. ASSUME NEW c \in Callers, AskPlan(c) \/ (\E n \in Episodes, b \in BOOLEAN : AskReplan(c, n, b))
                                  \/ BeginPlan(c) \/ BeginReplan(c) \/ GiveUpPlan(c)
        PROVE  PlannerTypeOK'
    BY <1>1, AskPlanTyped, AskReplanTyped, BeginPlanTyped, BeginReplanTyped, GiveUpPlanTyped
  <1>2. CASE WriteText
    BY <1>2, WriteTextTyped
  <1>3. ASSUME NEW undeleted \in SUBSET Episodes, RemoveTexts(undeleted)
        PROVE  PlannerTypeOK'
    BY <1>3, RemoveTextsTyped
  <1>4. CASE SaveLedger
    BY <1>4, SaveLedgerTyped
  <1>5. CASE CutOffCommit
    BY <1>5, CutOffTyped
  <1>6. ASSUME NEW n \in Episodes, WriteScript(n) \/ IndexScript(n)
        PROVE  PlannerTypeOK'
    BY <1>6, ScriptsTyped
  <1>7. CASE UNCHANGED plannerVars
    BY <1>7 DEF plannerVars, PlannerTypeOK
  <1> QED BY <1>1, <1>2, <1>3, <1>4, <1>5, <1>6, <1>7 DEF PlannerNext

-----------------------------------------------------------------------------
(* LedgerInv is inductive.                                                 *)

\* Nothing here looks at the calls that wait.
LEMMA PlansAside ==
  ASSUME LedgerInv, PlannerTypeOK',
         UNCHANGED <<splitAt, remaining, entryOf, planCursor, texts, scriptOf, commit, cutOff, planFaults>>
  PROVE  LedgerInv'
  <1>1. UNCHANGED <<CommitWrites, FilesAgree, RecordSound, ReadSound, CommitSound, PlanAdds>>
    BY DEF CommitWrites, FilesAgree, RecordSound, ReadSound, CommitSound, PlanAdds, CursorWithin,
           FilesFollow, FileOnly, Unrecorded, Backfilled
  <1>2. CommitWrites /\ FilesAgree /\ (~cutOff => RecordSound /\ ReadSound /\ CommitSound /\ PlanAdds)
    BY DEF LedgerInv
  <1>3. cutOff' = cutOff
    OBVIOUS
  <1> QED BY <1>1, <1>2, <1>3 DEF LedgerInv

LEMMA RecordKept ==
  ASSUME RecordSound, splitAt' = splitAt, entryOf' = entryOf, planCursor' = planCursor
  PROVE  RecordSound'
  BY DEF RecordSound

\* A cursor is not beyond the last episode of what is read.
LEMMA CursorBehind ==
  ASSUME PlannerTypeOK, RecordSound, Whole(Backfilled, splitAt), NEW cursor, cursor = CursorOf(Backfilled)
  PROVE  CursorWithin(Backfilled, cursor, splitAt)
  <1> DEFINE book == Backfilled
  <1>1. book \in Ledgers /\ entryOf \in Ledgers /\ \A n \in Placed(entryOf) : n \in Placed(book) /\ book[n].span = entryOf[n].span
    BY BackfilledFacts DEF BackfilledOK
  <1>2. Ascends(book)
    BY DEF Whole
  <1>3. CASE planCursor = NoCursor
    <2>1. \/ cursor = remaining \/ cursor = NoCursor
          \/ Placed(book) # {} /\ cursor = LastEnd(book) /\ LastEnd(book) \in Nat
      BY <1>1, <1>3, LastPlaced DEF CursorOf
    <2>2. remaining \in {splitAt, NoCursor}
      BY DEF PlannerTypeOK
    <2> QED BY <2>1, <2>2 DEF CursorWithin
  <1>4. CASE planCursor # NoCursor /\ planCursor = splitAt
    BY <1>4 DEF CursorOf, CursorWithin
  <1>5. CASE planCursor # NoCursor /\ planCursor # splitAt
    <2>1. Placed(entryOf) # {} /\ planCursor <= LastEnd(entryOf) /\ planCursor \in Nat
      BY <1>5, EpisodeFacts DEF RecordSound, CursorWithin, PlannerTypeOK, NoCursor
    <2> DEFINE g == Greatest(Placed(entryOf))
    <2>2. g \in Placed(entryOf) /\ LastEnd(entryOf) = entryOf[g].span.end
      BY <1>1, <2>1, LastPlaced DEF LastEnd
    <2> HIDE DEF g, book
    <2>3. g \in Placed(book) /\ book[g].span.end = LastEnd(entryOf)
      BY <1>1, <2>2
    <2>4. book[g].span.end <= LastEnd(book) /\ LastEnd(book) \in Nat /\ book[g].span.end \in Nat
      BY <1>1, <1>2, <2>3, EndsWithLast, LastPlaced, LedgerShape
    <2>5. planCursor <= LastEnd(book)
      BY <2>1, <2>3, <2>4
    <2> QED BY <1>5, <2>3, <2>5 DEF CursorOf, CursorWithin, book
  <1> QED BY <1>3, <1>4, <1>5

\* A plan goes on where what is read ends, or where the splitting of old stopped.
LEMMA PlanStart ==
  ASSUME PlannerTypeOK, RecordSound, Whole(Backfilled, splitAt)
  PROVE  Joins(IF Placed(Backfilled) = {} THEN 0 ELSE LastEnd(Backfilled),
               EffectiveStart(Backfilled, CursorOf(Backfilled)), splitAt)
  <1> DEFINE book == Backfilled
             cursor == CursorOf(book)
             known == (IF Placed(book) = {} THEN {} ELSE {LastEnd(book)})
                      \cup (IF cursor = NoCursor THEN {} ELSE {cursor})
             start == EffectiveStart(book, cursor)
  <1>1. CursorWithin(book, cursor, splitAt)
    BY CursorBehind
  <1>2. start = IF known = {} THEN 0 ELSE Greatest(known)
    BY DEF EffectiveStart
  <1>3. cursor \in 0..NoCursor
    BY CursorTyped
  <1>4. Placed(book) # {} => LastEnd(book) \in 1..Total
    BY BackfilledFacts, LastPlaced DEF BackfilledOK
  <1>5. NoCursor \in Nat /\ 1..Total \subseteq 0..NoCursor
    BY EpisodeFacts DEF NoCursor
  <1>6. known # {} => Greatest(known) \in known /\ \A x \in known : x <= Greatest(known)
    <2>1. known \in SUBSET (0..NoCursor)
      <3> HIDE DEF cursor, book
      <3> QED BY <1>3, <1>4, <1>5
    <2> HIDE DEF known
    <2> QED BY <2>1, <1>5, GreatestEpisode
  <1> HIDE DEF cursor, start
  <1>7. CASE Placed(book) = {}
    <2>1. cursor = NoCursor => known = {} /\ start = 0
      BY <1>2, <1>7
    <2>2. cursor # NoCursor => cursor = splitAt /\ known = {cursor} /\ start = cursor
      <3>1. cursor # NoCursor => cursor = splitAt
        BY <1>1, <1>7 DEF CursorWithin
      <3>2. cursor # NoCursor => known = {cursor}
        BY <1>7
      <3> QED BY <3>1, <3>2, <1>2, <1>6
    <2>3. start = 0 \/ (start = splitAt /\ 0 < start)
      BY <2>1, <2>2, <1>3, <1>5
    <2> QED BY <1>7, <2>3 DEF Joins, start, cursor
  <1>8. CASE Placed(book) # {}
    <2> DEFINE e == LastEnd(book)
    <2>1. /\ e \in known /\ e \in Nat /\ cursor \in Nat
          /\ \A x \in known : x = e \/ (x = cursor /\ cursor # NoCursor)
      BY <1>3, <1>4, <1>8
    <2>2. cursor # NoCursor => cursor = splitAt \/ cursor <= e
      BY <1>1 DEF CursorWithin
    <2>3. start \in known /\ e <= start
      BY <1>2, <1>6, <2>1
    <2> HIDE DEF known, e
    <2>4. start = e \/ (start = splitAt /\ e < start)
      BY <2>1, <2>2, <2>3
    <2> QED BY <1>8, <2>4 DEF Joins, start, cursor, e
  <1> QED BY <1>7, <1>8

LEMMA BeginPlanKeepsLedger ==
  ASSUME LedgerInv, PlannerTypeOK', NEW c \in Callers, BeginPlan(c)
  PROVE  LedgerInv'
  <1> DEFINE book == Backfilled
             start == plans[c].start
             new == commit'.ledger
  <1>1. PICK from \in Episodes, cuts \in SUBSET (1..Total), status \in [Episodes -> Anchored] :
           /\ \A x \in cuts : start < x
           /\ from + Cardinality(cuts) - 1 <= MaxEpisodes
           /\ \A n \in Present(book) : n < from
           /\ new = Laid(book, from, start, cuts, status)
           /\ commit'.cursor \in cuts
           /\ commit' = [by |-> {c}, kind |-> "plan", ledger |-> new, cursor |-> commit'.cursor,
                         todo |-> Placed(new), step |-> "write"]
    BY BegunPlan DEF LedgerInv
  <1>2. /\ commit = NoCommit /\ StillTheSame(plans[c]) /\ plans[c].kind = "plan"
        /\ UNCHANGED <<splitAt, remaining, entryOf, planCursor, texts, scriptOf, plans, cutOff, planCount, planFaults>>
    BY DEF BeginPlan
  <1>3. start \in 0..Total /\ book \in Ledgers
    BY PlanShape, BackfilledFacts DEF LedgerInv, BackfilledOK
  <1> DEFINE N == CutNumbers(from, cuts)
  <1>4. /\ N \subseteq Episodes /\ \A n \in N : from <= n
        /\ new \in Ledgers
        /\ Placed(new) = {n \in Placed(book) : n < from} \cup N
        /\ \A n \in Episodes : n < from => new[n] = book[n]
        /\ \A n \in Episodes : new[n].status = "unset" => n < from
        /\ TilesFrom(new, N, start)
        /\ \A x \in cuts : \E n \in N : new[n].span.end = x
    BY <1>1, <1>3, LaidFacts
  <1>5. /\ commit'.kind = "plan" /\ commit'.step = "write" /\ commit'.todo = Placed(new)
        /\ commit' # NoCommit
    BY <1>1 DEF NoCommit
  <1>6. Backfilled' = book /\ FilesFollow' = FilesFollow
    BY <1>2, SameReading DEF LedgerInv
  <1> HIDE DEF N, new, start
  <1>7. \A n \in Placed(book) : n \in Episodes /\ n < from /\ n \in Nat /\ from \in Nat
    BY <1>1, EpisodeFacts DEF Placed, Present, Anchored
  <1>8. Placed(new) = Placed(book) \cup N /\ \A n \in Placed(book) : new[n] = book[n]
    BY <1>4, <1>7
  <1>9. \A n \in Episodes : book[n].status # "unset"
    BY BackfilledFacts DEF LedgerInv, BackfilledOK
  <1>10. CommitWrites'
    <2>1. \A n \in Episodes : new[n].status # "unset"
      BY <1>4, <1>9
    <2> QED BY <1>5, <2>1 DEF CommitWrites, new
  <1>11. FilesAgree'
    BY <1>5 DEF FilesAgree
  <1>12. ASSUME ~cutOff'
         PROVE  RecordSound' /\ ReadSound' /\ CommitSound' /\ PlanAdds'
    <2>1. RecordSound /\ Whole(book, splitAt) /\ FilesFollow
      BY <1>2, <1>12 DEF LedgerInv, ReadSound, NoCommit
    <2>2. RecordSound'
      BY <1>2, <2>1, RecordKept
    <2>3. ReadSound'
      BY <1>2, <1>6, <2>1 DEF ReadSound
    <2>4. Joins(IF Placed(book) = {} THEN 0 ELSE LastEnd(book), start, splitAt)
      BY <1>2, <2>1, PlanStart DEF LedgerInv, StillTheSame, start
    <2>5. Whole(new, splitAt)
      <3> HIDE DEF book
      <3>1. ASSUME NEW n \in Placed(book), NEW k \in N
            PROVE  n < k
        <4>1. n \in Nat /\ n < from /\ from \in Nat
          BY <1>7
        <4>2. from <= k /\ k \in Nat
          BY <1>4, EpisodeFacts
        <4> QED BY <4>1, <4>2
      <3>2. \A n \in Placed(book) : new[n].span = book[n].span
        BY <1>8
      <3>3. start \in Nat
        BY <1>3
      <3> QED BY <1>3, <1>4, <1>8, <2>1, <2>4, <3>1, <3>2, <3>3, Continued
    <2>6. CommitSound'
      <3>1. PICK n \in N : new[n].span.end = commit'.cursor
        BY <1>1, <1>4
      <3>2. n \in Placed(new)
        BY <1>8
      <3>3. new[n].span.end <= LastEnd(new)
        BY <1>4, <2>5, <3>2, EndsWithLast DEF Whole
      <3>4. CursorWithin(new, commit'.cursor, splitAt)
        BY <3>1, <3>2, <3>3 DEF CursorWithin
      <3>5. splitAt' = splitAt
        BY <1>2
      <3> QED BY <1>5, <2>5, <3>2, <3>4, <3>5 DEF CommitSound, new
    <2>7. PlanAdds'
      <3>1. \A n \in Placed(book) : n \in Placed(new) /\ new[n].span = book[n].span
        BY <1>8
      <3>2. ASSUME NEW n \in Placed(new) \ Placed(book)
            PROVE  /\ n \in commit'.todo /\ entryOf'[n].status = "absent"
                   /\ \A k \in Placed(book) : k < n
        <4>1. n \in N /\ n \in Episodes /\ from <= n
          BY <1>4, <1>8
        <4>2. n \notin Present(book)
          BY <4>1, <1>1, EpisodeFacts
        <4>3. book[n].status = "absent"
          BY <4>1, <4>2 DEF Present
        <4>4. entryOf[n].status = "absent"
          BY <4>1, <4>3, BackfilledFacts DEF LedgerInv, BackfilledOK
        <4>5. \A k \in Placed(book) : k < n
          BY <4>1, <1>7, EpisodeFacts
        <4> QED BY <4>4, <4>5, <1>2, <1>5
      <3> QED BY <3>1, <3>2, <1>6 DEF PlanAdds, new
    <2> QED BY <2>2, <2>3, <2>6, <2>7
  <1> QED BY <1>10, <1>11, <1>12 DEF LedgerInv

\* The entries before a placed one are whole, and end where it starts.
LEMMA BeforeOne ==
  ASSUME NEW book \in Ledgers, NEW at, Whole(book, at), NEW from \in Placed(book),
         NEW low \in Ledgers, Placed(low) = {n \in Placed(book) : n < from},
         \A n \in Placed(low) : low[n] = book[n]
  PROVE  /\ Whole(low, at)
         /\ Joins(IF Placed(low) = {} THEN 0 ELSE LastEnd(low), book[from].span.start, at)
         /\ \A k \in Placed(book) : from <= k => book[from].span.start <= book[k].span.start
  <1>1. \A n \in Placed(book) : n \in Nat
    BY EpisodeFacts
  <1>2. Whole(low, at)
    <2>1. \A n \in Placed(low), k \in Placed(book) : k < n => k \in Placed(low)
      BY <1>1
    <2>2. \A n \in Placed(low) : low[n].span.start = book[n].span.start /\ low[n].span.end = book[n].span.end
      OBVIOUS
    <2>3. Placed(low) \subseteq Placed(book)
      OBVIOUS
    <2> QED BY <2>1, <2>2, <2>3, FirstPart
  <1>3. Joins(IF Placed(low) = {} THEN 0 ELSE LastEnd(low), book[from].span.start, at)
    <2>3. CASE Placed(low) = {}
      <3>1. \A k \in Placed(book) : from <= k
        BY <1>1, <2>3
      <3>2. Joins(0, book[from].span.start, at)
        BY <3>1 DEF Whole, Tiles
      <3> QED BY <2>3, <3>2
    <2>4. CASE Placed(low) # {}
      <3> DEFINE g == Greatest(Placed(low))
      <3>1. g \in Placed(low) /\ LastEnd(low) = low[g].span.end /\ \A n \in Placed(low) : n <= g
        BY <2>4, LastPlaced DEF LastEnd
      <3> HIDE DEF g
      <3>2. g \in Placed(book) /\ g < from
        BY <3>1
      <3>3. \A k \in Placed(book) : ~(g < k /\ k < from)
        BY <1>1, <3>1, <3>2
      <3>4. NextIn(Placed(book), g, from)
        BY <3>2, <3>3 DEF NextIn
      <3>5. Joins(book[g].span.end, book[from].span.start, at)
        BY <3>2, <3>4 DEF Whole, Tiles
      <3>6. low[g] = book[g]
        BY <3>1
      <3> QED BY <2>4, <3>1, <3>5, <3>6
    <2> QED BY <2>3, <2>4
  <1>5. ASSUME NEW k \in Placed(book), from <= k
        PROVE  book[from].span.start <= book[k].span.start
    <2>1. /\ book[from].span.start \in Nat /\ book[from].span.end \in Nat /\ book[k].span.start \in Nat
          /\ book[from].span.start < book[from].span.end
      BY LedgerShape
    <2>2. from < k => book[from].span.end <= book[k].span.start
      BY DEF Whole, Ascends
    <2>3. from = k \/ from < k
      BY <1>1, <1>5
    <2>4. CASE from = k
      BY <2>1, <2>4
    <2> QED BY <2>1, <2>2, <2>3, <2>4
  <1> QED BY <1>2, <1>3, <1>5

LEMMA BeginReplanKeepsLedger ==
  ASSUME LedgerInv, PlannerTypeOK', NEW c \in Callers, BeginReplan(c)
  PROVE  LedgerInv'
  <1> DEFINE book == Backfilled
             from == plans[c].from
             affected == Affected(book, from)
             new == commit'.ledger
  <1>1. PICK start \in 0..Total, cuts \in SUBSET (1..Total), status \in [Episodes -> Anchored] :
           /\ \A x \in cuts : start < x
           /\ from + Cardinality(cuts) - 1 <= MaxEpisodes
           /\ from \in affected /\ affected \subseteq Placed(book) /\ from \in Episodes
           /\ \E k \in affected : start = book[k].span.start
           /\ \A k \in affected : start <= book[k].span.start
           /\ \A k \in affected :
                (\A m \in affected : book[m].span.end <= book[k].span.end) => book[k].span.end \in cuts
           /\ new = Laid(book, from, start, cuts, status)
           /\ commit' = [by |-> {c}, kind |-> "replan", ledger |-> new,
                         cursor |-> CursorOf(book), todo |-> Placed(new), step |-> "write"]
    BY BegunReplan DEF LedgerInv
  <1>2. /\ commit = NoCommit
        /\ UNCHANGED <<splitAt, remaining, entryOf, planCursor, texts, scriptOf, plans, cutOff, planCount, planFaults>>
    BY DEF BeginReplan
  <1>3. book \in Ledgers
    BY BackfilledFacts DEF LedgerInv, BackfilledOK
  <1> DEFINE N == CutNumbers(from, cuts)
  <1>4. /\ N \subseteq Episodes /\ \A n \in N : from <= n
        /\ new \in Ledgers
        /\ Placed(new) = {n \in Placed(book) : n < from} \cup N
        /\ \A n \in Episodes : n < from => new[n] = book[n]
        /\ \A n \in Episodes : new[n].status = "unset" => n < from
        /\ TilesFrom(new, N, start)
        /\ \A x \in cuts : \E n \in N : new[n].span.end = x
    BY <1>1, <1>3, LaidFacts
  <1>5. /\ commit'.kind = "replan" /\ commit'.step = "write" /\ commit'.todo = Placed(new)
        /\ commit'.cursor = CursorOf(book) /\ commit' # NoCommit
    BY <1>1 DEF NoCommit
  <1>6. /\ from \in Placed(book) /\ \A k \in Placed(book) : k \in Nat /\ k \in Episodes
        /\ \A k \in affected : k \in Placed(book) /\ from <= k
        /\ \A k \in Placed(book) : from <= k => k \in affected
        /\ from \in Nat
    BY <1>1, EpisodeFacts DEF Affected, Present, Placed, Anchored
  <1>7. \A n \in Episodes : book[n].status # "unset"
    BY BackfilledFacts DEF LedgerInv, BackfilledOK
  <1> HIDE DEF N, new, affected
  <1>10. CommitWrites'
    <2>1. \A n \in Episodes : new[n].status # "unset"
      BY <1>4, <1>7
    <2> QED BY <1>5, <2>1 DEF CommitWrites, new
  <1>11. FilesAgree'
    BY <1>5 DEF FilesAgree
  <1>12. ASSUME ~cutOff'
         PROVE  RecordSound' /\ ReadSound' /\ CommitSound' /\ PlanAdds'
    <2>1. RecordSound /\ Whole(book, splitAt)
      BY <1>2, <1>12 DEF LedgerInv, ReadSound, NoCommit
    <2>2. RecordSound'
      BY <1>2, <2>1, RecordKept
    <2>3. ReadSound' /\ PlanAdds'
      BY <1>5 DEF ReadSound, PlanAdds
    <2> DEFINE low == [n \in Episodes |-> IF n < from THEN book[n] ELSE Item("absent", NoSpan)]
    <2>4. /\ low \in Ledgers /\ Placed(low) = {n \in Placed(book) : n < from}
          /\ \A n \in Placed(low) : low[n] = book[n]
      <3>1. Item("absent", NoSpan) \in Items /\ Item("absent", NoSpan).status \notin Anchored
        BY DEF Item, Items, Anchored
      <3>2. low \in Ledgers
        BY <3>1, <1>3 DEF Ledgers
      <3>3. Placed(low) = {n \in Placed(book) : n < from}
        BY <3>1 DEF Placed
      <3>4. \A n \in Placed(low) : low[n] = book[n]
        BY <3>3, <1>6
      <3> QED BY <3>2, <3>3, <3>4
    <2> HIDE DEF low, book, from
    <2>5. /\ Whole(low, splitAt)
          /\ Joins(IF Placed(low) = {} THEN 0 ELSE LastEnd(low), book[from].span.start, splitAt)
          /\ \A k \in Placed(book) : from <= k => book[from].span.start <= book[k].span.start
      BY <1>3, <1>6, <2>1, <2>4, BeforeOne
    <2>6. start = book[from].span.start
      <3>1. PICK k \in affected : start = book[k].span.start
        BY <1>1
      <3>2. book[from].span.start <= start
        BY <2>5, <1>6, <3>1
      <3>3. start <= book[from].span.start
        BY <1>1
      <3>4. book[from].span.start \in Nat
        BY <1>3, <1>6, LedgerShape
      <3> QED BY <3>2, <3>3, <3>4
    <2>7. Whole(new, splitAt)
      <3>1. ASSUME NEW n \in Placed(low), NEW k \in N
            PROVE  n < k
        <4>1. n \in Nat /\ n < from
          BY <1>6, <2>4
        <4>2. from <= k /\ k \in Nat
          BY <1>4, EpisodeFacts
        <4> QED BY <1>6, <4>1, <4>2
      <3>2. \A n \in Placed(low) : new[n].span = low[n].span
        BY <1>4, <1>6, <2>4
      <3>3. start \in Nat /\ Joins(IF Placed(low) = {} THEN 0 ELSE LastEnd(low), start, splitAt)
        BY <2>5, <2>6
      <3>4. Placed(new) = Placed(low) \cup N
        BY <1>4, <2>4
      <3> QED BY <1>4, <2>4, <2>5, <3>1, <3>2, <3>3, <3>4, Continued
    <2>8. CommitSound'
      <3> DEFINE g == Greatest(Placed(book))
      <3>1. g \in Placed(book) /\ LastEnd(book) = book[g].span.end /\ \A n \in Placed(book) : n <= g
        BY <1>3, <1>6, LastPlaced DEF LastEnd
      <3> HIDE DEF g
      <3>2. g \in affected
        BY <1>6, <3>1
      <3>3. \A m \in affected : book[m].span.end <= book[g].span.end
        BY <1>3, <1>6, <2>1, <3>1, EndsWithLast DEF Whole
      <3>4. LastEnd(book) \in cuts
        BY <1>1, <3>1, <3>2, <3>3
      <3>5. PICK n \in N : new[n].span.end = LastEnd(book)
        BY <1>4, <3>4
      <3>6. n \in Placed(new)
        BY <1>4
      <3>7. LastEnd(book) <= LastEnd(new) /\ LastEnd(new) \in Nat /\ LastEnd(book) \in Nat
        <4>1. new[n].span.end <= LastEnd(new)
          BY <1>4, <2>7, <3>6, EndsWithLast DEF Whole
        <4>2. LastEnd(new) \in Nat /\ LastEnd(book) \in Nat
          BY <1>3, <1>4, <1>6, <3>6, LastPlaced
        <4> QED BY <3>5, <4>1, <4>2
      <3>8. CursorWithin(new, CursorOf(book), splitAt)
        <4> DEFINE cursor == CursorOf(book)
        <4>1. cursor # NoCursor => cursor = splitAt \/ cursor <= LastEnd(book)
          BY <2>1, CursorBehind DEF LedgerInv, CursorWithin, book
        <4>2. cursor \in 0..NoCursor
          BY CursorTyped DEF LedgerInv, book
        <4> HIDE DEF cursor
        <4>3. cursor # NoCursor => cursor = splitAt \/ cursor <= LastEnd(new)
          <5>1. cursor \in Nat
            BY <4>2
          <5> QED BY <4>1, <5>1, <3>7
        <4>4. CursorWithin(new, cursor, splitAt)
          BY <4>3, <3>6 DEF CursorWithin
        <4> QED BY <4>4 DEF cursor
      <3>9. splitAt' = splitAt
        BY <1>2
      <3> QED BY <1>5, <2>7, <3>6, <3>8, <3>9 DEF CommitSound, new
    <2> QED BY <2>2, <2>3, <2>8
  <1> QED BY <1>10, <1>11, <1>12 DEF LedgerInv

LEMMA SaveLedgerKeeps ==
  ASSUME LedgerInv, PlannerTypeOK', SaveLedger
  PROVE  LedgerInv'
  <1>1. /\ commit.step = "save" /\ entryOf' = commit.ledger /\ planCursor' = commit.cursor /\ commit' = NoCommit
        /\ UNCHANGED <<splitAt, remaining, texts, scriptOf, cutOff, planCount, planFaults>>
    BY DEF SaveLedger
  <1>2. commit # NoCommit
    BY <1>1, CommitShape DEF LedgerInv
  <1>3. /\ \A n \in Episodes : entryOf'[n].status # "unset"
        /\ commit.todo = {}
        /\ \A n \in Placed(entryOf') : texts[n] = entryOf'[n].span
    BY <1>1, <1>2 DEF LedgerInv, CommitWrites
  <1>4. CommitWrites' /\ PlanAdds' /\ CommitSound'
    BY <1>1 DEF CommitWrites, PlanAdds, CommitSound, NoCommit
  <1>5. FilesAgree'
    BY <1>1, <1>3 DEF FilesAgree
  <1>6. ASSUME ~cutOff'
        PROVE  RecordSound' /\ ReadSound'
    <2>1. CommitSound
      BY <1>1, <1>6 DEF LedgerInv
    <2>2. /\ Whole(entryOf', splitAt) /\ CursorWithin(entryOf', planCursor', splitAt)
          /\ \A n \in Episodes : entryOf'[n].status = "absent" => texts[n] = NoText
      BY <1>1, <1>2, <2>1 DEF CommitSound
    <2>0. splitAt' = splitAt
      BY <1>1
    <2>3. RecordSound'
      BY <2>0, <2>2 DEF RecordSound
    <2>4. \A n \in Episodes : Unrecorded(n)' => texts'[n] = NoText
      BY <1>1, <1>3, <2>2 DEF Unrecorded
    <2>5. FilesFollow'
      BY <2>4 DEF FilesFollow, FileOnly
    <2>6. NoText \notin Span
      BY BackfilledFacts DEF BackfilledOK, LedgerInv
    <2>7. Placed(Backfilled') = Placed(entryOf')
      BY <2>4, <2>6, BackfilledNext
    <2>8. \A n \in Placed(entryOf') : Backfilled'[n].span = entryOf'[n].span
      BY BackfilledNext
    <2>9. Whole(Backfilled', splitAt)
      BY <2>2, <2>7, <2>8, SamePlaces
    <2> QED BY <2>0, <2>3, <2>5, <2>9 DEF ReadSound
  <1> QED BY <1>4, <1>5, <1>6 DEF LedgerInv

LEMMA ScriptsKeepLedger ==
  ASSUME LedgerInv, PlannerTypeOK', NEW n \in Episodes, WriteScript(n) \/ IndexScript(n)
  PROVE  LedgerInv'
  <1>1. /\ commit = NoCommit /\ entryOf' = Indexed(n)
        /\ UNCHANGED <<splitAt, remaining, planCursor, texts, plans, commit, cutOff, planCount, planFaults>>
    BY DEF WriteScript, IndexScript
  <1>2. /\ Placed(entryOf') = Placed(entryOf)
        /\ \A m \in Episodes : m # n => entryOf'[m] = entryOf[m]
        /\ entryOf[n].status # "absent" => entryOf'[n] = entryOf[n]
        /\ entryOf[n].status = "absent" => entryOf'[n] = Item("unset", NoSpan)
        /\ \A m \in Placed(entryOf) : entryOf'[m] = entryOf[m]
    BY <1>1, IndexedFacts DEF LedgerInv
  <1>3. \A m \in Episodes : Unrecorded(m)' <=> Unrecorded(m)
    BY <1>2 DEF Unrecorded, Item
  <1>4. CommitWrites' /\ PlanAdds' /\ CommitSound'
    BY <1>1 DEF CommitWrites, PlanAdds, CommitSound, NoCommit
  <1>5. FilesAgree'
    BY <1>1, <1>2 DEF FilesAgree, LedgerInv
  <1>6. ASSUME ~cutOff'
        PROVE  RecordSound' /\ ReadSound'
    <2>1. RecordSound /\ Whole(Backfilled, splitAt) /\ FilesFollow
      BY <1>1, <1>6 DEF LedgerInv, ReadSound, NoCommit
    <2>2. Whole(entryOf', splitAt)
      BY <1>2, <2>1, SamePlaces DEF RecordSound
    <2>3. CursorWithin(entryOf', planCursor', splitAt)
      <3>1. CASE planCursor = NoCursor
        BY <3>1, <1>1 DEF CursorWithin
      <3>2. CASE planCursor = splitAt
        BY <3>2, <1>1 DEF CursorWithin
      <3>3. CASE planCursor # NoCursor /\ planCursor # splitAt
        <4>1. Placed(entryOf) # {} /\ planCursor <= LastEnd(entryOf)
          BY <3>3, <2>1 DEF RecordSound, CursorWithin
        <4>2. Greatest(Placed(entryOf)) \in Placed(entryOf)
          BY <4>1, LastPlaced DEF LedgerInv, PlannerTypeOK
        <4>3. LastEnd(entryOf') = LastEnd(entryOf)
          BY <4>2, <1>2 DEF LastEnd
        <4> QED BY <4>1, <4>3, <1>1, <1>2 DEF CursorWithin
      <3> QED BY <3>1, <3>2, <3>3
    <2>0. splitAt' = splitAt
      BY <1>1
    <2>4. RecordSound'
      BY <2>0, <2>2, <2>3 DEF RecordSound
    <2>5. FilesFollow'
      BY <1>1, <1>2, <1>3, <2>1 DEF FilesFollow, FileOnly
    <2>6. Placed(Backfilled') = Placed(Backfilled)
      <3>1. \A m \in Episodes : m \in Placed(Backfilled') <=> m \in Placed(entryOf) \/ (Unrecorded(m) /\ texts[m] \in Span)
        BY <1>1, <1>2, <1>3, BackfilledNext
      <3>2. \A m \in Episodes : m \in Placed(Backfilled) <=> m \in Placed(entryOf) \/ (Unrecorded(m) /\ texts[m] \in Span)
        BY BackfilledFacts DEF LedgerInv, BackfilledOK
      <3> QED BY <3>1, <3>2, EpisodeFacts
    <2>7. ASSUME NEW m \in Placed(Backfilled)
          PROVE  Backfilled'[m].span = Backfilled[m].span
      <3>1. m \in Episodes /\ (m \in Placed(entryOf) \/ Unrecorded(m))
        BY BackfilledFacts DEF LedgerInv, BackfilledOK
      <3>2. CASE m \in Placed(entryOf)
        BY <3>2, <1>2, BackfilledNext, BackfilledFacts DEF LedgerInv, BackfilledOK
      <3>3. CASE Unrecorded(m)
        <4>1. texts[m] \in Span /\ Backfilled[m].span = texts[m]
          BY <3>1, <3>3, BackfilledFacts DEF LedgerInv, BackfilledOK
        <4>2. Backfilled'[m].span = texts'[m]
          BY <3>1, <3>3, <4>1, <1>1, <1>3, BackfilledNext
        <4> QED BY <4>1, <4>2, <1>1
      <3> QED BY <3>1, <3>2, <3>3
    <2>8. Whole(Backfilled', splitAt)
      BY <2>1, <2>6, <2>7, SamePlaces
    <2> QED BY <2>0, <2>4, <2>5, <2>8 DEF ReadSound
  <1> QED BY <1>4, <1>5, <1>6 DEF LedgerInv

\* What is read after one file has changed.
LEMMA OneFile ==
  ASSUME PlannerTypeOK, PlannerTypeOK', entryOf' = entryOf, NEW n \in Episodes,
         \A m \in Episodes : m # n => texts'[m] = texts[m]
  PROVE  /\ \A m \in Episodes : Unrecorded(m)' <=> Unrecorded(m)
         /\ \A m \in Episodes : m # n => /\ m \in Placed(Backfilled') <=> m \in Placed(Backfilled)
                                         /\ m \in Placed(Backfilled) => Backfilled'[m].span = Backfilled[m].span
         /\ ~Unrecorded(n) => Backfilled'[n] = Backfilled[n] /\ (n \in Placed(Backfilled') <=> n \in Placed(Backfilled))
         /\ Unrecorded(n) => /\ n \in Placed(Backfilled') <=> texts'[n] \in Span
                             /\ n \in Placed(Backfilled') => Backfilled'[n].span = texts'[n]
  <1>1. \A m \in Episodes : Unrecorded(m)' <=> Unrecorded(m)
    BY DEF Unrecorded
  <1>2. BackfilledOK
    BY BackfilledFacts
  <1>3. ASSUME NEW m \in Episodes, ~Unrecorded(m)
        PROVE  Backfilled'[m] = Backfilled[m] /\ (m \in Placed(Backfilled') <=> m \in Placed(Backfilled))
    <2>1. Backfilled'[m] = entryOf'[m] /\ Backfilled[m] = entryOf[m]
      BY <1>1, <1>2, <1>3, BackfilledNext DEF BackfilledOK
    <2> QED BY <2>1 DEF Placed
  <1>4. ASSUME NEW m \in Episodes, Unrecorded(m)
        PROVE  /\ m \in Placed(Backfilled') <=> texts'[m] \in Span
               /\ m \in Placed(Backfilled') => Backfilled'[m].span = texts'[m]
               /\ m \in Placed(Backfilled) <=> texts[m] \in Span
               /\ m \in Placed(Backfilled) => Backfilled[m].span = texts[m]
    BY <1>1, <1>2, <1>4, BackfilledNext DEF BackfilledOK
  <1> QED BY <1>1, <1>3, <1>4

LEMMA WriteTextKeepsLedger ==
  ASSUME LedgerInv, PlannerTypeOK', WriteText
  PROVE  LedgerInv'
  <1> DEFINE n == Least(commit.todo)
             toWrite == commit.todo \ {n}
             book == commit.ledger
  <1>0. PlannerTypeOK /\ CommitWrites
    BY DEF LedgerInv
  <1>1. /\ commit.step = "write" /\ commit.todo # {}
        /\ texts' = [texts EXCEPT ![n] = book[n].span] /\ commit' = [commit EXCEPT !.todo = toWrite]
        /\ UNCHANGED <<splitAt, remaining, entryOf, planCursor, scriptOf, plans, cutOff, planCount, planFaults>>
    BY DEF WriteText
  <1>2. /\ n \in commit.todo /\ n \in Episodes /\ n \in Placed(book)
        /\ book[n].span \in Span /\ commit # NoCommit
        /\ \A m \in commit.todo : m # n => n < m
    BY <1>0, <1>1, NextFile
  <1>3. toWrite \in SUBSET Episodes
    BY <1>0, CommitShape
  <1>4. texts'[n] = book[n].span /\ \A m \in Episodes : m # n => texts'[m] = texts[m]
    BY <1>0, <1>1, <1>2 DEF PlannerTypeOK
  <1> HIDE DEF n
  <1>5. /\ commit'.kind = commit.kind /\ commit'.ledger = book /\ commit'.cursor = commit.cursor
        /\ commit'.step = "write" /\ commit'.todo = toWrite /\ commit' # NoCommit
    <2>1. commit \in Commit
      BY <1>0 DEF PlannerTypeOK
    <2> HIDE DEF toWrite
    <2>2. commit'.kind = commit.kind /\ commit'.ledger = book /\ commit'.cursor = commit.cursor
          /\ commit'.step = "write" /\ commit'.todo = toWrite
      BY <1>1, <2>1 DEF Commit
    <2> QED BY <2>2 DEF NoCommit
  <1> HIDE DEF book
  <1>6. CommitWrites'
    <2>1. /\ \A m \in Episodes : book[m].status # "unset"
          /\ commit.todo \subseteq Placed(book)
          /\ \A m \in Placed(book) \ commit.todo : texts[m] = book[m].span
      BY <1>0, <1>2 DEF CommitWrites, book
    <2>2. \A m \in Placed(book) \ toWrite : texts'[m] = book[m].span
      BY <1>4, <2>1, EpisodeFacts
    <2> QED BY <1>5, <2>1, <2>2 DEF CommitWrites
  <1>7. FilesAgree'
    BY <1>5 DEF FilesAgree
  <1>8. ASSUME ~cutOff'
        PROVE  RecordSound' /\ ReadSound' /\ CommitSound' /\ PlanAdds'
    <2>1. RecordSound /\ ReadSound /\ CommitSound /\ PlanAdds
      BY <1>1, <1>8 DEF LedgerInv
    <2>2. RecordSound'
      BY <1>1, <2>1, RecordKept
    <2>3. CommitSound'
      <3>1. splitAt' = splitAt
        BY <1>1
      <3> QED BY <1>2, <1>5, <2>1, <3>1 DEF CommitSound, book
    <2>4. CASE commit.kind = "replan"
      BY <1>5, <2>2, <2>3, <2>4 DEF ReadSound, PlanAdds
    <2>5. CASE commit.kind = "plan"
      <3>1. /\ \A m \in Placed(Backfilled) : m \in Placed(book) /\ book[m].span = Backfilled[m].span
            /\ \A m \in Placed(book) \ Placed(Backfilled) :
                 /\ m \in commit.todo /\ entryOf[m].status = "absent"
                 /\ \A k \in Placed(Backfilled) : k < m
        BY <2>1, <2>5 DEF PlanAdds, book
      <3>2. /\ \A m \in Episodes : Unrecorded(m)' <=> Unrecorded(m)
            /\ \A m \in Episodes : m # n => /\ m \in Placed(Backfilled') <=> m \in Placed(Backfilled)
                                            /\ m \in Placed(Backfilled) => Backfilled'[m].span = Backfilled[m].span
            /\ ~Unrecorded(n) => Backfilled'[n] = Backfilled[n] /\ (n \in Placed(Backfilled') <=> n \in Placed(Backfilled))
            /\ Unrecorded(n) => /\ n \in Placed(Backfilled') <=> texts'[n] \in Span
                                /\ n \in Placed(Backfilled') => Backfilled'[n].span = texts'[n]
        BY <1>0, <1>1, <1>2, <1>4, OneFile
      <3>3. n \in Placed(Backfilled') /\ Backfilled'[n].span = book[n].span
        <4>1. CASE Unrecorded(n)
          BY <4>1, <3>2, <1>2, <1>4
        <4>2. CASE ~Unrecorded(n)
          <5>1. n \in Placed(Backfilled)
            BY <4>2, <3>1, <1>2 DEF Unrecorded
          <5> QED BY <4>2, <5>1, <3>1, <3>2
        <4> QED BY <4>1, <4>2
      <3>4. \A m \in Placed(Backfilled') : m \in Placed(book) /\ book[m].span = Backfilled'[m].span
        BY <1>2, <3>1, <3>2, <3>3, EpisodeFacts
      <3>5. ASSUME NEW m \in Placed(book) \ Placed(Backfilled')
            PROVE  /\ m \in toWrite /\ entryOf'[m].status = "absent"
                   /\ \A k \in Placed(Backfilled') : k < m
        <4>1. m # n /\ m \in Episodes
          BY <3>3, EpisodeFacts
        <4>2. m \in Placed(book) \ Placed(Backfilled)
          BY <3>2, <4>1
        <4>3. /\ m \in commit.todo /\ entryOf[m].status = "absent"
              /\ \A k \in Placed(Backfilled) : k < m
          BY <3>1, <4>2
        <4>4. n < m
          BY <1>2, <4>1, <4>3
        <4>5. \A k \in Placed(Backfilled') : k < m
          BY <3>2, <4>3, <4>4, EpisodeFacts
        <4> QED BY <1>1, <4>1, <4>3, <4>5
      <3>6. PlanAdds'
        BY <1>5, <3>4, <3>5 DEF PlanAdds
      <3>7. FilesFollow'
        <4> SUFFICES ASSUME NEW m \in Episodes, NEW k \in Placed(entryOf), Unrecorded(m)', texts'[m] # NoText
                     PROVE  k < m
          BY <1>1 DEF FilesFollow, FileOnly
        <4>1. FilesFollow /\ Unrecorded(m)
          BY <2>1, <2>5, <3>2 DEF ReadSound
        <4>2. CASE m # n
          BY <4>1, <4>2, <1>4 DEF FilesFollow, FileOnly
        <4>3. CASE m = n /\ texts[n] # NoText
          BY <4>1, <4>3 DEF FilesFollow, FileOnly
        <4>4. CASE m = n /\ texts[n] = NoText
          <5>1. n \notin Placed(Backfilled) /\ k \in Placed(Backfilled)
            BY <1>0, <1>2, <4>1, <4>4, BackfilledFacts DEF BackfilledOK
          <5> QED BY <1>2, <3>1, <4>4, <5>1
        <4> QED BY <4>2, <4>3, <4>4
      <3>8. Whole(Backfilled', splitAt)
        <4>1. (PlannerTypeOK /\ PlanAdds /\ CommitSound /\ commit.kind = "plan" => Whole(Backfilled, splitAt))'
          BY PlanReads, PTL
        <4>2. Whole(Backfilled, splitAt)'
          BY <1>5, <2>3, <2>5, <3>6, <4>1
        <4>3. splitAt' = splitAt
          BY <1>1
        <4> QED BY <4>2, <4>3
      <3>9. splitAt' = splitAt
        BY <1>1
      <3> QED BY <2>2, <2>3, <3>6, <3>7, <3>8, <3>9 DEF ReadSound
    <2> QED BY <1>0, <1>2, <2>4, <2>5, CommitShape
  <1> QED BY <1>6, <1>7, <1>8 DEF LedgerInv

LEMMA RemoveTextsKeepLedger ==
  ASSUME LedgerInv, PlannerTypeOK', NEW undeleted \in SUBSET Episodes, RemoveTexts(undeleted)
  PROVE  LedgerInv'
  <1> DEFINE book == commit.ledger
  <1>0. PlannerTypeOK /\ CommitWrites
    BY DEF LedgerInv
  <1>1. /\ commit.step = "write" /\ commit.todo = {}
        /\ texts' = [m \in Episodes |-> IF m \in Leftover \ undeleted THEN NoText ELSE texts[m]]
        /\ commit' = [commit EXCEPT !.step = "save"]
        /\ cutOff' = (cutOff \/ undeleted # {}) /\ remaining' \in {remaining, NoCursor}
        /\ UNCHANGED <<splitAt, entryOf, planCursor, scriptOf, plans, planCount>>
    BY DEF RemoveTexts
  <1>2. commit # NoCommit
    BY <1>0, <1>1, CommitShape
  <1>3. /\ commit'.kind = commit.kind /\ commit'.ledger = book /\ commit'.cursor = commit.cursor
        /\ commit'.step = "save" /\ commit'.todo = {} /\ commit' # NoCommit
    <2>1. commit \in Commit
      BY <1>0 DEF PlannerTypeOK
    <2>2. commit'.kind = commit.kind /\ commit'.ledger = book /\ commit'.cursor = commit.cursor
          /\ commit'.step = "save" /\ commit'.todo = {}
      BY <1>1, <2>1 DEF Commit
    <2> QED BY <2>2 DEF NoCommit
  <1>4. /\ \A m \in Leftover : book[m].status = "absent" /\ texts[m] # NoText /\ m \notin Placed(book)
        /\ \A m \in Episodes : book[m].status = "absent" /\ texts[m] # NoText => m \in Leftover
    BY DEF Leftover, Placed, Anchored
  <1> HIDE DEF book
  <1>5. CommitWrites'
    <2>1. /\ \A m \in Episodes : book[m].status # "unset"
          /\ \A m \in Placed(book) : texts[m] = book[m].span
      BY <1>0, <1>1, <1>2 DEF CommitWrites, book
    <2>2. \A m \in Placed(book) : texts'[m] = book[m].span
      BY <1>1, <1>4, <2>1, EpisodeFacts
    <2> QED BY <1>3, <2>1, <2>2 DEF CommitWrites
  <1>6. FilesAgree'
    BY <1>3 DEF FilesAgree
  <1>7. ASSUME ~cutOff'
        PROVE  RecordSound' /\ ReadSound' /\ CommitSound' /\ PlanAdds'
    <2>0. ~cutOff /\ undeleted = {}
      BY <1>1, <1>7
    <2>1. RecordSound /\ ReadSound /\ CommitSound /\ PlanAdds
      BY <2>0 DEF LedgerInv
    <2>2. RecordSound'
      BY <1>1, <2>1, RecordKept
    <2>3. \A m \in Episodes : texts'[m] = IF m \in Leftover THEN NoText ELSE texts[m]
      BY <1>1, <2>0
    <2>4. CommitSound'
      <3>1. \A m \in Episodes : book[m].status = "absent" => texts'[m] = NoText
        BY <1>4, <2>3
      <3>2. splitAt' = splitAt
        BY <1>1
      <3> QED BY <1>2, <1>3, <2>1, <3>1, <3>2 DEF CommitSound, book
    <2>5. CASE commit.kind = "replan"
      BY <1>3, <2>2, <2>4, <2>5 DEF ReadSound, PlanAdds
    <2>6. CASE commit.kind = "plan"
      <3>1. /\ \A m \in Placed(Backfilled) : m \in Placed(book) /\ book[m].span = Backfilled[m].span
            /\ \A m \in Placed(book) \ Placed(Backfilled) :
                 /\ m \in commit.todo /\ entryOf[m].status = "absent"
                 /\ \A k \in Placed(Backfilled) : k < m
        BY <2>1, <2>6 DEF PlanAdds, book
      <3>2. \A m \in Episodes : Unrecorded(m)' <=> Unrecorded(m)
        BY <1>1 DEF Unrecorded
      <3>3. BackfilledOK
        BY <1>0, BackfilledFacts
      <3>4. ASSUME NEW m \in Episodes
            PROVE  /\ m \in Placed(Backfilled') <=> m \in Placed(Backfilled)
                   /\ m \in Placed(Backfilled) => Backfilled'[m].span = Backfilled[m].span
        <4>1. CASE ~Unrecorded(m)
          <5>1. Backfilled'[m] = entryOf'[m] /\ Backfilled[m] = entryOf[m]
            BY <3>2, <3>3, <4>1, BackfilledNext DEF BackfilledOK
          <5> QED BY <5>1, <1>1 DEF Placed
        <4>2. CASE Unrecorded(m)
          <5>1. /\ m \in Placed(Backfilled') <=> texts'[m] \in Span
                /\ texts'[m] \in Span => Backfilled'[m].span = texts'[m]
                /\ m \in Placed(Backfilled) <=> texts[m] \in Span
                /\ texts[m] \in Span => Backfilled[m].span = texts[m]
            BY <3>2, <3>3, <4>2, BackfilledNext DEF BackfilledOK
          <5>2. m \in Leftover => m \notin Placed(Backfilled)
            BY <1>4, <3>1
          <5>3. NoText \notin Span
            BY <3>3 DEF BackfilledOK
          <5> QED BY <5>1, <5>2, <5>3, <2>3
        <4> QED BY <4>1, <4>2
      <3>5. Placed(Backfilled') = Placed(Backfilled)
        BY <3>4, EpisodeFacts
      <3>6. PlanAdds'
        <4>1. \A m \in Placed(Backfilled') : m \in Placed(book) /\ book[m].span = Backfilled'[m].span
          BY <3>1, <3>4, <3>5, EpisodeFacts
        <4>2. \A m \in Placed(book) \ Placed(Backfilled') :
                 /\ m \in commit'.todo /\ entryOf'[m].status = "absent"
                 /\ \A k \in Placed(Backfilled') : k < m
          BY <1>1, <1>3, <3>1, <3>5
        <4> QED BY <1>3, <4>1, <4>2 DEF PlanAdds
      <3>7. FilesFollow'
        <4>1. FilesFollow
          BY <2>1, <2>6 DEF ReadSound
        <4> QED BY <1>1, <2>3, <3>2, <4>1 DEF FilesFollow, FileOnly
      <3>8. Whole(Backfilled', splitAt)
        <4>1. Whole(Backfilled, splitAt)
          BY <2>1, <2>6 DEF ReadSound
        <4>2. \A m \in Placed(Backfilled) : Backfilled'[m].span = Backfilled[m].span
          BY <3>4, EpisodeFacts
        <4> QED BY <3>5, <4>1, <4>2, SamePlaces
      <3>9. splitAt' = splitAt
        BY <1>1
      <3> QED BY <2>2, <2>4, <3>6, <3>7, <3>8, <3>9 DEF ReadSound
    <2> QED BY <1>0, <1>2, <2>5, <2>6, CommitShape
  <1> QED BY <1>5, <1>6, <1>7 DEF LedgerInv

\* A plan that is cut off leaves a first part of its ledger, its last file cut
\* short maybe.
LEMMA CutOffPlan ==
  ASSUME LedgerInv, PlannerTypeOK', CutOffCommit, commit.kind = "plan", ~cutOff'
  PROVE  Whole(Backfilled', splitAt) /\ FilesFollow'
  <1> DEFINE n == Least(commit.todo)
             book == commit.ledger
  <1>0. PlannerTypeOK /\ CommitWrites
    BY DEF LedgerInv
  <1>1. /\ commit # NoCommit /\ cutOff' = (cutOff \/ Damaged(texts'))
        /\ UNCHANGED <<splitAt, remaining, entryOf, planCursor, scriptOf, planCount>>
    BY DEF CutOffCommit
  <1>2. ~cutOff /\ ~Damaged(texts')
    BY <1>1
  <1>3. CommitSound /\ PlanAdds /\ Whole(Backfilled, splitAt) /\ FilesFollow
    BY <1>2 DEF LedgerInv, ReadSound
  <1>4. CASE texts' = texts
    <2>1. Backfilled' = Backfilled /\ FilesFollow' = FilesFollow
      BY <1>0, <1>1, <1>4, SameReading
    <2> QED BY <1>3, <2>1
  <1>5. CASE texts' # texts
    <2>1. /\ commit.step = "write" /\ commit.todo # {}
          /\ \A m \in Episodes : m # n => texts'[m] = texts[m]
          /\ \/ texts'[n] = Unmatched
             \/ (texts'[n] \in Span /\ texts'[n].start = book[n].span.start)
      BY <1>0, <1>5, CutOffLeaves
    <2>2. /\ n \in commit.todo /\ n \in Episodes /\ n \in Placed(book)
          /\ \A m \in commit.todo : m # n => n < m
      BY <1>0, <2>1, NextFile
    <2>3. texts'[n] # texts[n]
      <3>1. /\ texts \in [Episodes -> Span \cup {NoText, Unmatched}]
            /\ texts' \in [Episodes -> Span \cup {NoText, Unmatched}]
        BY <1>0 DEF PlannerTypeOK
      <3>2. ASSUME texts'[n] = texts[n]
            PROVE  FALSE
        <4>1. \A m \in Episodes : texts'[m] = texts[m]
          BY <2>1, <3>2
        <4>2. texts' = texts
          BY <3>1, <4>1
        <4> QED BY <1>5, <4>2
      <3> QED BY <3>2
    <2> HIDE DEF n
    <2>4. book \in Ledgers /\ Whole(book, splitAt)
      BY <1>0, <1>1, <1>3, CommitShape DEF CommitSound
    <2>5. /\ \A m \in Placed(Backfilled) : m \in Placed(book) /\ book[m].span = Backfilled[m].span
          /\ \A m \in Placed(book) \ Placed(Backfilled) :
               /\ m \in commit.todo /\ entryOf[m].status = "absent"
               /\ \A k \in Placed(Backfilled) : k < m
      BY <1>3 DEF PlanAdds
    <2> HIDE DEF book
    <2>6. /\ \A m \in Episodes : Unrecorded(m)' <=> Unrecorded(m)
          /\ \A m \in Episodes : m # n => /\ m \in Placed(Backfilled') <=> m \in Placed(Backfilled)
                                          /\ m \in Placed(Backfilled) => Backfilled'[m].span = Backfilled[m].span
          /\ ~Unrecorded(n) => Backfilled'[n] = Backfilled[n] /\ (n \in Placed(Backfilled') <=> n \in Placed(Backfilled))
          /\ Unrecorded(n) => /\ n \in Placed(Backfilled') <=> texts'[n] \in Span
                              /\ n \in Placed(Backfilled') => Backfilled'[n].span = texts'[n]
      BY <1>0, <1>1, <2>1, <2>2, OneFile
    <2>7. BackfilledOK
      BY <1>0, BackfilledFacts
    <2>8. Unrecorded(n) => \A k \in Placed(entryOf) : k < n
      <3> SUFFICES ASSUME Unrecorded(n), NEW k \in Placed(entryOf)
                   PROVE  k < n
        OBVIOUS
      <3>1. CASE texts[n] # NoText
        BY <3>1, <1>3, <2>2 DEF FilesFollow, FileOnly
      <3>2. CASE texts[n] = NoText
        <4>1. n \notin Placed(Backfilled) /\ k \in Placed(Backfilled)
          BY <2>2, <2>7, <3>2 DEF BackfilledOK
        <4> QED BY <2>2, <2>5, <4>1
      <3> QED BY <3>1, <3>2
    <2>9. FilesFollow'
      <3> SUFFICES ASSUME NEW m \in Episodes, NEW k \in Placed(entryOf), Unrecorded(m)', texts'[m] # NoText
                   PROVE  k < m
        BY <1>1 DEF FilesFollow, FileOnly
      <3>1. Unrecorded(m)
        BY <2>6
      <3>2. CASE m # n
        BY <3>1, <3>2, <1>3, <2>1 DEF FilesFollow, FileOnly
      <3>3. CASE m = n
        BY <3>1, <3>3, <2>8
      <3> QED BY <3>2, <3>3
    <2>10. CASE ~Unrecorded(n)
      <3>0. \A m \in Episodes :
               /\ m \in Placed(Backfilled') <=> m \in Placed(Backfilled)
               /\ m \in Placed(Backfilled) => Backfilled'[m].span = Backfilled[m].span
        BY <2>6, <2>10
      <3>1. Placed(Backfilled') = Placed(Backfilled)
        BY <3>0, Zenon DEF Placed
      <3>2. \A m \in Placed(Backfilled) : Backfilled'[m].span = Backfilled[m].span
        BY <3>0, EpisodeFacts
      <3>3. Whole(Backfilled', splitAt)
        BY <1>3, <3>1, <3>2, SamePlaces
      <3> QED BY <2>9, <3>3
    <2>11. CASE Unrecorded(n)
      <3>1. \A k \in Episodes : n < k /\ Unrecorded(k) => texts'[k] = NoText
        BY <1>2, <2>2, <2>3, <2>11 DEF Damaged
      <3>2. ASSUME NEW m \in Placed(Backfilled')
            PROVE  m \in Episodes /\ m <= n
        <4>1. m \in Episodes /\ (m \in Placed(entryOf) \/ Unrecorded(m)) /\ m \in Nat /\ n \in Nat
          BY <1>1, <2>2, <2>6, BackfilledNext, EpisodeFacts
        <4>2. CASE m \in Placed(entryOf)
          BY <2>8, <2>11, <4>1, <4>2
        <4>3. CASE Unrecorded(m)
          <5>1. texts'[m] \in Span
            BY <2>6, <4>1, <4>3, BackfilledNext
          <5>2. texts'[m] # NoText
            BY <5>1, <2>7 DEF BackfilledOK
          <5> QED BY <3>1, <4>1, <4>3, <5>2
        <4> QED BY <4>1, <4>2, <4>3
      <3> DEFINE part == Backfilled'
      <3>3. ASSUME NEW m \in Placed(part)
            PROVE  /\ m \in Placed(book) /\ part[m].span.start = book[m].span.start
                   /\ m # n => part[m].span = book[m].span
        <4>1. CASE m = n
          <5>1. texts'[n] \in Span /\ part[n].span = texts'[n]
            BY <2>6, <2>11, <4>1
          <5>2. Unmatched \notin Span
            BY <2>7 DEF BackfilledOK
          <5> QED BY <2>1, <2>2, <4>1, <5>1, <5>2
        <4>2. CASE m # n
          BY <2>5, <2>6, <3>2, <4>2
        <4> QED BY <4>1, <4>2
      <3>4. ASSUME NEW m \in Placed(part), NEW k \in Placed(book), k < m
            PROVE  k \in Placed(part)
        <4>1. k \in Episodes /\ k \in Nat /\ m \in Nat /\ n \in Nat /\ m <= n
          BY <2>2, <3>2, EpisodeFacts
        <4>2. k < n /\ k # n
          BY <3>4, <4>1
        <4>3. k \in Placed(Backfilled)
          <5>1. k \notin Placed(Backfilled) => k \in commit.todo
            BY <2>5
          <5>2. k \in commit.todo => n < k
            BY <2>2, <4>2
          <5> QED BY <4>1, <4>2, <5>1, <5>2
        <4> QED BY <2>6, <4>1, <4>2, <4>3
      <3>5. ASSUME NEW m \in Placed(part), NEW k \in Placed(part), m < k
            PROVE  part[m].span.end = book[m].span.end
        <4>1. m # n
          <5>1. m \in Nat /\ k \in Nat /\ n \in Nat /\ k <= n
            BY <2>2, <3>2, EpisodeFacts
          <5> QED BY <3>5, <5>1
        <4> QED BY <3>3, <4>1
      <3>6. part \in Ledgers
        BY BackfilledNext
      <3> HIDE DEF part
      <3>7. Placed(part) \subseteq Placed(book)
        BY <3>3
      <3>8. \A m \in Placed(part), k \in Placed(book) : k < m => k \in Placed(part)
        BY <3>4
      <3>9. \A m \in Placed(part) : part[m].span.start = book[m].span.start
        BY <3>3
      <3>10. \A m, k \in Placed(part) : m < k => part[m].span.end = book[m].span.end
        BY <3>5
      <3>11. Whole(part, splitAt)
        BY <2>4, <3>6, <3>7, <3>8, <3>9, <3>10, FirstPart
      <3> QED BY <2>9, <3>11 DEF part
    <2> QED BY <2>10, <2>11
  <1> QED BY <1>4, <1>5

LEMMA CutOffKeepsLedger ==
  ASSUME LedgerInv, PlannerTypeOK', CutOffCommit
  PROVE  LedgerInv'
  <1>0. PlannerTypeOK /\ CommitWrites
    BY DEF LedgerInv
  <1>1. /\ commit # NoCommit /\ commit' = NoCommit /\ planFaults' = planFaults + 1
        /\ cutOff' = (cutOff \/ Damaged(texts'))
        /\ UNCHANGED <<splitAt, remaining, entryOf, planCursor, scriptOf, planCount>>
    BY DEF CutOffCommit
  <1>2. CommitWrites' /\ PlanAdds' /\ CommitSound'
    BY <1>1 DEF CommitWrites, PlanAdds, CommitSound, NoCommit
  <1>3. FilesAgree'
    <2>1. planFaults' # 0
      BY <1>0, <1>1, PlannerAssumption DEF PlannerTypeOK
    <2> QED BY <2>1 DEF FilesAgree
  <1>4. ASSUME ~cutOff'
        PROVE  RecordSound' /\ ReadSound'
    <2>1. ~cutOff /\ ~Damaged(texts')
      BY <1>1, <1>4
    <2>2. RecordSound
      BY <2>1 DEF LedgerInv
    <2>3. RecordSound'
      BY <1>1, <2>2, RecordKept
    <2>0. splitAt' = splitAt
      BY <1>1
    <2>4. CASE commit.kind = "plan"
      <3>1. Whole(Backfilled', splitAt) /\ FilesFollow'
        BY <1>4, <2>4, CutOffPlan
      <3> QED BY <2>0, <2>3, <3>1 DEF ReadSound
    <2>5. CASE commit.kind = "replan"
      <3>1. \A m \in Episodes : Unrecorded(m) => texts'[m] = NoText
        BY <2>1, <2>5 DEF Damaged
      <3>2. \A m \in Episodes : Unrecorded(m)' => texts'[m] = NoText
        BY <1>1, <3>1 DEF Unrecorded
      <3>3. FilesFollow'
        BY <3>2 DEF FilesFollow, FileOnly
      <3>4. NoText \notin Span
        BY <1>0, BackfilledFacts DEF BackfilledOK
      <3>5. Placed(Backfilled') = Placed(entryOf')
        BY <3>2, <3>4, BackfilledNext
      <3>6. \A m \in Placed(entryOf') : Backfilled'[m].span = entryOf'[m].span
        BY BackfilledNext
      <3>7. Whole(entryOf', splitAt)
        BY <2>0, <2>3 DEF RecordSound
      <3>8. Whole(Backfilled', splitAt)
        BY <3>5, <3>6, <3>7, SamePlaces
      <3> QED BY <2>0, <2>3, <3>3, <3>8 DEF ReadSound
    <2> QED BY <1>0, <1>1, <2>4, <2>5, CommitShape
  <1> QED BY <1>2, <1>3, <1>4 DEF LedgerInv

LEMMA LedgerInitially == PlannerInit => LedgerInv
  <1> SUFFICES ASSUME PlannerInit PROVE LedgerInv
    OBVIOUS
  <1>1. PICK text \in {NoText, Unmatched} \cup {r \in Span : r.start = 0 /\ r.end <= Least(FileEnds)},
             status \in {"absent", "unset"}, scripted \in BOOLEAN :
          /\ entryOf = [n \in Episodes |-> Item(IF n = 1 THEN status ELSE "absent", NoSpan)]
          /\ texts = [n \in Episodes |-> IF n = 1 THEN text ELSE NoText]
          /\ scriptOf = [n \in Episodes |-> IF n = 1 /\ scripted THEN text ELSE NoText]
          /\ splitAt \in {NoCursor} \cup 1..(Least(FileEnds) - 1)
    BY DEF PlannerInit
  <1>2. /\ remaining = splitAt /\ planCursor = NoCursor /\ plans = [c \in Callers |-> NoPlan] /\ commit = NoCommit
        /\ cutOff = FALSE /\ planCount = 0 /\ planFaults = 0
    BY DEF PlannerInit
  <1>3. text \in Span \cup {NoText, Unmatched} /\ (text \in Span => text.start = 0)
    <2>1. NoText \notin Span /\ Unmatched \notin Span
      <3>1. Span \subseteq [start : Nat, end : Nat]
        BY EpisodeFacts DEF Span
      <3> QED BY <3>1, PlannerAssumption
    <2> QED BY <2>1
  <1>4. /\ \A s \in {"absent", "unset"} : Item(s, NoSpan) \in Items /\ Item(s, NoSpan).status = s
        /\ \A n \in Episodes : entryOf[n] = Item(IF n = 1 THEN status ELSE "absent", NoSpan)
    BY <1>1 DEF Item, Items
  <1>5. entryOf \in Ledgers
    BY <1>1, <1>4 DEF Ledgers
  <1>6. PlannerTypeOK
    <2>1. planCursor \in 0..NoCursor /\ planCount \in 0..MaxPlans /\ planFaults \in 0..MaxPlanFaults
      BY <1>2, PlannerAssumption, EpisodeFacts DEF NoCursor
    <2>2. plans \in [Callers -> Plan] /\ commit \in Commit /\ cutOff \in BOOLEAN
      BY <1>2, NoPlanTyped, NoCommitTyped
    <2>3. texts \in [Episodes -> Span \cup {NoText, Unmatched}]
      BY <1>1, <1>3
    <2>4. scriptOf \in [Episodes -> Span \cup {NoText, Unmatched}]
      BY <1>1, <1>3
    <2>5. splitAt \in 0..NoCursor
      <3>1. FileEnds \in SUBSET Nat /\ Total \in FileEnds
        BY PlannerAssumption
      <3>2. Least(FileEnds) \in Nat /\ Least(FileEnds) <= Total
        BY <3>1, LeastEpisode
      <3> QED BY <1>1, <3>2, EpisodeFacts DEF NoCursor
    <2> QED BY <1>2, <1>5, <2>1, <2>2, <2>3, <2>4, <2>5 DEF PlannerTypeOK
  <1>7. Placed(entryOf) = {} /\ \A n \in Episodes : Unrecorded(n)
    BY <1>4 DEF Placed, Anchored, Unrecorded
  <1>8. CommitWrites /\ FilesAgree /\ CommitSound /\ PlanAdds
    BY <1>2, <1>7 DEF CommitWrites, FilesAgree, CommitSound, PlanAdds, NoCommit
  <1>9. Whole(entryOf, splitAt)
    BY <1>7 DEF Whole, Tiles, Ascends
  <1>10. RecordSound
    BY <1>2, <1>9 DEF RecordSound, CursorWithin
  <1>11. FilesFollow
    BY <1>7 DEF FilesFollow
  <1>12. BackfilledOK
    BY <1>6, BackfilledFacts
  <1>13. \A n \in Placed(Backfilled) : n = 1 /\ Backfilled[n].span.start = 0
    <2> TAKE n \in Placed(Backfilled)
    <2>1. n \in Episodes /\ Unrecorded(n)
      BY <1>7, <1>12 DEF BackfilledOK
    <2>2. texts[n] \in Span /\ Backfilled[n].span = texts[n]
      BY <1>12, <2>1 DEF BackfilledOK
    <2>3. n = 1
      BY <1>1, <1>12, <2>1, <2>2 DEF BackfilledOK
    <2>4. texts[n] = text
      BY <1>1, <2>1, <2>3
    <2> QED BY <1>3, <2>2, <2>3, <2>4
  <1>14. Whole(Backfilled, splitAt)
    <2>1. \A n \in Placed(Backfilled) : Joins(0, Backfilled[n].span.start, splitAt)
      BY <1>13 DEF Joins
    <2>2. \A a, b \in Placed(Backfilled) : ~(a < b) /\ ~NextIn(Placed(Backfilled), a, b)
      BY <1>13 DEF NextIn
    <2> QED BY <2>1, <2>2 DEF Whole, Tiles, Ascends
  <1>15. ReadSound
    BY <1>11, <1>14 DEF ReadSound
  <1> QED BY <1>6, <1>8, <1>10, <1>15 DEF LedgerInv

LEMMA LedgerStep == LedgerInv /\ [PlannerNext]_plannerVars => LedgerInv'
  <1> SUFFICES ASSUME LedgerInv, [PlannerNext]_plannerVars PROVE LedgerInv'
    OBVIOUS
  <1>0. PlannerTypeOK'
    BY PlannerTyped DEF LedgerInv
  <1>1. ASSUME NEW c \in Callers, AskPlan(c) \/ (\E n \in Episodes, b \in BOOLEAN : AskReplan(c, n, b))
                                  \/ GiveUpPlan(c)
        PROVE  LedgerInv'
    <2>1. UNCHANGED <<splitAt, remaining, entryOf, planCursor, texts, scriptOf, commit, cutOff, planFaults>>
      BY <1>1 DEF AskPlan, AskReplan, Ask, GiveUpPlan
    <2> QED BY <1>0, <2>1, PlansAside
  <1>2. ASSUME NEW c \in Callers, BeginPlan(c) \/ BeginReplan(c)
        PROVE  LedgerInv'
    BY <1>0, <1>2, BeginPlanKeepsLedger, BeginReplanKeepsLedger
  <1>3. CASE WriteText
    BY <1>0, <1>3, WriteTextKeepsLedger
  <1>4. ASSUME NEW undeleted \in SUBSET Episodes, RemoveTexts(undeleted)
        PROVE  LedgerInv'
    BY <1>0, <1>4, RemoveTextsKeepLedger
  <1>5. CASE SaveLedger
    BY <1>0, <1>5, SaveLedgerKeeps
  <1>6. CASE CutOffCommit
    BY <1>0, <1>6, CutOffKeepsLedger
  <1>7. ASSUME NEW n \in Episodes, WriteScript(n) \/ IndexScript(n)
        PROVE  LedgerInv'
    BY <1>0, <1>7, ScriptsKeepLedger
  <1>8. CASE UNCHANGED plannerVars
    BY <1>0, <1>8, PlansAside DEF plannerVars
  <1> QED BY <1>1, <1>2, <1>3, <1>4, <1>5, <1>6, <1>7, <1>8 DEF PlannerNext

\* Project.json, the files and the commit under way stay within their types.
THEOREM PlannerTypeCorrect == PlannerSpec => []PlannerTypeOK
  <1>1. LedgerInv => PlannerTypeOK
    BY DEF LedgerInv
  <1> QED BY LedgerInitially, LedgerStep, <1>1, PTL DEF PlannerSpec

\* Whatever sessions plan at once and wherever a commit is cut off, the episodes
\* that the next call reads are the text from its beginning on, unless a file that
\* was the only record was damaged; and without a failure the files that scripts
\* are written from are those of the ledger.
THEOREM LedgerStaysTiled == PlannerSpec => []LedgerTiles
  <1>1. LedgerInv => LedgerTiles
    <2> SUFFICES ASSUME LedgerInv, commit = NoCommit
                 PROVE  /\ ~cutOff => Tiles(Backfilled, splitAt)
                        /\ planFaults = 0 => \A n \in Placed(entryOf) : texts[n] = entryOf[n].span
      BY DEF LedgerTiles
    <2>1. ~cutOff => Tiles(Backfilled, splitAt)
      BY DEF LedgerInv, ReadSound, NoCommit, Whole
    <2>2. planFaults = 0 => \A n \in Placed(entryOf) : texts[n] = entryOf[n].span
      BY DEF LedgerInv, FilesAgree
    <2> QED BY <2>1, <2>2
  <1> QED BY LedgerInitially, LedgerStep, <1>1, PTL DEF PlannerSpec
=============================================================================
