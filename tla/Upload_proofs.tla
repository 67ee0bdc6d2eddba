--------------------------- MODULE Upload_proofs ---------------------------
(***************************************************************************)
(* The type invariant of acq400_upload, that what it uploads is the shot   *)
(* it armed and all of it, unless the connection broke or a write failed,  *)
(* and that the Acq400 it works through has one client for each site: for  *)
(* every size of the data and of the buffer and every list of sites.       *)
(***************************************************************************)
EXTENDS Upload, TLAPS

-----------------------------------------------------------------------------
(* The inductive invariant.                                                 *)

Uploading == {"shot", "read", "write", "over"}

\* The bytes in hand, read and not yet written.
Pending == IF pc = "write" THEN nbuf * Size ELSE 0

\* The file never has the bytes in hand, and all the others, unless a write came
\* back short.
CopyInv ==
  /\ nfile + Pending <= nread
  /\ ~short => nfile + Pending = nread

\* How far the one shot is, as long as nobody aborts it.
ShotInv ==
  ~aborted =>
    /\ pc \in {"new", "data32", "transient", "set_arm"} =>
         ~arming /\ uut = "IDLE" /\ shots = 0
    /\ arming => uut = "IDLE" /\ shots = 0
    /\ uut # "IDLE" => shots = 0
    /\ shots \in {0, 1}
    /\ pc = "wait_idle" => ~arming /\ (uut # "IDLE" \/ shots = 1)
    /\ pc \in Uploading => shots = 1

\* The sites that commands are for.
UsedSites == {"0", "1"}

\* The map leads to a client of the site, and every client but the first is in it.
MapInv(names) ==
  /\ clients \in Seq(names)
  /\ sites \in [DOMAIN sites -> Nat]
  /\ \A site \in DOMAIN sites :
       /\ sites[site] \in 0..Len(clients)
       /\ sites[site] # 0 => clients[sites[site]] = site
  /\ \A i \in 1..Len(clients) :
       /\ clients[i] \in DOMAIN sites
       /\ i = 1 => clients[i] = "0"
       /\ i > 1 => sites[clients[i]] = i

Built == pc \in {"new", "failed"} \/ clients # <<>>

IInv == TypeOK /\ CopyInv /\ ShotInv /\ UploadsAll /\ MapInv(UsedSites) /\ Built

-----------------------------------------------------------------------------
(* The constructor and the map.                                             *)

\* The constructor's map has its one client for site 0, and none yet for the others.
LEMMA NewMap ==
  ASSUME NEW names, "0" \in names, NEW list, New(list)
  PROVE  MapInv(names)' /\ clients' # <<>>
  <1> DEFINE map == [site \in {"0"} \union list |-> IF site \in list THEN 0 ELSE 1]
  <1>1. clients' = <<"0">> /\ sites' = map
    BY DEF New
  <1>2. clients' \in Seq(names) /\ Len(clients') = 1 /\ clients'[1] = "0" /\ clients' # <<>>
    <2>1. <<"0">> \in Seq(names)
      OBVIOUS
    <2>2. Len(<<"0">>) = 1 /\ <<"0">>[1] = "0"
      OBVIOUS
    <2> QED BY <1>1, <2>1, <2>2
  <1>3. DOMAIN map = {"0"} \union list /\ map \in [DOMAIN map -> Nat]
    OBVIOUS
  <1>4. \A site \in DOMAIN map : map[site] \in 0..1 /\ (map[site] # 0 => map[site] = 1 /\ site = "0")
    OBVIOUS
  <1>6. \A site \in DOMAIN sites' :
           /\ sites'[site] \in 0..Len(clients')
           /\ sites'[site] # 0 => clients'[sites'[site]] = site
    BY <1>1, <1>2, <1>3, <1>4
  <1>7. \A i \in 1..Len(clients') :
           /\ clients'[i] \in DOMAIN sites'
           /\ i = 1 => clients'[i] = "0"
           /\ i > 1 => sites'[clients'[i]] = i
    BY <1>1, <1>2, <1>3
  <1> QED BY <1>1, <1>2, <1>3, <1>6, <1>7 DEF MapInv

\* Before the constructor the map is empty.
LEMMA UnbuiltMap ==
  ASSUME NEW names, Unbuilt
  PROVE  MapInv(names)
  <1>1. clients = <<>> /\ DOMAIN sites = {} /\ sites \in [{} -> Nat]
    BY DEF Unbuilt
  <1>2. clients \in Seq(names) /\ Len(clients) = 0
    BY <1>1
  <1> QED BY <1>1, <1>2 DEF MapInv

\* A command connects the client it needs and disturbs no other.
LEMMA UseMap ==
  ASSUME NEW names, MapInv(names), clients # <<>>, NEW site \in names, Use(site)
  PROVE  MapInv(names)' /\ clients' # <<>>
  <1>1. CASE Connected(site)
    BY <1>1 DEF Use, MapInv, acq400Vars
  <1>2. CASE ~Connected(site)
    <2> DEFINE n == Len(clients)
    <2>0. n \in Nat \ {0}
      BY DEF MapInv
    <2>1. /\ clients' \in Seq(names) /\ clients' # <<>>
          /\ Len(clients') = n + 1 /\ clients'[n + 1] = site
          /\ \A i \in 1..n : clients'[i] = clients[i]
      BY <1>2 DEF Use, MapInv
    <2>2. sites' = [s \in DOMAIN sites \union {site} |-> IF s = site THEN n + 1 ELSE sites[s]]
      BY <1>2, <2>1 DEF Use
    <2>3. \A s \in DOMAIN sites' :
             /\ sites'[s] \in 0..Len(clients')
             /\ sites'[s] # 0 => clients'[sites'[s]] = s
      <3> SUFFICES ASSUME NEW s \in DOMAIN sites'
                   PROVE  /\ sites'[s] \in 0..Len(clients')
                          /\ sites'[s] # 0 => clients'[sites'[s]] = s
        OBVIOUS
      <3>1. CASE s = site
        <4>1. sites'[s] = n + 1
          BY <2>2, <3>1
        <4>2. sites'[s] \in 0..Len(clients')
          BY <2>0, <2>1, <4>1
        <4>3. clients'[sites'[s]] = s
          BY <2>1, <3>1, <4>1, Zenon
        <4> QED BY <4>2, <4>3
      <3>2. CASE s # site
        <4>1. s \in DOMAIN sites /\ sites'[s] = sites[s]
          BY <2>2, <3>2
        <4>2. sites[s] \in 0..n /\ (sites[s] # 0 => clients[sites[s]] = s)
          BY <4>1 DEF MapInv
        <4> QED BY <2>0, <2>1, <4>1, <4>2
      <3> QED BY <3>1, <3>2
    <2>4. \A i \in 1..Len(clients') :
             /\ clients'[i] \in DOMAIN sites'
             /\ i = 1 => clients'[i] = "0"
             /\ i > 1 => sites'[clients'[i]] = i
      <3> SUFFICES ASSUME NEW i \in 1..Len(clients')
                   PROVE  /\ clients'[i] \in DOMAIN sites'
                          /\ i = 1 => clients'[i] = "0"
                          /\ i > 1 => sites'[clients'[i]] = i
        OBVIOUS
      <3>1. CASE i = n + 1
        <4>1. clients'[i] = site /\ site \in DOMAIN sites' /\ sites'[site] = n + 1
          BY <2>1, <2>2, <3>1
        <4> QED BY <2>0, <3>1, <4>1
      <3>2. CASE i # n + 1
        <4>1. i \in 1..n /\ clients'[i] = clients[i]
          BY <2>0, <2>1, <3>2
        <4>2. /\ clients[i] \in DOMAIN sites
              /\ i = 1 => clients[i] = "0"
              /\ i > 1 => sites[clients[i]] = i
          BY <4>1 DEF MapInv
        <4>3. i > 1 => clients[i] # site
          BY <1>2, <4>2 DEF Connected
        <4> QED BY <2>2, <4>1, <4>2, <4>3
      <3> QED BY <3>1, <3>2
    <2>5. sites' \in [DOMAIN sites' -> Nat]
      BY <2>0, <2>2 DEF MapInv
    <2> QED BY <2>1, <2>3, <2>4, <2>5 DEF MapInv
  <1> QED BY <1>1, <1>2

\* A map that finds every client by its site has no two for one.
LEMMA MapGivesOneClient ==
  ASSUME NEW names, MapInv(names)
  PROVE  OneClientPerSite
  <1>1. \A site \in DOMAIN sites : sites[site] # 0 => clients[sites[site]] = site
    BY DEF MapInv
  <1>2. ASSUME NEW i \in 1..Len(clients), NEW j \in 1..Len(clients),
               i < j, clients[i] = clients[j]
        PROVE  i = 1 /\ sites["0"] = j
    <2>1. sites[clients[j]] = j
      BY <1>2 DEF MapInv
    <2>2. i > 1 => sites[clients[i]] = i
      BY DEF MapInv
    <2>3. i = 1
      BY <1>2, <2>1, <2>2
    <2> QED BY <1>2, <2>1, <2>3 DEF MapInv
  <1> QED BY <1>1, <1>2 DEF OneClientPerSite

-----------------------------------------------------------------------------
(* What stream() returns: whole elements of what is left of the shot.       *)

\* What stream() returns is whole elements of what is left.
LEMMA GotIsWhole ==
  ASSUME TypeOK
  PROVE  /\ Size \in {2, 8} /\ Got \in 0..BufLen
         /\ Got * Size \in Nat /\ nread + Got * Size <= Bytes
         /\ Got = 0 => cut \/ Bytes - nread < Size
  <1> USE UploadAssumption
  <1>0. Size \in {2, 8}
    BY DEF Size
  <1> DEFINE left == Bytes - nread
             q == left \div Size
  <1>1. left \in Nat
    BY DEF TypeOK
  <1>2. q \in Nat /\ q * Size <= left /\ (q = 0 => left < Size)
    <2>1. CASE Size = 2
      BY <1>1, <2>1
    <2>2. CASE Size = 8
      BY <1>1, <2>2
    <2> QED BY <1>0, <2>1, <2>2
  <1>3. CASE cut
    <2>1. Got = 0
      BY <1>3, Zenon DEF Got
    <2>2. Got * Size = 0
      BY <1>0, <2>1
    <2> QED BY <1>0, <1>1, <1>3, <2>1, <2>2 DEF TypeOK
  <1>4. CASE ~cut
    <2>1. Got = Min({BufLen, q})
      BY <1>4 DEF Got
    <2>2. Got = IF BufLen <= q THEN BufLen ELSE q
      BY <1>2, <2>1 DEF Min
    <2>3. Got \in 0..BufLen /\ Got <= q /\ (Got = 0 => q = 0)
      BY <1>2, <2>2
    <2>4. Got * Size \in Nat /\ Got * Size <= q * Size
      <3>1. CASE Size = 2
        BY <1>2, <2>3, <3>1
      <3>2. CASE Size = 8
        BY <1>2, <2>3, <3>2
      <3> QED BY <1>0, <3>1, <3>2
    <2> QED BY <1>0, <1>1, <1>2, <2>3, <2>4, <1>4 DEF TypeOK
  <1> QED BY <1>3, <1>4

-----------------------------------------------------------------------------

\* The invariant holds at the beginning.
LEMMA InitInv == Init => IInv
  <1> SUFFICES ASSUME Init PROVE IInv
    OBVIOUS
  <1>1. TypeOK
    <2>1. nbuf \in 0..BufLen /\ nread \in 0..Bytes /\ nfile \in 0..nread /\ shots \in Nat
      BY UploadAssumption DEF Init
    <2> QED BY <2>1, Zenon DEF Init, TypeOK
  <1>2. CopyInv /\ UploadsAll
    BY DEF Init, CopyInv, Pending, UploadsAll
  <1>3. ShotInv
    BY DEF Init, ShotInv, Uploading
  <1>4. MapInv(UsedSites)
    BY UnbuiltMap DEF Init
  <1>5. Built
    BY DEF Init, Built
  <1> QED BY <1>1, <1>2, <1>3, <1>4, <1>5 DEF IInv

\* Each command leaves the map as the constructor built it, or with one client more.
LEMMA MapStep ==
  ASSUME MapInv(UsedSites), Built, [Next]_vars
  PROVE  MapInv(UsedSites)' /\ Built'
  <1>1. CASE Construct
    <2>1. PICK list \in SiteLists : New(list)
      BY <1>1 DEF Construct
    <2>2. MapInv(UsedSites)' /\ clients' # <<>>
      BY <2>1, NewMap DEF UsedSites
    <2> QED BY <2>2 DEF Built
  <1>2. CASE GetData32 \/ SetTransient \/ SetArm \/ PollStart \/ PollIdle
    <2>1. Use("0")
      BY <1>2 DEF GetData32, SetTransient, SetArm, PollStart, PollIdle
    <2>2. clients # <<>>
      BY <1>2 DEF Built, GetData32, SetTransient, SetArm, PollStart, PollIdle
    <2>3. MapInv(UsedSites)' /\ clients' # <<>>
      BY <2>1, <2>2, UseMap DEF UsedSites
    <2> QED BY <2>3 DEF Built
  <1>3. CASE GetShot
    <2>1. Use("1")
      BY <1>3 DEF GetShot
    <2>2. clients # <<>>
      BY <1>3 DEF Built, GetShot
    <2>3. MapInv(UsedSites)' /\ clients' # <<>>
      BY <2>1, <2>2, UseMap DEF UsedSites
    <2> QED BY <2>3 DEF Built
  <1>4. CASE Fatal \/ Read \/ Write \/ Shot \/ Abort \/ Cut \/ UNCHANGED vars
    <2>1. UNCHANGED <<sites, clients>>
      BY <1>4 DEF Fatal, Read, Write, Shot, UutArms, UutTriggered, UutFinishes, Abort, Cut,
                  vars, acq400Vars
    <2>2. MapInv(UsedSites)'
      BY <2>1 DEF MapInv
    <2>3. pc \in {"new", "failed"} => pc' \in {"new", "failed"}
      BY <1>4 DEF Fatal, Read, Write, Shot, UutArms, UutTriggered, UutFinishes, Abort, Cut,
                  vars
    <2> QED BY <2>1, <2>2, <2>3 DEF Built
  <1> QED
    BY <1>1, <1>2, <1>3, <1>4 DEF Next, Program

-----------------------------------------------------------------------------
(* The other variables, kind by kind.                                       *)

Places ==
  /\ pc \in {"new", "data32", "transient", "set_arm", "wait_start", "wait_idle", "shot",
             "read", "write", "over", "failed"}
  /\ state \in {"state", "IDLE", "ARM", "RUN"} /\ uut \in {"IDLE", "ARM", "RUN"}
Flags ==
  /\ long32 \in BOOLEAN /\ arming \in BOOLEAN /\ aborted \in BOOLEAN /\ cut \in BOOLEAN
  /\ short \in BOOLEAN
Counts ==
  nbuf \in 0..BufLen /\ nread \in 0..Bytes /\ nfile \in 0..nread /\ shots \in Nat

\* The type invariant, kind by kind of variable.
LEMMA TypeByKind == TypeOK <=> Places /\ Flags /\ Counts
  BY Zenon DEF TypeOK, Places, Flags, Counts

\* A step keeps the types of places.
LEMMA PlacesStep ==
  ASSUME Places, [Next]_vars
  PROVE  Places'
  <1>1. CASE Program \/ Fatal
    BY <1>1
    DEF Places, Program, Fatal, Construct, GetData32, SetTransient, SetArm, PollStart,
        PollIdle, GetShot, Read, Write, device
  <1>2. CASE Shot \/ Abort \/ Cut \/ UNCHANGED vars
    BY <1>2
    DEF Places, Shot, UutArms, UutTriggered, UutFinishes, Abort, Cut, vars, device
  <1> QED BY <1>1, <1>2 DEF Next

\* A step keeps the types of flags.
LEMMA FlagsStep ==
  ASSUME Flags, [Next]_vars
  PROVE  Flags'
  <1>1. CASE Program \/ Fatal
    BY <1>1, Zenon
    DEF Flags, Program, Fatal, Construct, GetData32, SetTransient, SetArm, PollStart,
        PollIdle, GetShot, Read, Write, copy, device
  <1>2. CASE Shot \/ Abort \/ Cut \/ UNCHANGED vars
    BY <1>2, Zenon
    DEF Flags, Shot, UutArms, UutTriggered, UutFinishes, Abort, Cut, vars, copy, device
  <1> QED BY <1>1, <1>2, Zenon DEF Next

\* A read and the write behind it keep the file level with what was read, and a
\* write that comes back short leaves it behind for good.
LEMMA CopyStep ==
  ASSUME TypeOK, CopyInv, UploadsAll, [Next]_vars
  PROVE  Counts' /\ CopyInv' /\ UploadsAll'
  <1> USE UploadAssumption
  <1>0. Counts /\ Flags /\ Size \in {2, 8}
    BY TypeByKind, GotIsWhole
  <1>1. CASE Read
    <2>1. /\ nbuf' = Got /\ nread' = nread + Got * Size /\ nfile' = nfile /\ shots' = shots
          /\ pc = "read" /\ pc' = IF Got > 0 THEN "write" ELSE "over"
          /\ Size' = Size /\ cut' = cut /\ short' = short
      BY <1>1 DEF Read, GoesOn, device, Size
    <2>2. Got \in 0..BufLen /\ Got * Size \in Nat /\ nread + Got * Size <= Bytes
      BY GotIsWhole
    <2>3. nfile <= nread /\ (~short => nfile = nread)
      BY <1>0, <2>1 DEF CopyInv, Pending, Counts
    <2>4. Counts'
      BY <1>0, <2>1, <2>2 DEF Counts
    <2>5. CASE Got > 0
      <3>1. Pending' = Got * Size /\ pc' = "write"
        BY <2>1, <2>5 DEF Pending
      <3>2. CopyInv'
        BY <1>0, <2>1, <2>2, <2>3, <3>1 DEF CopyInv, Counts
      <3>3. UploadsAll'
        BY <3>1 DEF UploadsAll
      <3> QED BY <2>4, <3>2, <3>3
    <2>6. CASE Got = 0
      <3>1. pc' = "over" /\ nread' = nread /\ Pending' = 0
        BY <1>0, <2>1, <2>6 DEF Counts, Pending
      <3>2. cut \/ Bytes - nread < Size
        BY <2>6, GotIsWhole
      <3>3. UploadsAll'
        BY <2>1, <2>3, <3>1, <3>2, Zenon DEF UploadsAll
      <3>4. CopyInv'
        BY <1>0, <2>1, <2>3, <3>1 DEF CopyInv, Counts
      <3> QED BY <2>4, <3>3, <3>4
    <2> QED BY <2>2, <2>5, <2>6
  <1>2. CASE Write
    <2>1. /\ nread' = nread /\ nbuf' = nbuf /\ shots' = shots
          /\ pc = "write" /\ pc' = "read"
      BY <1>2 DEF Write, device
    <2>2. Pending = nbuf * Size /\ Pending' = 0 /\ nbuf * Size \in Nat
      BY <1>0, <2>1 DEF Pending, Counts
    <2>3. UploadsAll'
      BY <2>1 DEF UploadsAll
    <2>4. CASE nfile' = nfile + nbuf * Size /\ short' = short
      BY <1>0, <2>1, <2>2, <2>3, <2>4 DEF Counts, CopyInv
    <2>5. CASE short' = TRUE /\ \E n \in 0..(nbuf * Size - 1) : nfile' = nfile + n
      BY <1>0, <2>1, <2>2, <2>3, <2>5 DEF Counts, CopyInv
    <2> QED BY <1>2, <2>4, <2>5 DEF Write, Written
  <1>3. CASE Construct \/ GetData32 \/ SetTransient \/ SetArm \/ PollStart \/ PollIdle
             \/ GetShot \/ Fatal
    <2>1. UNCHANGED <<nbuf, nread, nfile, short, shots>>
      BY <1>3 DEF Construct, GetData32, SetTransient, SetArm, PollStart, PollIdle, GetShot,
                  Fatal, copy, device
    <2>2. pc # "write" /\ pc' # "write" /\ (pc' = "over" => ~Uploads)
      BY <1>3 DEF Construct, GetData32, SetTransient, SetArm, PollStart, PollIdle, GetShot,
                  Fatal
    <2>3. UploadsAll'
      BY <2>2, Zenon DEF UploadsAll
    <2> QED BY <1>0, <2>1, <2>2, <2>3 DEF Counts, CopyInv, Pending
  <1>4. CASE Shot \/ Abort \/ Cut \/ UNCHANGED vars
    <2>1. UNCHANGED <<pc, long32, nbuf, nread, nfile, short>>
      BY <1>4 DEF Shot, UutArms, UutTriggered, UutFinishes, Abort, Cut, vars, copy
    <2>2. shots' \in {shots, shots + 1} /\ (cut' = cut \/ cut' = TRUE)
      BY <1>0, <1>4 DEF Shot, UutArms, UutTriggered, UutFinishes, Abort, Cut, vars, device, Counts
    <2>3. Size' = Size
      BY <2>1 DEF Size
    <2>4. UploadsAll'
      <3>1. CASE cut' = TRUE
        BY <2>1, <2>3, <3>1, Zenon DEF UploadsAll
      <3>2. CASE cut' = cut
        BY <2>1, <2>3, <3>2, Zenon DEF UploadsAll
      <3> QED BY <2>2, <3>1, <3>2
    <2>5. CopyInv'
      BY <2>1, <2>3 DEF CopyInv, Pending
    <2>6. Counts'
      BY <1>0, <2>1, <2>2 DEF Counts
    <2> QED BY <2>4, <2>5, <2>6
  <1> QED BY <1>1, <1>2, <1>3, <1>4 DEF Next, Program

\* The shot goes its way, and the program sees it go.
LEMMA ShotStep ==
  ASSUME TypeOK, ShotInv, [Next]_vars
  PROVE  ShotInv'
  <1>0. Places /\ Flags /\ Counts
    BY TypeByKind
  <1>1. CASE aborted
    <2>1. aborted' = aborted \/ aborted' = TRUE
      BY DEF Next, Program, Construct, GetData32, SetTransient, SetArm, PollStart, PollIdle,
             GetShot, Read, Write, Fatal, Shot, UutArms, UutTriggered, UutFinishes, Abort,
             Cut, vars, device
    <2> QED BY <1>1, <2>1, Zenon DEF ShotInv
  <1>2. CASE ~aborted
    <2>0. /\ pc \in {"new", "data32", "transient", "set_arm"} =>
               ~arming /\ uut = "IDLE" /\ shots = 0
          /\ arming => uut = "IDLE" /\ shots = 0
          /\ uut # "IDLE" => shots = 0
          /\ shots \in {0, 1}
          /\ pc = "wait_idle" => ~arming /\ (uut # "IDLE" \/ shots = 1)
          /\ pc \in Uploading => shots = 1
      BY <1>2, Zenon DEF ShotInv
    <2>1. CASE Construct \/ GetData32 \/ SetTransient \/ Fatal
      BY <2>0, <2>1 DEF Construct, GetData32, SetTransient, Fatal, device, ShotInv, Uploading
    <2>2. CASE SetArm
      BY <2>0, <2>2 DEF SetArm, ShotInv, Uploading
    <2>3. CASE PollStart
      BY <2>0, <2>3 DEF PollStart, Started, device, ShotInv, Uploading
    <2>4. CASE PollIdle
      BY <2>0, <2>4 DEF PollIdle, Finished, device, ShotInv, Uploading
    <2>5. CASE GetShot \/ Read \/ Write
      BY <2>0, <2>5 DEF GetShot, Read, Write, device, ShotInv, Uploading
    <2>6. CASE UutArms
      BY <2>0, <2>6 DEF UutArms, ShotInv, Uploading
    <2>7. CASE UutTriggered
      BY <2>0, <2>7 DEF UutTriggered, ShotInv, Uploading
    <2>8. CASE UutFinishes
      BY <2>0, <2>8 DEF UutFinishes, ShotInv, Uploading
    <2>9. CASE Abort
      BY <2>9, Zenon DEF Abort, ShotInv
    <2>10. CASE Cut \/ UNCHANGED vars
      BY <2>0, <2>10 DEF Cut, vars, device, ShotInv, Uploading
    <2> QED
      BY <2>1, <2>2, <2>3, <2>4, <2>5, <2>6, <2>7, <2>8, <2>9, <2>10
      DEF Next, Program, Shot
  <1> QED BY <1>0, <1>1, <1>2 DEF Flags

\* Every step keeps the invariant.
LEMMA StepInv == IInv /\ [Next]_vars => IInv'
  <1> SUFFICES ASSUME IInv, [Next]_vars PROVE IInv'
    OBVIOUS
  <1>1. Places /\ Flags /\ TypeOK /\ CopyInv /\ ShotInv /\ UploadsAll /\ MapInv(UsedSites) /\ Built
    BY TypeByKind DEF IInv
  <1>2. Counts' /\ CopyInv' /\ UploadsAll'
    BY <1>1, CopyStep
  <1>3. Places' /\ Flags'
    BY <1>1, PlacesStep, FlagsStep
  <1>4. TypeOK'
    BY <1>2, <1>3, Zenon DEF TypeOK, Places, Flags, Counts
  <1>5. ShotInv'
    BY <1>1, ShotStep
  <1>6. MapInv(UsedSites)' /\ Built'
    BY <1>1, MapStep
  <1> QED BY <1>2, <1>4, <1>5, <1>6 DEF IInv

-----------------------------------------------------------------------------
(* The theorems.                                                            *)

\* The invariant from which the other theorems follow: what has been read and
\* written of the shot, how far the shot is when the program knows something of
\* it, and which clients the map leads to.
THEOREM Inductive == Spec => []IInv
  BY InitInv, StepInv, PTL DEF Spec

\* Every variable keeps its type, and the file never has more than was read
\* (acq400_upload.cpp), for every size of the shot and of the buffer.
THEOREM TypeCorrect == Spec => []TypeOK
  <1>1. IInv => TypeOK
    BY DEF IInv
  <1> QED BY <1>1, Inductive, PTL

\* However the polls of capture() fall between what the UUT does, what is
\* uploaded is the shot that was armed, unless somebody aborts it
\* (acq400_upload.cpp:61-88).
THEOREM OwnShot == Spec => []UploadsOwnShot
  <1>1. IInv => UploadsOwnShot
    BY DEF IInv, TypeOK, ShotInv, UploadsOwnShot, Uploading
  <1> QED BY <1>1, Inductive, PTL

\* upload() ends with the shot read to its last whole element, unless the
\* connection broke, and with all that was read in the file, unless an fwrite came
\* back short, whatever BUFLEN is and wherever the last fread stops
\* (acq400_upload.cpp:90-99).
THEOREM WholeShot == Spec => []UploadsAll
  <1>1. IInv => UploadsAll
    BY DEF IInv
  <1> QED BY <1>1, Inductive, PTL

\* For every list of sites, the lazily connected map never has two clients of
\* one site in use (acq400_chapi.cpp:183-282).
THEOREM OneClient == Spec => []OneClientPerSite
  <1>1. IInv => OneClientPerSite
    BY MapGivesOneClient DEF IInv
  <1> QED BY <1>1, Inductive, PTL

\* An Acq400 in the hands of any program: it is constructed, and then given
\* commands for sites in any order.
AnyCommand(names) ==
  \/ clients = <<>> /\ \E list \in SiteLists : New(list)
  \/ clients # <<>> /\ \E site \in names : Use(site)

\* No program can make set and get connect a second client to a site, whatever
\* sites it names and whether or not the UUT lists them: the one exception is
\* site 0, when the list has it (acq400_chapi.cpp:183-282).
THEOREM OneClientInAnyProgram ==
  ASSUME NEW names, "0" \in names
  PROVE  Unbuilt /\ [][AnyCommand(names)]_acq400Vars => []OneClientPerSite
  <1> DEFINE Map == MapInv(names)
  <1>1. Unbuilt => Map
    BY UnbuiltMap
  <1>2. ASSUME Map, AnyCommand(names)
        PROVE  Map'
    <2>1. ASSUME NEW list \in SiteLists, New(list)
          PROVE  Map'
      BY <2>1, NewMap
    <2>2. ASSUME clients # <<>>, NEW site \in names, Use(site)
          PROVE  Map'
      BY <1>2, <2>2, UseMap
    <2> HIDE DEF Map
    <2> QED BY <1>2, <2>1, <2>2 DEF AnyCommand
  <1>3. Map /\ UNCHANGED acq400Vars => Map'
    BY DEF acq400Vars, MapInv
  <1>4. Map => OneClientPerSite
    BY MapGivesOneClient
  <1> HIDE DEF Map
  <1>5. Map /\ [AnyCommand(names)]_acq400Vars => Map'
    BY <1>2, <1>3
  <1> QED BY <1>1, <1>4, <1>5, PTL
=============================================================================
