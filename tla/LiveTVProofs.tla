---------------------------- MODULE LiveTVProofs ----------------------------
(***************************************************************************)
(* Live TV, for any number of loads, restarts, failures, pods and blocks:  *)
(* the guide PMS reads is one load, all of it, as long as no file's number *)
(* misleads RecoverLoads; and the converger never writes into a load that  *)
(* it started itself.                                                      *)
(*                                                                         *)
(* For the guide, what has to be known is whose rows the staging schema    *)
(* holds whenever its inode answers for a file: for the load file's, they  *)
(* are that load's and, once PMS asks for the rename, all of them; for the *)
(* guide file's, they are the load's that was renamed onto it.  A schema   *)
(* whose inode answers for neither may hold anything: nobody swaps it in.  *)
(***************************************************************************)
EXTENDS LiveTV, Guides, FiniteSetTheorems, TLAPS

Files == [kind : {"none", "template", "shadow", "sqlite"}, load : Nat, modified : Nat,
          wal : Nat, inode : Nat]
Stagings == [state : {"absent", "clean", "loading"}, inode : Nat, rows : SUBSET Nat,
             done : SUBSET Nat]
Lives == [made : BOOLEAN, rows : SUBSET Nat, done : SUBSET Nat, at : Nat]

\* The part of the type invariant that the argument needs.
GuideTypes ==
  /\ guideFile \in Files /\ loadFile \in Files
  /\ nextSchema \in Stagings /\ liveSchema \in Lives
  /\ clock \in Nat /\ begun \in Nat

InLoad == nextSchema.state = "loading"

\* Rows and a number are in the staging schema of a load only.
Bare == ~InLoad => nextSchema.inode = 0 /\ nextSchema.rows = {} /\ nextSchema.done = {}

\* PMS is given an answer about a template; no two files share a number.
Apart == /\ plex = "opening" => loadFile.kind = "template"
         /\ loadFile.inode # 0 => loadFile.inode # guideFile.inode

\* The rows of a load under way are its own.
OwnRows ==
  InLoad /\ IsShadow(loadFile) /\ nextSchema.inode = loadFile.inode
    => nextSchema.done \subseteq nextSchema.rows /\ nextSchema.rows \subseteq {loadFile.load}

\* A staged load whose rename PMS asks for is in the schema, all of it.
AllThere ==
  InLoad /\ IsShadow(loadFile) /\ plex \in {"asking", "renaming"}
    => nextSchema.inode = loadFile.inode /\ nextSchema.rows = nextSchema.done

\* So is one that was renamed onto the guide.
RenamedIsThere ==
  InLoad /\ nextSchema.inode # 0 /\ IsShadow(guideFile) /\ nextSchema.inode = guideFile.inode
    => nextSchema.rows = nextSchema.done /\ nextSchema.rows \subseteq {guideFile.load}

Served(s) == s.rows = s.done /\ \E n : s.rows \subseteq {n}

GuideInv == /\ GuideTypes /\ Bare /\ Apart
            /\ OwnRows /\ AllThere /\ RenamedIsThere /\ Served(liveSchema)

----------------------------------------------------------------------------
(* A new file's number. *)

LEMMA Fresh ==
  ASSUME guideFile \in Files, loadFile \in Files
  PROVE  /\ freshInode \in Nat /\ freshInode # 0
         /\ freshInode # guideFile.inode /\ freshInode # loadFile.inode
<1> DEFINE S == {guideFile.inode, loadFile.inode}
           IsFree(n) == n \notin S /\ \A k \in 1..(n - 1) : k \in S
<1>1. guideFile.inode \in Nat /\ loadFile.inode \in Nat
  BY DEF Files
<1>2. \E n \in 1..3 : IsFree(n)
  <2>1. CASE 1 \notin S
    <3>1. IsFree(1) BY <2>1
    <3> QED BY <3>1
  <2>2. CASE 1 \in S /\ 2 \notin S
    <3>1. \A k \in 1..(2 - 1) : k = 1 OBVIOUS
    <3>2. IsFree(2) BY <2>2, <3>1
    <3> QED BY <3>2
  <2>3. CASE 1 \in S /\ 2 \in S
    <3>1. 3 \notin S BY <2>3, <1>1
    <3>2. \A k \in 1..(3 - 1) : k = 1 \/ k = 2 OBVIOUS
    <3>3. IsFree(3) BY <2>3, <3>1, <3>2
    <3> QED BY <3>3
  <2> QED BY <2>1, <2>2, <2>3
<1>3. freshInode = CHOOSE n \in 1..3 : IsFree(n)
  BY DEF freshInode
<1>4. freshInode \in 1..3 /\ IsFree(freshInode)
  BY <1>2, <1>3
<1> QED BY <1>4

LEMMA ServedIsWhole == Served(liveSchema) => GuideWhole
<1> SUFFICES ASSUME Served(liveSchema) PROVE GuideWhole
  OBVIOUS
<1>1. PICK n : liveSchema.rows \subseteq {n}
  BY DEF Served
<1>2. liveSchema.rows = {} \/ liveSchema.rows = {n}
  BY <1>1
<1>3. Cardinality(liveSchema.rows) =< 1
  BY <1>2, FS_EmptySet, FS_Singleton
<1> QED BY <1>3 DEF Served, GuideWhole

----------------------------------------------------------------------------
(* The steps that stage no load and fill none. *)

LEMMA SchemaTypes ==
  /\ Absent \in Stagings /\ CloneSchema \in Stagings /\ NoSchema \in Lives
  /\ NoFile \in Files /\ NoFile.inode = 0 /\ NoFile.kind = "none"
  /\ Absent.state # "loading" /\ Absent.inode = 0 /\ Absent.rows = {} /\ Absent.done = {}
  /\ CloneSchema.state # "loading" /\ CloneSchema.inode = 0
  /\ CloneSchema.rows = {} /\ CloneSchema.done = {}
  BY DEF Absent, CloneSchema, NoSchema, NoFile, Stagings, Lives, Files

SameFile(f, g) == f.kind = g.kind /\ f.load = g.load /\ f.inode = g.inode

LEMMA GuideStays ==
  ASSUME GuideInv, GuideTypes', Served(liveSchema'),
         nextSchema' \in {nextSchema, Absent, CloneSchema},
         SameFile(guideFile', guideFile), loadFile' \in {loadFile, NoFile},
         plex' \in {"asking", "renaming"} => plex \in {"asking", "renaming"},
         plex' = "opening" => plex = "opening" /\ loadFile' = loadFile
  PROVE  GuideInv'
<1>1. CASE nextSchema' # nextSchema
  <2>1. ~InLoad' /\ Bare'
    BY <1>1, SchemaTypes DEF InLoad, Bare
  <2>2. Apart'
    BY SchemaTypes DEF GuideInv, Apart, SameFile
  <2>3. OwnRows' /\ AllThere' /\ RenamedIsThere'
    BY <2>1 DEF OwnRows, AllThere, RenamedIsThere
  <2> QED BY <2>1, <2>2, <2>3 DEF GuideInv, Served
<1>2. CASE nextSchema' = nextSchema
  <2>1. Bare' /\ (InLoad' <=> InLoad)
    BY <1>2 DEF GuideInv, InLoad, Bare
  <2>2. Apart'
    BY SchemaTypes DEF GuideInv, Apart, SameFile
  <2>3. IsShadow(loadFile') => loadFile' = loadFile
    BY SchemaTypes DEF IsShadow
  <2>4. OwnRows'
    BY <1>2, <2>1, <2>3 DEF GuideInv, OwnRows, IsShadow
  <2>5. AllThere'
    BY <1>2, <2>1, <2>3 DEF GuideInv, AllThere, IsShadow
  <2>6. RenamedIsThere'
    BY <1>2, <2>1 DEF GuideInv, RenamedIsThere, IsShadow, SameFile
  <2> QED BY <2>1, <2>2, <2>4, <2>5, <2>6 DEF GuideInv, Served
<1> QED BY <1>1, <1>2

\* Whatever is swapped in is the guide; the staging schema is gone with it.
LEMMA SwapServes ==
  ASSUME NEW rows, NEW done, NEW at, swapGuide(rows, done, at),
         rows \in SUBSET Nat, done \in SUBSET Nat, at \in Nat,
         rows = done, \E n : rows \subseteq {n}
  PROVE  liveSchema' \in Lives /\ Served(liveSchema') /\ nextSchema' = Absent
<1>1. liveSchema' = [made |-> TRUE, rows |-> rows, done |-> done, at |-> at]
      /\ nextSchema' = Absent
  BY DEF swapGuide
<1> QED BY <1>1 DEF Lives, Served

LEMMA ModifiedType == \A f \in Files : guideModified(f) \in Nat
  BY DEF Files, guideModified

\* A copy of a file is the guide; a failed one leaves the guide alone.
LEMMA ImportServes ==
  ASSUME GuideInv, NEW f \in Files, ImportSkips(f) \/ ImportCopies(f) \/ ImportFails(f)
  PROVE  /\ liveSchema' \in Lives /\ Served(liveSchema')
         /\ nextSchema' \in {nextSchema, Absent}
<1>1. CASE ImportSkips(f)
  BY <1>1 DEF ImportSkips, GuideInv, GuideTypes, Served
<1>2. CASE ImportCopies(f)
  <2>1. swapGuide({f.load}, {f.load}, guideModified(f))
    BY <1>2 DEF ImportCopies
  <2>2. f.load \in Nat /\ guideModified(f) \in Nat
    BY ModifiedType DEF Files
  <2>3. {f.load} \in SUBSET Nat /\ \E n : {f.load} \subseteq {n}
    BY <2>2
  <2> QED BY <2>1, <2>2, <2>3, SwapServes
<1>3. CASE ImportFails(f)
  BY <1>3 DEF ImportFails, GuideInv, GuideTypes, Served
<1> QED BY <1>1, <1>2, <1>3

LEMMA StagingTypes ==
  ASSUME GuideTypes, nextSchema' \in {nextSchema, Absent, CloneSchema}
  PROVE  nextSchema' \in Stagings
  BY SchemaTypes DEF GuideTypes

LEMMA swapLoadStep == ASSUME GuideInv, swapLoad PROVE GuideInv'
<1>1. /\ plex = "asking" /\ plex' = "renaming" /\ guideFile' = guideFile
      /\ loadFile' = loadFile /\ begun' = begun
  BY DEF swapLoad, Answered
<1>2. /\ liveSchema' \in Lives /\ Served(liveSchema')
      /\ nextSchema' \in {nextSchema, Absent} /\ clock' \in Nat
  <2>1. CASE IsShadow(loadFile) /\ SwapLoaded
    <3>1. /\ nextSchema.rows \in SUBSET Nat /\ nextSchema.done \in SUBSET Nat
          /\ clock + 1 \in Nat
      BY DEF GuideInv, GuideTypes, Stagings
    <3>2. /\ nextSchema.rows = nextSchema.done /\ \E n : nextSchema.rows \subseteq {n}
      BY <1>1, <2>1 DEF SwapLoaded, GuideInv, AllThere, OwnRows, InLoad
    <3>3. swapGuide(nextSchema.rows, nextSchema.done, clock + 1) /\ clock' = clock + 1
      BY <2>1 DEF SwapLoaded
    <3> QED BY <3>1, <3>2, <3>3, SwapServes
  <2>2. CASE UNCHANGED <<liveSchema, nextSchema, clock>>
    BY <2>2 DEF GuideInv, GuideTypes, Served
  <2>3. CASE (ImportSkips(loadFile) \/ ImportCopies(loadFile)) /\ clock' = clock
    BY <2>3, ImportServes DEF GuideInv, GuideTypes
  <2> QED BY <2>1, <2>2, <2>3 DEF swapLoad
<1>3. GuideTypes'
  BY <1>1, <1>2, StagingTypes DEF GuideInv, GuideTypes
<1> QED BY <1>1, <1>2, <1>3, GuideStays DEF SameFile

LEMMA swapLoadFailsStep == ASSUME GuideInv, swapLoadFails PROVE GuideInv'
<1>1. /\ plex = "asking" /\ plex' = "renaming" /\ guideFile' = guideFile
      /\ loadFile' = loadFile /\ begun' = begun /\ clock' = clock
  BY DEF swapLoadFails, Answered
<1>2. /\ liveSchema' \in Lives /\ Served(liveSchema')
      /\ nextSchema' \in {nextSchema, Absent}
  <2>1. CASE ImportFails(loadFile)
    BY <2>1, ImportServes DEF GuideInv, GuideTypes
  <2>2. CASE UNCHANGED <<liveSchema, nextSchema>>
    BY <2>2 DEF GuideInv, GuideTypes, Served
  <2> QED BY <2>1, <2>2 DEF swapLoadFails
<1>3. GuideTypes'
  BY <1>1, <1>2, StagingTypes DEF GuideInv, GuideTypes
<1> QED BY <1>1, <1>2, <1>3, GuideStays DEF SameFile

LEMMA copyGuidesStep == ASSUME GuideInv, copyGuides PROVE GuideInv'
<1>1. /\ plex # "down" /\ plex' = plex /\ guideFile' = guideFile
      /\ loadFile' = loadFile /\ begun' = begun /\ clock' = clock
  BY DEF copyGuides
<1>2. /\ liveSchema' \in Lives /\ Served(liveSchema')
      /\ nextSchema' \in {nextSchema, Absent}
  BY ImportServes DEF copyGuides, GuideInv, GuideTypes
<1>3. GuideTypes'
  BY <1>1, <1>2, StagingTypes DEF GuideInv, GuideTypes
<1> QED BY <1>1, <1>2, <1>3, GuideStays DEF SameFile

LEMMA RecoverStep == ASSUME GuideInv, ~Mistaken, RecoverLoads PROVE GuideInv'
<1>1. /\ plex # "down" /\ plex' = plex /\ guideFile' = guideFile
      /\ loadFile' = loadFile /\ begun' = begun /\ Recoverable
  BY DEF RecoverLoads
<1>2. /\ liveSchema' \in Lives /\ Served(liveSchema')
      /\ nextSchema' \in {nextSchema, Absent, CloneSchema} /\ clock' \in Nat
  <2>1. CASE Renamed /\ SwapLoaded
    <3>1. /\ nextSchema.rows \in SUBSET Nat /\ nextSchema.done \in SUBSET Nat
          /\ clock + 1 \in Nat
      BY DEF GuideInv, GuideTypes, Stagings
    <3>2. IsShadow(guideFile)
      BY <1>1, <2>1 DEF Mistaken
    <3>3. /\ nextSchema.rows = nextSchema.done /\ nextSchema.rows \subseteq {guideFile.load}
      BY <1>1, <2>1, <3>2 DEF Recoverable, Renamed, GuideInv, RenamedIsThere, InLoad
    <3>4. swapGuide(nextSchema.rows, nextSchema.done, clock + 1) /\ clock' = clock + 1
      BY <2>1 DEF SwapLoaded
    <3>5. \E n : nextSchema.rows \subseteq {n}
      BY <3>3
    <3> QED BY <3>1, <3>3, <3>4, <3>5, SwapServes
  <2>2. CASE /\ nextSchema' = CloneSchema
             /\ UNCHANGED <<liveSchema, clock>>
    BY <2>2 DEF GuideInv, GuideTypes, Served
  <2> QED BY <2>1, <2>2 DEF RecoverLoads
<1>3. GuideTypes'
  BY <1>1, <1>2, StagingTypes DEF GuideInv, GuideTypes
<1> QED BY <1>1, <1>2, <1>3, GuideStays DEF SameFile

LEMMA QuietStep ==
  ASSUME GuideInv, FillFails \/ PrepareStaging \/ RecoverFails \/ PMSGoes \/ Unlist
  PROVE  GuideInv'
<1>1. /\ guideFile' = guideFile /\ loadFile' \in {loadFile, NoFile}
      /\ plex' \in {"asking", "renaming"} => plex' = plex
      /\ plex' = "opening" => plex = "opening" /\ loadFile' = loadFile
      /\ liveSchema' = liveSchema /\ nextSchema' \in {nextSchema, Absent, CloneSchema}
      /\ clock' = clock /\ begun' = begun
  BY DEF FillFails, PrepareStaging, RecoverFails, PMSGoes, Unlist
<1>2. Served(liveSchema')
  BY <1>1 DEF GuideInv, Served
<1>3. GuideTypes'
  BY <1>1, StagingTypes, SchemaTypes DEF GuideInv, GuideTypes
<1> QED BY <1>1, <1>2, <1>3, GuideStays DEF SameFile

LEMMA OpenGuideStep == ASSUME GuideInv, OpenGuide PROVE GuideInv'
<1>1. /\ guideFile' = [guideFile EXCEPT !.wal = clock + 1] /\ clock' = clock + 1
      /\ UNCHANGED <<loadFile, plex, liveSchema, nextSchema, begun>>
  BY DEF OpenGuide
<1>2. guideFile \in Files /\ clock + 1 \in Nat
  BY DEF GuideInv, GuideTypes
<1>3. guideFile' \in Files /\ SameFile(guideFile', guideFile)
  BY <1>1, <1>2 DEF Files, SameFile
<1>4. Served(liveSchema')
  BY <1>1 DEF GuideInv, Served
<1>5. GuideTypes'
  BY <1>1, <1>2, <1>3 DEF GuideInv, GuideTypes
<1> QED BY <1>1, <1>3, <1>4, <1>5, GuideStays

(* A start takes the staging schema away, and makes a new guide file.      *)
LEMMA PreparedStep ==
  ASSUME GuideInv, NEW live \in Lives, Served(live), Prepared(live),
         plex' = "idle", begun' = begun
  PROVE  GuideInv'
<1>1. /\ loadFile' = (IF inLibrary THEN NoFile ELSE loadFile)
      /\ guideFile' = (IF inLibrary
                       THEN [kind |-> "shadow", load |-> 0, modified |-> clock + 1, wal |-> 0,
                             inode |-> freshInode]
                       ELSE guideFile)
      /\ liveSchema' = (IF inLibrary THEN [live EXCEPT !.made = TRUE] ELSE NoSchema)
      /\ clock' = clock + 1 /\ nextSchema' = Absent
  BY DEF Prepared
<1>2. loadFile \in Files /\ guideFile \in Files /\ clock + 1 \in Nat
  BY DEF GuideInv, GuideTypes
<1>3. loadFile' \in Files /\ guideFile' \in Files
  BY <1>1, <1>2, Fresh, SchemaTypes DEF Files
<1>4. liveSchema' \in Lives /\ Served(liveSchema')
  <2>1. NoSchema.rows = {} /\ NoSchema.done = {}
    BY DEF NoSchema
  <2>2. [live EXCEPT !.made = TRUE] \in Lives /\ Served([live EXCEPT !.made = TRUE])
    BY DEF Lives, Served
  <2> QED BY <1>1, <2>1, <2>2, SchemaTypes DEF Served
<1>5. GuideTypes'
  BY <1>1, <1>2, <1>3, <1>4, SchemaTypes DEF GuideInv, GuideTypes
<1>6. ~InLoad' /\ Bare'
  BY <1>1, SchemaTypes DEF InLoad, Bare
<1>7. Apart'
  BY <1>1, SchemaTypes DEF GuideInv, Apart
<1> QED BY <1>4, <1>5, <1>6, <1>7 DEF GuideInv, OwnRows, AllThere, RenamedIsThere, Served

LEMMA PMSComesStep == ASSUME GuideInv, PMSComes PROVE GuideInv'
<1>1. plex' = "idle" /\ begun' = begun
  BY DEF PMSComes
<1>2. CASE PrepareGuides
  <2>1. liveSchema \in Lives /\ Served(liveSchema) /\ guideFile \in Files
    BY DEF GuideInv, GuideTypes
  <2>2. CASE Prepared(liveSchema)
    BY <1>1, <2>1, <2>2, PreparedStep
  <2>3. CASE Prepared([made |-> TRUE, rows |-> {guideFile.load}, done |-> {guideFile.load},
                       at |-> guideModified(guideFile)])
    <3> DEFINE live == [made |-> TRUE, rows |-> {guideFile.load}, done |-> {guideFile.load},
                        at |-> guideModified(guideFile)]
    <3>1. guideFile.load \in Nat /\ guideModified(guideFile) \in Nat
      BY <2>1, ModifiedType DEF Files
    <3>2. live \in Lives /\ Served(live)
      BY <3>1 DEF Lives, Served
    <3> QED BY <1>1, <2>3, <3>2, PreparedStep
  <2> QED BY <1>2, <2>2, <2>3 DEF PrepareGuides
<1>3. CASE UNCHANGED <<liveSchema, nextSchema, oldSchema, guideFile, loadFile, clock, served>>
  <2>1. GuideTypes' /\ Served(liveSchema')
    BY <1>1, <1>3 DEF GuideInv, GuideTypes, Served
  <2> QED BY <1>1, <1>3, <2>1, GuideStays DEF SameFile
<1> QED BY <1>2, <1>3 DEF PMSComes

----------------------------------------------------------------------------
(* The steps of a load: begun, staged or not, filled, renamed.             *)

LEMMA BeginLoadStep == ASSUME GuideInv, BeginLoad PROVE GuideInv'
<1>1. /\ loadFile' = [kind |-> "template", load |-> begun + 1, modified |-> clock, wal |-> 0,
                      inode |-> freshInode]
      /\ begun' = begun + 1 /\ plex' \in {"opening", "filling"}
      /\ UNCHANGED <<liveSchema, nextSchema, guideFile, clock>>
  BY DEF BeginLoad
<1>2. loadFile \in Files /\ guideFile \in Files /\ begun + 1 \in Nat /\ clock \in Nat
  BY DEF GuideInv, GuideTypes
<1>3. loadFile' \in Files
  BY <1>1, <1>2, Fresh DEF Files
<1>4. GuideTypes'
  BY <1>1, <1>2, <1>3 DEF GuideInv, GuideTypes
<1>5. Apart'
  BY <1>1, <1>2, Fresh DEF Apart
<1>6. ~IsShadow(loadFile')
  BY <1>1 DEF IsShadow
<1>7. Bare' /\ RenamedIsThere' /\ Served(liveSchema')
  BY <1>1 DEF GuideInv, Bare, RenamedIsThere, InLoad, Served, IsShadow
<1> QED BY <1>4, <1>5, <1>6, <1>7 DEF GuideInv, OwnRows, AllThere, IsShadow, Served

\* A staging schema that is about to be loaded holds nothing.
LEMMA StagedIsBare ==
  ASSUME GuideInv
  PROVE  /\ StagedSchema \in Stagings /\ StagedSchema.inode = 0
         /\ StagedSchema.rows = {} /\ StagedSchema.done = {} /\ StagedSchema.state # "loading"
<1>1. CASE nextSchema.state = "clean"
  BY <1>1 DEF StagedSchema, GuideInv, GuideTypes, Bare, InLoad
<1>2. CASE nextSchema.state # "clean"
  BY <1>2, SchemaTypes DEF StagedSchema
<1> QED BY <1>1, <1>2

\* The shadow is put in the template's place: the schema that is marked holds
\* nothing, and the number it carries, if any, is the shadow's alone.
LEMMA ShadowPut ==
  ASSUME GuideInv, NEW m \in {0, freshInode},
         Opened([loadFile EXCEPT !.kind = "shadow", !.inode = freshInode],
                [StagedSchema EXCEPT !.state = "loading", !.inode = m])
  PROVE  GuideInv'
<1> DEFINE f == [loadFile EXCEPT !.kind = "shadow", !.inode = freshInode]
           n == [StagedSchema EXCEPT !.state = "loading", !.inode = m]
<1>1. /\ loadFile' = f /\ nextSchema' = n /\ plex' = "filling"
      /\ UNCHANGED <<liveSchema, guideFile, clock, begun>>
  BY DEF Opened
<1>2. loadFile \in Files /\ guideFile \in Files
  BY DEF GuideInv, GuideTypes
<1>3. f \in Files /\ f.inode = freshInode /\ f.load = loadFile.load
  BY <1>2, Fresh DEF Files
<1>4. /\ n \in Stagings /\ n.inode = m /\ n.rows = {} /\ n.done = {} /\ n.state = "loading"
  BY <1>2, Fresh, StagedIsBare DEF Stagings
<1>5. GuideTypes'
  BY <1>1, <1>3, <1>4 DEF GuideInv, GuideTypes
<1>6. Bare' /\ Apart'
  BY <1>1, <1>2, <1>3, <1>4, Fresh DEF Bare, InLoad, Apart
<1>7. OwnRows' /\ AllThere'
  BY <1>1, <1>3, <1>4 DEF OwnRows, AllThere
<1>8. RenamedIsThere'
  BY <1>1, <1>2, <1>4, Fresh DEF RenamedIsThere
<1> QED BY <1>1, <1>5, <1>6, <1>7, <1>8 DEF GuideInv, Served

LEMMA StageFailsStep == ASSUME GuideInv, StageFails PROVE GuideInv'
<1> DEFINE marked == [StagedSchema EXCEPT !.state = "loading"]
<1>1. /\ plex = "opening" /\ plex' = "filling" /\ loadFile' = loadFile
      /\ nextSchema' \in {nextSchema, Absent, StagedSchema, marked}
      /\ UNCHANGED <<liveSchema, guideFile, clock, begun>>
  BY DEF StageFails, Opened
<1>2. CASE nextSchema' \in {nextSchema, Absent, CloneSchema}
  <2>1. GuideTypes' /\ Served(liveSchema')
    BY <1>1, <1>2, StagingTypes DEF GuideInv, GuideTypes, Served
  <2> QED BY <1>1, <1>2, <2>1, GuideStays DEF SameFile
<1>3. CASE nextSchema' = marked
  <2>1. marked \in Stagings /\ marked.inode = 0 /\ marked.state = "loading"
    BY StagedIsBare DEF Stagings
  <2>2. GuideTypes'
    BY <1>1, <1>3, <2>1 DEF GuideInv, GuideTypes
  <2>3. ~IsShadow(loadFile')
    BY <1>1 DEF GuideInv, Apart, IsShadow
  <2>4. Bare' /\ Apart' /\ RenamedIsThere' /\ Served(liveSchema')
    BY <1>1, <1>3, <2>1 DEF GuideInv, Bare, InLoad, Apart, RenamedIsThere, Served
  <2> QED BY <2>2, <2>3, <2>4 DEF GuideInv, OwnRows, AllThere, IsShadow, Served
<1>4. StagedSchema \in {nextSchema, CloneSchema}
  BY DEF StagedSchema
<1> QED BY <1>1, <1>2, <1>3, <1>4

LEMMA FillBeginsStep == ASSUME GuideInv, FillBegins PROVE GuideInv'
<1> DEFINE n == [nextSchema EXCEPT !.rows = @ \cup {loadFile.load}]
<1>1. /\ plex = "filling" /\ IntoSchema /\ nextSchema' = n
      /\ UNCHANGED <<liveSchema, guideFile, loadFile, plex, clock, begun>>
  BY DEF FillBegins
<1>2. nextSchema \in Stagings /\ loadFile \in Files /\ guideFile \in Files
  BY DEF GuideInv, GuideTypes
<1>3. /\ n \in Stagings /\ n.state = nextSchema.state /\ n.inode = nextSchema.inode
      /\ n.rows = nextSchema.rows \cup {loadFile.load} /\ n.done = nextSchema.done
  BY <1>2 DEF Stagings, Files
<1> HIDE DEF n
<1>4. GuideTypes'
  BY <1>1, <1>3 DEF GuideInv, GuideTypes
<1>5. Bare' /\ Apart' /\ AllThere'
  BY <1>1, <1>3 DEF GuideInv, Bare, InLoad, Apart, AllThere, IntoSchema
<1>6. OwnRows'
  BY <1>1, <1>3 DEF GuideInv, OwnRows, InLoad, IntoSchema
<1>7. RenamedIsThere'
  BY <1>1, <1>3 DEF GuideInv, RenamedIsThere, Apart, IntoSchema
<1> QED BY <1>1, <1>4, <1>5, <1>6, <1>7 DEF GuideInv, Served

LEMMA FillEndsStep == ASSUME GuideInv, FillEnds PROVE GuideInv'
<1>1. /\ plex = "filling" /\ plex' = "asking"
      /\ UNCHANGED <<liveSchema, guideFile, begun>>
  BY DEF FillEnds
<1>2. nextSchema \in Stagings /\ loadFile \in Files /\ guideFile \in Files /\ clock \in Nat
  BY DEF GuideInv, GuideTypes
<1>3. CASE /\ IntoSchema /\ loadFile.load \in nextSchema.rows
           /\ nextSchema' = [nextSchema EXCEPT !.done = @ \cup {loadFile.load}]
           /\ UNCHANGED <<loadFile, clock>>
  <2> DEFINE n == [nextSchema EXCEPT !.done = @ \cup {loadFile.load}]
  <2>1. /\ n \in Stagings /\ n.state = nextSchema.state /\ n.inode = nextSchema.inode
        /\ n.done = nextSchema.done \cup {loadFile.load} /\ n.rows = nextSchema.rows
    BY <1>2 DEF Stagings, Files
  <2>2. nextSchema' = n
    BY <1>3
  <2> HIDE DEF n
  <2>3. GuideTypes'
    BY <1>1, <1>3, <2>1, <2>2 DEF GuideInv, GuideTypes
  <2>4. Bare' /\ Apart'
    BY <1>1, <1>3, <2>1, <2>2 DEF GuideInv, Bare, InLoad, Apart, IntoSchema
  <2>5. OwnRows' /\ AllThere'
    BY <1>3, <2>1, <2>2 DEF GuideInv, OwnRows, AllThere, InLoad, IntoSchema
  <2>6. RenamedIsThere'
    BY <1>1, <1>3, <2>1, <2>2 DEF GuideInv, RenamedIsThere, Apart, IntoSchema
  <2> QED BY <1>1, <2>3, <2>4, <2>5, <2>6 DEF GuideInv, Served
<1>4. CASE /\ ~IsShadow(loadFile)
           /\ loadFile' = [loadFile EXCEPT !.kind = "sqlite", !.modified = clock + 1]
           /\ clock' = clock + 1
           /\ UNCHANGED nextSchema
  <2> DEFINE f == [loadFile EXCEPT !.kind = "sqlite", !.modified = clock + 1]
  <2>1. clock + 1 \in Nat
    BY <1>2
  <2>2. f \in Files /\ f.kind = "sqlite" /\ f.inode = loadFile.inode
    BY <1>2, <2>1 DEF Files
  <2>3. loadFile' = f
    BY <1>4
  <2> HIDE DEF f
  <2>4. loadFile' \in Files /\ ~IsShadow(loadFile') /\ loadFile'.inode = loadFile.inode
        /\ clock' \in Nat
    BY <1>4, <2>1, <2>2, <2>3 DEF IsShadow
  <2>5. GuideTypes'
    BY <1>1, <1>4, <2>4 DEF GuideInv, GuideTypes
  <2>6. Bare' /\ Apart' /\ RenamedIsThere' /\ Served(liveSchema')
    BY <1>1, <1>4, <2>4 DEF GuideInv, Bare, InLoad, Apart, RenamedIsThere, Served
  <2> QED BY <2>4, <2>5, <2>6 DEF GuideInv, OwnRows, AllThere, IsShadow, Served
<1> QED BY <1>3, <1>4 DEF FillEnds

LEMMA RenameStep == ASSUME GuideInv, Rename PROVE GuideInv'
<1>1. /\ plex = "renaming" /\ plex' = "idle"
      /\ guideFile' = [loadFile EXCEPT !.wal = 0] /\ loadFile' = NoFile
      /\ UNCHANGED <<liveSchema, nextSchema, clock, begun>>
  BY DEF Rename
<1>2. loadFile \in Files
  BY DEF GuideInv, GuideTypes
<1>3. guideFile' \in Files /\ SameFile(guideFile', loadFile)
  BY <1>1, <1>2 DEF Files, SameFile
<1>4. GuideTypes'
  BY <1>1, <1>3, SchemaTypes DEF GuideInv, GuideTypes
<1>5. Bare' /\ Apart' /\ ~IsShadow(loadFile') /\ Served(liveSchema')
  BY <1>1, SchemaTypes DEF GuideInv, Bare, InLoad, Apart, IsShadow, Served
<1>6. RenamedIsThere'
  BY <1>1, <1>3 DEF GuideInv, OwnRows, AllThere, RenamedIsThere, InLoad, IsShadow, SameFile
<1> QED BY <1>4, <1>5, <1>6 DEF GuideInv, OwnRows, AllThere, IsShadow, Served

----------------------------------------------------------------------------
LEMMA GuideStep == ASSUME GuideInv, ~Mistaken, [GuidesNext]_guideVars PROVE GuideInv'
<1>1. CASE BeginLoad BY <1>1, BeginLoadStep
<1>2. CASE StageLoad \/ StageFailsLate
  BY <1>2, ShadowPut DEF StageLoad, StageFailsLate
<1>3. CASE StageFails BY <1>3, StageFailsStep
<1>4. CASE FillBegins BY <1>4, FillBeginsStep
<1>5. CASE FillEnds BY <1>5, FillEndsStep
<1>6. CASE swapLoad BY <1>6, swapLoadStep
<1>7. CASE swapLoadFails BY <1>7, swapLoadFailsStep
<1>8. CASE Rename BY <1>8, RenameStep
<1>9. CASE OpenGuide BY <1>9, OpenGuideStep
<1>10. CASE copyGuides BY <1>10, copyGuidesStep
<1>11. CASE RecoverLoads BY <1>11, RecoverStep
<1>12. CASE PMSComes BY <1>12, PMSComesStep
<1>13. CASE FillFails \/ PrepareStaging \/ RecoverFails \/ PMSGoes \/ Unlist
  BY <1>13, QuietStep
<1>14. CASE UNCHANGED guideVars
  <2>1. UNCHANGED <<guideFile, loadFile, plex, liveSchema, nextSchema, clock, begun>>
    BY <1>14 DEF guideVars
  <2>2. GuideTypes' /\ Served(liveSchema')
    BY <2>1 DEF GuideInv, GuideTypes, Served
  <2> QED BY <2>1, <2>2, GuideStays DEF SameFile
<1> QED BY <1>1, <1>2, <1>3, <1>4, <1>5, <1>6, <1>7, <1>8, <1>9, <1>10, <1>11, <1>12,
           <1>13, <1>14 DEF GuidesNext

LEMMA GuideInitially == GuidesInit => GuideInv
<1> SUFFICES ASSUME GuidesInit PROVE GuideInv
  OBVIOUS
<1>1. /\ liveSchema = NoSchema /\ nextSchema = Absent /\ guideFile = NoFile
      /\ loadFile = NoFile /\ plex = "down" /\ clock = 0 /\ begun = 0
  BY DEF GuidesInit
<1>2. GuideTypes
  BY <1>1, SchemaTypes DEF GuideTypes
<1>3. ~InLoad /\ Bare /\ Apart
  BY <1>1, SchemaTypes DEF InLoad, Bare, Apart
<1>4. Served(liveSchema)
  BY <1>1 DEF Served, NoSchema
<1> QED BY <1>2, <1>3, <1>4 DEF GuideInv, OwnRows, AllThere, RenamedIsThere

(* The guide PMS reads is empty or one whole load, however loads, failed   *)
(* stages, copies, renames, recoveries and restarts interleave, as long as *)
(* no file was given the number of an abandoned load's (guides.go,         *)
(* StageLoad, SwapLoaded, ImportGuide and RecoverLoads).                   *)
THEOREM GuideIsWhole == GuidesSpec /\ []~Mistaken => []GuideWhole
<1>1. GuideInv => GuideWhole
  BY ServedIsWhole DEF GuideInv
<1>2. GuideInv /\ ~Mistaken /\ [GuidesNext]_guideVars => GuideInv'
  BY GuideStep
<1> QED BY <1>1, <1>2, GuideInitially, PTL DEF GuidesSpec

----------------------------------------------------------------------------
(* The converger and the guide loads.  A pass asks whether PMS loads a     *)
(* guide before it writes, and a load that the pass began itself may not   *)
(* be listed yet: the argument is that the pass counts itself busy from    *)
(* then on, and that PMS lists the load by the time the next pass asks.    *)

Fields(r, D) == DOMAIN r = D /\ r = [x \in D |-> r[x]]
PassFields == {"at", "todo", "dvrs", "busy", "pending", "changed", "self", "op"}

ConvergerTypes ==
  /\ holder \in LivePods
  /\ Fields(pass, PassFields) /\ pass.busy \in BOOLEAN
  /\ Fields(load, LivePods) /\ \A q \in LivePods : Fields(load[q], {"kind", "of"})

\* A load PMS does not list is the holder's, of the pass under way, which
\* knows that it is busy.
UnseenIsKnown ==
  \A q \in LivePods : load[q].kind = "unseen" => q = holder /\ pass.at # "rest" /\ pass.busy

\* PMS was idle when it was asked, but for loads of its own.
ClearToWrite == pass.at = "write" => load[holder].kind \notin {"unseen", "own"}

ConvergerInv == ConvergerTypes /\ UnseenIsKnown /\ ClearToWrite

LEMMA LeaveLeaves ==
  ASSUME ConvergerInv, NEW failed, NEW self, Leave(failed, self)
  PROVE  Fields(pass', PassFields) /\ pass'.at = "block" /\ pass'.busy = pass.busy
  BY DEF ConvergerInv, ConvergerTypes, Leave, Fields, PassFields

\* The pass goes on, and no load begins or ends.
LEMMA PassGoesOn ==
  ASSUME ConvergerInv, holder' = holder, load' = load,
         Fields(pass', PassFields), pass'.busy \in BOOLEAN, pass.busy => pass'.busy,
         pass.at # "rest" => pass'.at # "rest", pass'.at = "write" => pass.at = "write"
  PROVE  ConvergerInv'
  BY DEF ConvergerInv, ConvergerTypes, UnseenIsKnown, ClearToWrite

LEMMA WalkStep ==
  ASSUME ConvergerInv,
         acquire \/ LeaveDone \/ staleList \/ CallFails \/ AddDevice \/ noteRegistered
           \/ deleteDVR \/ deleteDevice
  PROVE  ConvergerInv'
<1>1. CASE acquire
  <2>1. holder' = holder /\ load' = load
    BY <1>1 DEF acquire
  <2>2. CASE pass' = [pass EXCEPT !.at = "converge"]
    <3>1. Fields(pass', PassFields) /\ pass'.at = "converge" /\ pass'.busy = pass.busy
      BY <2>2 DEF ConvergerInv, ConvergerTypes, Fields, PassFields
    <3> QED BY <2>1, <3>1, PassGoesOn DEF ConvergerInv, ConvergerTypes
  <2>3. CASE Leave(FALSE, FALSE)
    BY <2>1, <2>3, LeaveLeaves, PassGoesOn DEF ConvergerInv, ConvergerTypes
  <2> QED BY <1>1, <2>2, <2>3 DEF acquire
<1>2. CASE LeaveDone \/ staleList \/ CallFails
  <2>1. holder' = holder /\ load' = load /\ \E failed, self : Leave(failed, self)
    BY <1>2 DEF LeaveDone, staleList, CallFails
  <2> QED BY <2>1, LeaveLeaves, PassGoesOn DEF ConvergerInv, ConvergerTypes
<1>3. CASE AddDevice \/ noteRegistered
  <2>1. holder' = holder /\ load' = load /\ \E a \in {"note", "converge"} : pass' = [pass EXCEPT !.at = a]
    BY <1>3 DEF AddDevice, noteRegistered
  <2>2. /\ Fields(pass', PassFields) /\ pass'.at \in {"note", "converge"}
        /\ pass'.busy = pass.busy
    BY <2>1 DEF ConvergerInv, ConvergerTypes, Fields, PassFields
  <2> QED BY <2>1, <2>2, PassGoesOn DEF ConvergerInv, ConvergerTypes
<1>4. CASE deleteDVR
  <2>1. holder' = holder /\ load' = load
        /\ \E D : pass' = [pass EXCEPT !.at = Back, !.op = "none", !.dvrs = D, !.changed = TRUE]
    BY <1>4 DEF deleteDVR
  <2>2. /\ Fields(pass', PassFields) /\ pass'.at = Back /\ pass'.busy = pass.busy
    BY <2>1 DEF ConvergerInv, ConvergerTypes, Fields, PassFields
  <2>3. Back \in {"converge", "block"}
    BY DEF Back
  <2> QED BY <2>1, <2>2, <2>3, PassGoesOn DEF ConvergerInv, ConvergerTypes
<1>5. CASE deleteDevice
  <2>1. holder' = holder /\ load' = load
        /\ pass' = [pass EXCEPT !.at = Back, !.op = "none"]
    BY <1>5 DEF deleteDevice
  <2>2. /\ Fields(pass', PassFields) /\ pass'.at = Back /\ pass'.busy = pass.busy
    BY <2>1 DEF ConvergerInv, ConvergerTypes, Fields, PassFields
  <2>3. Back \in {"converge", "block"}
    BY DEF Back
  <2> QED BY <2>1, <2>2, <2>3, PassGoesOn DEF ConvergerInv, ConvergerTypes
<1> QED BY <1>1, <1>2, <1>3, <1>4, <1>5

LEMMA BeginsStep == ASSUME ConvergerInv, RunBeginsPass PROVE ConvergerInv'
<1>1. /\ pass.at = "rest" /\ holder' = holder /\ load' = load
      /\ \E T, D : pass' = [NoPass EXCEPT !.at = "block", !.todo = T, !.dvrs = D, !.busy = Loading]
  BY DEF RunBeginsPass
<1>2. Fields(pass', PassFields) /\ pass'.at = "block" /\ pass'.busy = Loading
  BY <1>1 DEF NoPass, Fields, PassFields
<1>3. Loading \in BOOLEAN
  BY DEF Loading
<1> QED BY <1>1, <1>2, <1>3 DEF ConvergerInv, ConvergerTypes, UnseenIsKnown, ClearToWrite

LEMMA idleStep == ASSUME ConvergerInv, idle PROVE ConvergerInv'
<1>1. pass.at # "rest" /\ holder' = holder /\ load' = load
  BY DEF idle, Converging
<1>2. CASE Busy
  <2>1. pass' = [pass EXCEPT !.at = "block", !.todo = Tail(@), !.busy = TRUE]
    BY <1>2 DEF idle
  <2>2. Fields(pass', PassFields) /\ pass'.at = "block" /\ pass'.busy
    BY <2>1 DEF ConvergerInv, ConvergerTypes, Fields, PassFields
  <2> QED BY <1>1, <2>2, PassGoesOn
<1>3. CASE ~Busy
  <2>1. pass' = [pass EXCEPT !.at = "write", !.op = Step]
    BY <1>3 DEF idle
  <2>2. Fields(pass', PassFields) /\ pass'.at = "write" /\ pass'.busy = pass.busy
    BY <2>1 DEF ConvergerInv, ConvergerTypes, Fields, PassFields
  <2>3. load[holder].kind \notin {"unseen", "own"}
    BY <1>3 DEF Busy, Loading, p, ConvergerInv, ConvergerTypes, UnseenIsKnown
  <2> QED BY <1>1, <2>2, <2>3 DEF ConvergerInv, ConvergerTypes, UnseenIsKnown, ClearToWrite
<1> QED BY <1>2, <1>3

\* The holder's PMS loads, listed or not, and the pass is done with its write.
LEMMA LoadStarted ==
  ASSUME ConvergerInv, holder' = holder, NEW k \in {"unseen", "own"}, NEW d,
         load' = [load EXCEPT ![p] = [kind |-> k, of |-> d]],
         Fields(pass', PassFields), pass'.at \notin {"rest", "write"},
         pass'.busy \in BOOLEAN, pass.busy => pass'.busy, k = "unseen" => pass'.busy
  PROVE  ConvergerInv'
<1>1. holder \in LivePods /\ p = holder /\ Fields(load, LivePods)
  BY DEF ConvergerInv, ConvergerTypes, p
<1>2. /\ DOMAIN load' = LivePods /\ load' = [q \in LivePods |-> load'[q]]
      /\ load'[holder] = [kind |-> k, of |-> d]
      /\ \A q \in LivePods : q # holder => load'[q] = load[q]
  BY <1>1 DEF Fields
<1>3. Fields([kind |-> k, of |-> d], {"kind", "of"})
  BY DEF Fields
<1>4. ConvergerTypes'
  BY <1>2, <1>3 DEF ConvergerInv, ConvergerTypes, Fields
<1>5. UnseenIsKnown'
  BY <1>2 DEF ConvergerInv, ConvergerTypes, UnseenIsKnown
<1> QED BY <1>4, <1>5 DEF ConvergerInv, ClearToWrite

\* A pod's load ends, or its PMS begins one of its own.
LEMMA LoadElsewhere ==
  ASSUME ConvergerInv, holder' = holder, pass' = pass, NEW q \in LivePods, NEW r,
         Fields(r, {"kind", "of"}), r.kind \in {"none", "pms"},
         load' = [load EXCEPT ![q] = r]
  PROVE  ConvergerInv'
<1>1. /\ DOMAIN load' = LivePods /\ load' = [w \in LivePods |-> load'[w]]
      /\ load'[q] = r /\ \A w \in LivePods : w # q => load'[w] = load[w]
  BY DEF ConvergerInv, ConvergerTypes, Fields
<1>2. ConvergerTypes'
  <2>1. Fields(load', LivePods)
    BY <1>1 DEF Fields
  <2>2. \A w \in LivePods : Fields(load'[w], {"kind", "of"})
    BY <1>1 DEF ConvergerInv, ConvergerTypes
  <2> QED BY <2>1, <2>2 DEF ConvergerInv, ConvergerTypes
<1> QED BY <1>1, <1>2 DEF ConvergerInv, ConvergerTypes, UnseenIsKnown, ClearToWrite

\* By the end of a pass, and at a handover, PMS lists the holder's load.
LEMMA AllSeen ==
  ASSUME ConvergerInv, Seen, holder' \in LivePods, pass' = NoPass
  PROVE  ConvergerInv'
<1>1. holder \in LivePods /\ p = holder /\ Fields(load, LivePods) /\ Fields(load[holder], {"kind", "of"})
  BY DEF ConvergerInv, ConvergerTypes, p
<1>2. /\ load' = [load EXCEPT ![holder] =
                    [load[holder] EXCEPT !.kind = IF load[holder].kind = "unseen" THEN "own"
                                                  ELSE load[holder].kind]]
  BY <1>1 DEF Seen
<1> DEFINE r == [load[holder] EXCEPT !.kind = IF load[holder].kind = "unseen" THEN "own"
                                             ELSE load[holder].kind]
<1>3. Fields(r, {"kind", "of"}) /\ r.kind # "unseen"
  BY <1>1 DEF Fields
<1> HIDE DEF r
<1>4. /\ DOMAIN load' = LivePods /\ load' = [w \in LivePods |-> load'[w]]
      /\ load'[holder] = r /\ \A w \in LivePods : w # holder => load'[w] = load[w]
  BY <1>1, <1>2 DEF Fields, r
<1>5. Fields(pass', PassFields) /\ pass'.at = "rest" /\ pass'.busy = FALSE
  BY DEF NoPass, Fields, PassFields
<1>6. ConvergerTypes'
  <2>1. \A w \in LivePods : Fields(load'[w], {"kind", "of"})
    BY <1>1, <1>3, <1>4 DEF ConvergerInv, ConvergerTypes
  <2>2. Fields(load', LivePods)
    BY <1>4 DEF Fields
  <2>3. Fields(pass', PassFields) /\ pass'.busy \in BOOLEAN
    BY <1>5
  <2> QED BY <2>1, <2>2, <2>3 DEF ConvergerTypes
<1>7. UnseenIsKnown'
  BY <1>3, <1>4 DEF ConvergerInv, UnseenIsKnown
<1> QED BY <1>5, <1>6, <1>7 DEF ConvergerInv, ClearToWrite

LEMMA WriteStep == ASSUME ConvergerInv, CreateDVR \/ saveMap \/ ReloadGuide PROVE ConvergerInv'
<1>0. holder' = holder
  BY DEF CreateDVR, saveMap, ReloadGuide
<1>1. CASE /\ load' = [load EXCEPT ![p] = [kind |-> "unseen", of |-> Now]]
           /\ \/ \E D : pass' = [pass EXCEPT !.at = "converge", !.op = "none", !.dvrs = D,
                                             !.busy = TRUE, !.changed = TRUE]
              \/ pass' = [pass EXCEPT !.at = "converge", !.op = "none", !.busy = TRUE]
              \/ pass' = [pass EXCEPT !.at = "block", !.op = "none", !.todo = Tail(@), !.busy = TRUE]
  <2>1. Fields(pass', PassFields) /\ pass'.at \in {"converge", "block"} /\ pass'.busy
    BY <1>1 DEF ConvergerInv, ConvergerTypes, Fields, PassFields
  <2> QED BY <1>0, <1>1, <2>1, LoadStarted
<1>2. CASE /\ load' = [load EXCEPT ![p] = [kind |-> "own", of |-> Now]]
           /\ Leave(TRUE, FALSE)
  <2>1. Fields(pass', PassFields) /\ pass'.at = "block" /\ pass'.busy = pass.busy
    BY <1>2, LeaveLeaves
  <2>2. pass'.busy \in BOOLEAN /\ (pass.busy => pass'.busy)
    BY <2>1 DEF ConvergerInv, ConvergerTypes
  <2> QED BY <1>0, <1>2, <2>1, <2>2, LoadStarted
<1> QED BY <1>1, <1>2 DEF CreateDVR, saveMap, ReloadGuide, Starts

LEMMA PMSStartsStep == ASSUME ConvergerInv, NEW q \in LivePods, PMSStarts(q) PROVE ConvergerInv'
<1>1. holder' = holder /\ pass' = pass /\ load' = [load EXCEPT ![q] = NoLoad]
  BY DEF PMSStarts
<1>2. Fields(NoLoad, {"kind", "of"}) /\ NoLoad.kind = "none"
  BY DEF NoLoad, Fields
<1> QED BY <1>1, <1>2, LoadElsewhere

LEMMA ConvergerStep == ASSUME ConvergerInv, [LiveNext]_liveVars PROVE ConvergerInv'
<1>1. CASE acquire \/ LeaveDone \/ staleList \/ CallFails \/ AddDevice \/ noteRegistered
             \/ deleteDVR \/ deleteDevice
  BY <1>1, WalkStep
<1>2. CASE RunBeginsPass BY <1>2, BeginsStep
<1>3. CASE idle BY <1>3, idleStep
<1>4. CASE CreateDVR \/ saveMap \/ ReloadGuide BY <1>4, WriteStep
<1>5. CASE RunEnds \/ Handover
  <2>1. Seen /\ holder' \in LivePods /\ pass' = NoPass
    BY <1>5 DEF RunEnds, Handover, ConvergerInv, ConvergerTypes
  <2> QED BY <2>1, AllSeen
<1>6. CASE PMSRestarts \/ \E q \in LivePods : watchLiveTVRestart(q)
  BY <1>6, PMSStartsStep DEF PMSRestarts, watchLiveTVRestart
<1>7. CASE LoadEnds \/ PMSLoads
  <2>1. holder' = holder /\ pass' = pass
        /\ \E q \in LivePods : \E r \in {NoLoad, [kind |-> "pms", of |-> "none"]} :
              load' = [load EXCEPT ![q] = r]
    BY <1>7 DEF LoadEnds, PMSLoads
  <2>2. /\ Fields(NoLoad, {"kind", "of"}) /\ NoLoad.kind = "none"
        /\ Fields([kind |-> "pms", of |-> "none"], {"kind", "of"})
    BY DEF NoLoad, Fields
  <2> QED BY <2>1, <2>2, LoadElsewhere
<1>8. CASE UNCHANGED <<holder, pass, load>>
  BY <1>8 DEF ConvergerInv, ConvergerTypes, UnseenIsKnown, ClearToWrite
<1>9. restartPodPMS \/ Publish \/ GuideEmptied \/ OtherLapses \/ UNCHANGED liveVars
        => UNCHANGED <<holder, pass, load>>
  BY DEF restartPodPMS, Publish, GuideEmptied, OtherLapses, liveVars
<1> QED BY <1>1, <1>2, <1>3, <1>4, <1>5, <1>6, <1>7, <1>8, <1>9 DEF LiveNext, Run, Outside

LEMMA ConvergerInitially == LiveInit => ConvergerInv
<1> SUFFICES ASSUME LiveInit PROVE ConvergerInv
  OBVIOUS
<1>1. holder \in LivePods
  <2>1. \E q : q \in LivePods
    BY LiveAssumption
  <2> QED BY <2>1 DEF LiveInit
<1>2. Fields(pass, PassFields) /\ pass.at = "rest" /\ pass.busy = FALSE
  BY DEF LiveInit, NoPass, Fields, PassFields
<1>3. Fields(NoLoad, {"kind", "of"}) /\ NoLoad.kind = "none"
  BY DEF NoLoad, Fields
<1>4. load = [q \in LivePods |-> NoLoad]
  BY DEF LiveInit
<1>5. Fields(load, LivePods) /\ \A q \in LivePods : load[q] = NoLoad
  BY <1>4 DEF Fields
<1> QED BY <1>1, <1>2, <1>3, <1>5 DEF ConvergerInv, ConvergerTypes, UnseenIsKnown, ClearToWrite

(* Never a DVR made or deleted, a map saved or a guide reloaded while a    *)
(* load that the converger started runs in the same PMS, whatever loads,   *)
(* fails, restarts or hands over in between (converge.go idle and Run).    *)
THEOREM NoWriteIntoOwnLoad == LiveSpec => OwnLoadRespected
<1>1. ConvergerInv => [deleteDVR \/ CreateDVR \/ saveMap \/ ReloadGuide
                         => load[holder].kind \notin {"unseen", "own"}]_liveVars
  BY DEF ConvergerInv, ClearToWrite, deleteDVR, CreateDVR, saveMap, ReloadGuide
<1>2. ConvergerInv /\ [LiveNext]_liveVars => ConvergerInv'
  BY ConvergerStep
<1> QED BY <1>1, <1>2, ConvergerInitially, PTL DEF LiveSpec, OwnLoadRespected
=============================================================================
