------------------------- MODULE ConfigurationProofs -------------------------
(***************************************************************************)
(* Proofs about Configuration, for every size of federation and every      *)
(* number of edits, generations and passwords.                             *)
(***************************************************************************)
EXTENDS Configuration, SequenceTheorems, TLAPS

-----------------------------------------------------------------------------
(* What archipel.json may hold                                             *)

RoleNames == Role \cup {"validator"}
ServiceNames == Supported \cup {"kusama"}

Draft ==
  [ips : 3..MaxNodes, roles : Seq(RoleNames), groups : Seq(Nat),
   services : Seq(ServiceNames) \ {<<>>}, serviceNodes : 0..MaxNodes, fields : 0..MaxNodes,
   keys : {"empty", "set", "bad"}]

Generation == [draft : Draft, password : Password]

Typed ==
  /\ draft \in Draft
  /\ made \in Seq(Generation)
  /\ id \in NodeId

LEMMA TemplateTyped ==
  ASSUME NEW services \in ServiceLists
  PROVE  Template(services) \in Draft
<1>1. services \in Seq(ServiceNames) \ {<<>>}
  <2>1. "polkadot" \in ServiceNames /\ "centrifuge" \in ServiceNames
    BY DEF ServiceNames, Supported
  <2>2. CASE services = <<"polkadot">>
    BY <2>1, <2>2
  <2>3. CASE services = <<"centrifuge">>
    BY <2>1, <2>3
  <2>4. CASE services = <<"polkadot", "centrifuge">>
    BY <2>1, <2>4
  <2> QED BY <2>2, <2>3, <2>4 DEF ServiceLists
<1>2. <<"operator", "operator", "operator", "noservice", "noservice">> \in Seq(RoleNames)
  BY DEF RoleNames, Role
<1>3. Len(<<"operator", "operator", "operator", "noservice", "noservice">>) = 5
  OBVIOUS
<1>4. <<1, 1, 2, 9, 9>> \in Seq(Nat)
  OBVIOUS
<1>5. 5 \in 3..MaxNodes /\ 3 \in 0..MaxNodes
  BY ConfigurationAssumption
<1> QED BY <1>1, <1>2, <1>3, <1>4, <1>5 DEF Template, Draft

\* A list without its last entry.
LEMMA FrontTyped ==
  ASSUME NEW S, NEW s \in Seq(S), s # <<>>
  PROVE  Front(s) \in Seq(S)
BY DEF Front

LEMMA ReverseTyped ==
  ASSUME NEW S, NEW s \in Seq(S) \ {<<>>}
  PROVE  Reverse(s) \in Seq(S) \ {<<>>}
<1>1. Len(s) \in Nat /\ Len(s) # 0
  BY EmptySeq
<1>2. Reverse(s) \in [1..Len(s) -> S]
  BY <1>1 DEF Reverse
<1>3. Reverse(s) \in Seq(S) /\ Len(Reverse(s)) = Len(s)
  BY <1>1, <1>2 DEF Reverse
<1> QED BY <1>1, <1>3, EmptySeq

LEMMA EditTyped ==
  ASSUME Typed, Edit
  PROVE  draft' \in Draft
<1>0. draft \in Draft
  BY DEF Typed
<1>1. ASSUME NEW n \in 3..MaxNodes, draft' = [draft EXCEPT !.ips = n]
      PROVE  draft' \in Draft
  BY <1>0, <1>1 DEF Draft
<1>2. ASSUME NEW i \in 1..Len(draft.roles), NEW r \in RoleNames,
             draft' = [draft EXCEPT !.roles[i] = r]
      PROVE  draft' \in Draft
  <2>1. draft.roles \in Seq(RoleNames)
    BY <1>0 DEF Draft
  <2>2. [draft.roles EXCEPT ![i] = r] \in Seq(RoleNames)
    BY <2>1
  <2> QED BY <1>0, <1>2, <2>2 DEF Draft
<1>3. ASSUME Len(draft.roles) > 1, draft' = [draft EXCEPT !.roles = Front(@)]
      PROVE  draft' \in Draft
  <2>1. draft.roles \in Seq(RoleNames) /\ draft.roles # <<>>
    BY <1>0, <1>3, EmptySeq DEF Draft
  <2> QED BY <1>0, <1>3, <2>1, FrontTyped DEF Draft
<1>4. ASSUME draft.groups # <<>>, draft' = [draft EXCEPT !.groups = Front(@)]
      PROVE  draft' \in Draft
  BY <1>0, <1>4, FrontTyped DEF Draft
<1>5. ASSUME draft' = [draft EXCEPT !.groups = <<>>]
      PROVE  draft' \in Draft
  BY <1>0, <1>5, EmptySeq DEF Draft
<1>6. ASSUME draft' = [draft EXCEPT !.services = Reverse(@)]
      PROVE  draft' \in Draft
  BY <1>0, <1>6, ReverseTyped DEF Draft
<1>7. ASSUME draft' = [draft EXCEPT !.services = <<"kusama">>]
      PROVE  draft' \in Draft
  <2>1. <<"kusama">> \in Seq(ServiceNames) \ {<<>>}
    BY DEF ServiceNames
  <2> QED BY <1>0, <1>7, <2>1 DEF Draft
<1>8. \A k : Near(k) \subseteq 0..MaxNodes
  BY DEF Near
<1>9. ASSUME NEW n \in 0..MaxNodes,
             \/ draft' = [draft EXCEPT !.serviceNodes = n]
             \/ draft' = [draft EXCEPT !.fields = n]
      PROVE  draft' \in Draft
  BY <1>0, <1>9 DEF Draft
<1> QED
  BY <1>1, <1>2, <1>3, <1>4, <1>5, <1>6, <1>7, <1>8, <1>9 DEF Edit, RoleNames

LEMMA TypedStep ==
  ASSUME Typed, [Next]_vars
  PROVE  Typed'
<1> USE DEF adminVars, machineVars
<1>1. CASE UNCHANGED vars
  BY <1>1 DEF vars, Typed
<1>2. CASE FillKeys
  <2>1. draft' \in Draft
    BY <1>2 DEF FillKeys, Typed, Draft
  <2> QED BY <1>2, <2>1 DEF FillKeys, Typed
<1>3. CASE Edit
  BY <1>3, EditTyped DEF Edit, Typed
<1>4. ASSUME NEW p \in Password, Generate(p) PROVE Typed'
  <2>1. [draft |-> draft, password |-> p] \in Generation
    BY DEF Typed, Generation
  <2> QED BY <1>4, <2>1 DEF Generate, Typed
<1>5. CASE MoveArchive \/ Install \/ StartChain \/ StartOrchestrator \/ Recreate
  BY <1>5 DEF MoveArchive, Install, StartChain, StartOrchestrator, Recreate, Typed
<1> QED BY <1>1, <1>2, <1>3, <1>4, <1>5 DEF Next

LEMMA TypedAlways == Spec => []Typed
<1>1. Init => Typed
  BY TemplateTyped, EmptySeq DEF Init, Typed
<1> QED BY <1>1, TypedStep, PTL DEF Spec

-----------------------------------------------------------------------------
(* Archives                                                                *)

\* The key files that belong to a generation.
KeyFiles(g) == ChainKeys(made[g].draft) \cup ServiceKeys(made[g].draft)

\* Entries that were written over each other generation by generation: the
\* configuration is of the last one, and so are the key files that belong to it.
Layered(z) ==
  /\ ConfigFile \in DOMAIN z
  /\ z[ConfigFile] \in 1..Len(made)
  /\ \A f \in DOMAIN z : z[f] \in 1..z[ConfigFile]
  /\ \A f \in KeyFiles(z[ConfigFile]) : f \in DOMAIN z /\ z[f] = z[ConfigFile]

\* An archive is made with the last generation, it travels with the password of
\* that, and a machine has nothing that is newer than its copy.
Archives ==
  /\ zip = <<>> \/ (Layered(zip) /\ zip[ConfigFile] = Len(made))
  /\ copy = <<>> \/ (Layered(copy) /\ password = made[copy[ConfigFile]].password)
  /\ files = <<>> \/
       (copy # <<>> /\ Layered(files) /\ files[ConfigFile] <= copy[ConfigFile])

LEMMA OverEffect ==
  ASSUME NEW new, NEW old
  PROVE  /\ DOMAIN Over(new, old) = DOMAIN new \cup DOMAIN old
         /\ \A f \in DOMAIN new : Over(new, old)[f] = new[f]
         /\ \A f \in DOMAIN old \ DOMAIN new : Over(new, old)[f] = old[f]
BY DEF Over

LEMMA NothingThere == DOMAIN <<>> = {}
<1>1. <<>> \in Seq({}) /\ Len(<<>>) = 0
  BY EmptySeq
<1>2. DOMAIN <<>> = 1..0
  BY <1>1
<1> QED BY <1>2

\* What is layered stays so while generations are added.
LEMMA StaysLayered ==
  ASSUME Typed, NEW g, made' = Append(made, g) \/ UNCHANGED made, NEW z, Layered(z)
  PROVE  /\ z[ConfigFile] \in 1..Len(made')
         /\ \A f \in KeyFiles(z[ConfigFile])' : f \in KeyFiles(z[ConfigFile])
         /\ made'[z[ConfigFile]] = made[z[ConfigFile]]
<1>1. /\ z[ConfigFile] \in 1..Len(made')
      /\ made'[z[ConfigFile]] = made[z[ConfigFile]]
  BY DEF Typed, Layered
<1> QED BY <1>1 DEF KeyFiles

\* A generation is written over an archive or over nothing.
LEMMA UpdateLayered ==
  ASSUME Typed, Archives, NEW p \in Password, Generate(p)
  PROVE  Layered(zip)' /\ zip'[ConfigFile] = Len(made')
<1> DEFINE g == Len(made')
           names == {ConfigFile} \cup ChainKeys(draft) \cup ServiceKeys(draft)
           new == [f \in names |-> g]
<1>1. /\ g \in Nat /\ Len(made) \in Nat /\ g = Len(made) + 1
      /\ made'[g].draft = draft
  BY DEF Generate, Typed
<1>2. zip' = Over(new, zip)
  BY DEF Generate, Update
<1>3. DOMAIN new = names /\ \A f \in names : new[f] = g
  OBVIOUS
<1> HIDE DEF new, g
<1>4. /\ DOMAIN zip' = names \cup DOMAIN zip
      /\ \A f \in names : zip'[f] = g
      /\ \A f \in DOMAIN zip \ names : zip'[f] = zip[f]
  <2>1. /\ DOMAIN Over(new, zip) = DOMAIN new \cup DOMAIN zip
        /\ \A f \in DOMAIN new : Over(new, zip)[f] = new[f]
        /\ \A f \in DOMAIN zip \ DOMAIN new : Over(new, zip)[f] = zip[f]
    BY OverEffect
  <2> HIDE DEF names
  <2> QED BY <1>2, <1>3, <2>1
<1>5. \A f \in DOMAIN zip : zip[f] \in 1..Len(made)
  <2>1. CASE zip = <<>>
    BY <2>1, NothingThere
  <2>2. CASE zip # <<>>
    BY <2>2 DEF Archives, Layered
  <2> QED BY <2>1, <2>2
<1>6. ConfigFile \in DOMAIN zip' /\ zip'[ConfigFile] = g
  BY <1>4
<1>7. g \in 1..Len(made')
  BY <1>1 DEF g
<1>8. \A f \in DOMAIN zip' : zip'[f] \in 1..g
  <2>1. ASSUME NEW f \in names PROVE zip'[f] \in 1..g
    BY <1>1, <1>4
  <2>2. ASSUME NEW f \in DOMAIN zip \ names PROVE zip'[f] \in 1..g
    <3>1. zip[f] \in 1..Len(made) /\ zip'[f] = zip[f]
      BY <1>4, <1>5
    <3> QED BY <1>1, <3>1
  <2> QED BY <1>4, <2>1, <2>2
<1>9. KeyFiles(zip[ConfigFile])' = ChainKeys(draft) \cup ServiceKeys(draft)
  BY <1>1, <1>6 DEF KeyFiles
<1>10. \A f \in KeyFiles(zip[ConfigFile])' : f \in DOMAIN zip' /\ zip'[f] = g
  BY <1>4, <1>9
<1> QED BY <1>6, <1>7, <1>8, <1>10 DEF Layered, g

\* What a machine unpacks is, of whatever it has, its copy's configuration with
\* the key files that belong to it.
LEMMA UnzipLayered ==
  ASSUME Typed, Archives, copy # <<>>, Unzip, UNCHANGED made
  PROVE  /\ Layered(files)'
         /\ files'[ConfigFile] = copy[ConfigFile]
<1> DEFINE top == copy[ConfigFile]
           new == [f \in Opened |-> copy[f]]
<1>1. Layered(copy) /\ password = made[top].password /\ top \in 1..Len(made)
  BY DEF Archives, Layered
<1>2. top \in Nat
  BY <1>1 DEF Typed
<1>3. \A f \in DOMAIN files : files[f] \in 1..top
  <2>1. CASE files = <<>>
    BY <2>1, NothingThere
  <2>2. CASE files # <<>>
    <3>1. Layered(files) /\ files[ConfigFile] <= top
      BY <2>2 DEF Archives
    <3>2. files[ConfigFile] \in Nat
      BY <3>1 DEF Layered, Typed
    <3> QED BY <1>2, <3>1, <3>2 DEF Layered
  <2> QED BY <2>1, <2>2
<1>4. Opened \subseteq DOMAIN copy
  BY DEF Opened, Newer
<1>5. /\ DOMAIN files' = Opened \cup DOMAIN files
      /\ \A f \in Opened : files'[f] = copy[f]
      /\ \A f \in DOMAIN files \ Opened : files'[f] = files[f]
  <2>1. DOMAIN new = Opened /\ \A f \in Opened : new[f] = copy[f]
    OBVIOUS
  <2>2. files' = Over(new, files)
    BY DEF Unzip
  <2> HIDE DEF new
  <2>3. /\ DOMAIN Over(new, files) = DOMAIN new \cup DOMAIN files
        /\ \A f \in DOMAIN new : Over(new, files)[f] = new[f]
        /\ \A f \in DOMAIN files \ DOMAIN new : Over(new, files)[f] = files[f]
    BY OverEffect
  <2> QED BY <2>1, <2>2, <2>3
<1> HIDE DEF top
<1>6. ASSUME NEW f \in DOMAIN copy, copy[f] = top
      PROVE  f \in DOMAIN files' /\ files'[f] = top
  <2>1. CASE f \in Newer
    <3>1. f \in Opened
      BY <1>1, <1>6, <2>1 DEF Opened
    <3> QED BY <1>5, <1>6, <3>1
  <2>2. CASE f \notin Newer
    <3>1. f \in DOMAIN files /\ ~(files[f] < top)
      BY <1>6, <2>2 DEF Newer
    <3>2. files[f] = top
      BY <1>2, <1>3, <3>1
    <3>3. f \notin Opened
      BY <2>2 DEF Opened
    <3> QED BY <1>5, <3>1, <3>2, <3>3
  <2> QED BY <2>1, <2>2
<1>7. ConfigFile \in DOMAIN files' /\ files'[ConfigFile] = top
  BY <1>1, <1>6 DEF Layered, top
<1>8. \A f \in DOMAIN files' : files'[f] \in 1..top
  <2>1. \A f \in Opened : copy[f] \in 1..top
    BY <1>1, <1>4 DEF Layered, top
  <2> QED BY <1>3, <1>5, <2>1
<1>9. \A f \in KeyFiles(top) : f \in DOMAIN files' /\ files'[f] = top
  BY <1>1, <1>6 DEF Layered, top
<1>10. KeyFiles(files[ConfigFile])' = KeyFiles(top)
  BY <1>7 DEF KeyFiles
<1> QED BY <1>1, <1>7, <1>8, <1>9, <1>10 DEF Layered, top

LEMMA ArchivesStep ==
  ASSUME Typed, Archives, [Next]_vars
  PROVE  Archives'
<1> USE DEF adminVars, machineVars
<1>1. ASSUME UNCHANGED <<made, zip, copy, password, files>> PROVE Archives'
  BY <1>1 DEF Archives, Layered, KeyFiles
<1>2. CASE UNCHANGED vars \/ FillKeys \/ Edit
  BY <1>1, <1>2 DEF vars, FillKeys, Edit
<1>3. ASSUME NEW p \in Password, Generate(p) PROVE Archives'
  <2>1. /\ \E g : made' = Append(made, g)
        /\ UNCHANGED <<copy, password, files>>
    BY <1>3 DEF Generate
  <2>2. Layered(zip)' /\ zip'[ConfigFile] = Len(made')
    BY <1>3, UpdateLayered
  <2>3. ASSUME Layered(copy)
        PROVE  Layered(copy)' /\ made'[copy[ConfigFile]] = made[copy[ConfigFile]]
    BY <2>1, <2>3, StaysLayered DEF Layered
  <2>4. ASSUME Layered(files)
        PROVE  Layered(files)'
    BY <2>1, <2>4, StaysLayered DEF Layered
  <2> QED BY <2>1, <2>2, <2>3, <2>4 DEF Archives
<1>4. CASE MoveArchive
  BY <1>4 DEF MoveArchive, Archives, Layered, KeyFiles
<1>5. CASE Install
  <2>1. /\ Layered(zip) /\ zip[ConfigFile] = Len(made) /\ zip # <<>>
        /\ copy' = zip /\ password' = made[Len(made)].password
        /\ UNCHANGED <<made, zip, files>>
    BY <1>5 DEF Install, Archives
  <2>2. Layered(copy)' /\ Layered(zip)' /\ password' = made'[copy'[ConfigFile]].password
    BY <2>1 DEF Layered, KeyFiles
  <2>3. CASE files = <<>>
    BY <2>1, <2>2, <2>3 DEF Archives
  <2>4. CASE files # <<>>
    <3>1. Layered(files)' /\ files'[ConfigFile] <= copy'[ConfigFile]
      BY <2>1, <2>4 DEF Archives, Layered, KeyFiles
    <3> QED BY <2>1, <2>2, <3>1 DEF Archives
  <2> QED BY <2>3, <2>4
<1>6. CASE StartChain \/ StartOrchestrator
  <2>1. copy # <<>> /\ Unzip /\ UNCHANGED <<made, zip, copy, password>>
    BY <1>6 DEF StartChain, StartOrchestrator
  <2>2. Layered(files)' /\ files'[ConfigFile] = copy[ConfigFile]
    BY <2>1, UnzipLayered
  <2>3. Layered(copy)' /\ copy[ConfigFile] \in Nat
    BY <2>1 DEF Archives, Layered, KeyFiles, Typed
  <2>4. zip = <<>> \/ Layered(zip)'
    BY <2>1 DEF Archives, Layered, KeyFiles
  <2> QED BY <2>1, <2>2, <2>3, <2>4 DEF Archives
<1>7. CASE Recreate
  BY <1>7 DEF Recreate, Archives, Layered, KeyFiles
<1> QED BY <1>2, <1>3, <1>4, <1>5, <1>6, <1>7 DEF Next

LEMMA ArchivesAlways == Spec => []Archives
<1>1. Init => Archives
  BY DEF Init, Archives
<1> QED BY <1>1, ArchivesStep, TypedAlways, PTL DEF Spec

LEMMA GenerationTyped ==
  ASSUME Typed, NEW g \in 1..Len(made)
  PROVE  made[g].draft \in Draft
<1>1. made[g] \in Generation
  BY DEF Typed
<1> QED BY <1>1 DEF Generation

\* The key files of a machine, in terms of its own NODE_ID.
LEMMA OwnKeyFiles ==
  ASSUME Typed, NEW g \in 1..Len(made)
  PROVE  /\ id \in Nat \ {0}
         /\ id <= made[g].draft.ips => KeyFile("archipel", id) \in KeyFiles(g)
         /\ id <= made[g].draft.serviceNodes =>
              \A j \in 1..Len(made[g].draft.services) :
                KeyFile(made[g].draft.services[j], id) \in KeyFiles(g)
<1>1. id \in Nat \ {0}
  BY ConfigurationAssumption DEF Typed
<1>2. made[g].draft \in Draft
  BY GenerationTyped
<1> DEFINE d == made[g].draft
<1>3. d.ips \in Nat /\ d.serviceNodes \in Nat
  BY <1>2, ConfigurationAssumption DEF Draft
<1> HIDE DEF d
<1>4. id <= d.ips => KeyFile("archipel", id) \in ChainKeys(d)
  BY <1>1, <1>3 DEF ChainKeys
<1>5. ASSUME id <= d.serviceNodes, NEW j \in 1..Len(d.services)
      PROVE  KeyFile(d.services[j], id) \in ServiceKeys(d)
  <2>1. id \in 1..d.serviceNodes
    BY <1>1, <1>3, <1>5
  <2> QED BY <2>1 DEF ServiceKeys
<1> QED BY <1>1, <1>4, <1>5 DEF KeyFiles, d

LEMMA LayeredFilesAgree ==
  ASSUME Typed, Layered(files)
  PROVE  FilesOfOneGeneration
<1> DEFINE g == files[ConfigFile]
<1>1. g \in 1..Len(made) /\ \A f \in KeyFiles(g) : f \in DOMAIN files /\ files[f] = g
  BY DEF Layered
<1> QED BY <1>1, OwnKeyFiles DEF FilesOfOneGeneration

\* Archives of federations of any size, written and unpacked over each other in
\* any order, never mix: the key files a machine uses are those that its
\* config.json was made with (utils.js createArchive, "unzip -u").
THEOREM FilesOfOneGenerationHolds == Spec => []FilesOfOneGeneration
<1>1. ASSUME Typed, Archives PROVE FilesOfOneGeneration
  <2>1. CASE files = <<>>
    BY <2>1, NothingThere DEF FilesOfOneGeneration
  <2>2. CASE files # <<>>
    BY <1>1, <2>2, LayeredFilesAgree DEF Archives
  <2> QED BY <2>1, <2>2
<1> QED BY <1>1, ArchivesAlways, TypedAlways, PTL

-----------------------------------------------------------------------------
(* A chain node comes up                                                   *)

\* doc/deployment-with-docker.md:66: a NODE_ID within the federation and one
\* password for all entries of the copy are enough for the chain node to start,
\* whatever the role, group and service lists say.
THEOREM ChainComesUpHolds == Spec => ChainComesUp
<1>1. ASSUME Typed, Archives, StartChain, chain' = "failed",
             ~(id > made[files'[ConfigFile]].draft.ips),
             ~\E f \in DOMAIN copy : made[copy[f]].password # password
      PROVE  FALSE
  <2>1. copy # <<>> /\ Unzip /\ UNCHANGED <<made, id>>
    BY <1>1 DEF StartChain, adminVars
  <2>2. Layered(files)' /\ files'[ConfigFile] = copy[ConfigFile]
    BY <1>1, <2>1, UnzipLayered
  <2> DEFINE g == copy[ConfigFile]
  <2>3. g \in 1..Len(made) /\ Layered(copy)
    BY <1>1, <2>1 DEF Archives, Layered
  <2>4. id <= made[g].draft.ips
    <3>1. made[g].draft \in Draft
      BY <1>1, <2>3, GenerationTyped
    <3>2. made[g].draft.ips \in Nat
      BY <3>1, ConfigurationAssumption DEF Draft
    <3>3. id \in Nat
      BY <1>1, <2>3, OwnKeyFiles
    <3> QED BY <1>1, <2>2, <3>2, <3>3
  <2>5. KeyFile("archipel", id) \in KeyFiles(g)
    BY <1>1, <2>3, <2>4, OwnKeyFiles
  <2>6. KeyFile("archipel", id) \in DOMAIN files'
    <3>1. KeyFiles(files[ConfigFile])' = KeyFiles(g)
      BY <2>1, <2>2 DEF KeyFiles
    <3> QED BY <2>2, <2>5, <3>1 DEF Layered
  <2>7. Opened = Newer
    BY <1>1 DEF Opened, Newer
  <2>8. chain' = "up"
    BY <1>1, <2>2, <2>4, <2>6, <2>7 DEF StartChain
  <2> QED BY <1>1, <2>8
<1>2. Typed /\ Archives /\ [Next]_vars
        => [StartChain /\ chain' = "failed" =>
              \/ id > made[files'[ConfigFile]].draft.ips
              \/ \E f \in DOMAIN copy : made[copy[f]].password # password]_vars
  BY <1>1
<1> QED BY <1>2, ArchivesAlways, TypedAlways, PTL DEF Spec, ChainComesUp

-----------------------------------------------------------------------------
(* Lists that agree                                                        *)

\* The orchestrator has read a generation that was made, and its state is what
\* AlignedRunsAsDrawn says of that.
Drawn ==
  /\ orchestrator.state # "down" => orchestrator.read \in 1..Len(made)
  /\ AlignedRunsAsDrawn

LEMMA DrawnStart ==
  ASSUME Typed, Archives, StartOrchestrator
  PROVE  Drawn'
<1> DEFINE g == files'[ConfigFile]
           d == made[g].draft
           role == Entry(d.roles, id, "operator")
<1>1. copy # <<>> /\ Unzip /\ UNCHANGED <<made, id>>
  BY DEF StartOrchestrator, adminVars
<1>2. Layered(files)'
  BY <1>1, UnzipLayered
<1>3. g \in 1..Len(made) /\ \A f \in KeyFiles(g) : f \in DOMAIN files'
  BY <1>1, <1>2 DEF Layered, KeyFiles
<1>4. orchestrator'.read = g
  BY DEF StartOrchestrator, None
<1>5. ASSUME id <= d.ips, Aligned(d)
      PROVE  /\ orchestrator'.state = "up"
             /\ orchestrator'.role = d.roles[id]
             /\ orchestrator'.group = d.groups[id]
  <2>1. d \in Draft /\ id \in Nat \ {0}
    BY <1>3, GenerationTyped, OwnKeyFiles
  <2>2. /\ d.roles \in Seq(RoleNames) /\ d.groups \in Seq(Nat) /\ d.ips \in Nat
        /\ d.services \in Seq(ServiceNames) \ {<<>>}
    BY <2>1, ConfigurationAssumption DEF Draft
  <2> HIDE DEF d
  <2>3. Len(d.roles) = d.ips /\ Len(d.groups) = d.ips
    BY <1>5 DEF Aligned
  <2>4. id \in DOMAIN d.roles /\ id \in DOMAIN d.groups /\ id \in 1..Len(d.roles)
    BY <1>5, <2>1, <2>2, <2>3
  <2>5. role = d.roles[id] /\ Entry(d.groups, id, 1) = d.groups[id]
    BY <2>4 DEF Entry
  <2>6. d.groups # <<>>
    BY <2>4, NothingThere
  <2>7. role # "noservice" => ServiceConfigured(d, id)
    <3> SUFFICES ASSUME role # "noservice"
                 PROVE  ServiceConfigured(d, id)
      OBVIOUS
    <3>1. id \in Operators(d)
      BY <2>4, <2>5 DEF Operators
    <3>2. d.services[1] = "polkadot" /\ id <= d.serviceNodes /\ id <= d.fields
      BY <1>5, <3>1 DEF Aligned
    <3>3. 1 \in 1..Len(d.services)
      <4>1. Len(d.services) \in Nat /\ Len(d.services) # 0
        BY <2>2, EmptySeq
      <4> QED BY <4>1
    <3>4. KeyFile(d.services[1], id) \in KeyFiles(g)
      BY <1>3, <3>2, <3>3, OwnKeyFiles DEF d
    <3> QED BY <1>3, <3>2, <3>4 DEF ServiceConfigured
  <2>8. orchestrator' = [state |-> "up", read |-> g, role |-> role, group |-> Entry(d.groups, id, 1)]
    <3>1. role = "noservice" \/ ServiceConfigured(d, id)
      BY <2>7
    <3> QED BY <1>5, <2>6, <3>1 DEF StartOrchestrator, d
  <2> QED BY <2>5, <2>8
<1>6. orchestrator'.state # "down" => orchestrator'.read \in 1..Len(made')
  BY <1>1, <1>3, <1>4
<1>7. AlignedRunsAsDrawn'
  BY <1>1, <1>4, <1>5 DEF AlignedRunsAsDrawn
<1> QED BY <1>6, <1>7 DEF Drawn

LEMMA DrawnStep ==
  ASSUME Typed, Archives, Drawn, [Next]_vars
  PROVE  Drawn'
<1> USE DEF adminVars, machineVars
<1>1. ASSUME UNCHANGED <<made, id, orchestrator>> PROVE Drawn'
  BY <1>1 DEF Drawn, AlignedRunsAsDrawn
<1>2. CASE UNCHANGED vars \/ FillKeys \/ Edit \/ MoveArchive \/ Install \/ StartChain
  BY <1>1, <1>2 DEF vars, FillKeys, Edit, MoveArchive, Install, StartChain
<1>3. ASSUME NEW p \in Password, Generate(p) PROVE Drawn'
  <2>1. UNCHANGED <<id, orchestrator>>
    BY <1>3 DEF Generate
  <2>2. \A k \in 1..Len(made) : k \in 1..Len(made') /\ made'[k] = made[k]
    BY <1>3 DEF Generate, Typed
  <2> QED BY <2>1, <2>2 DEF Drawn, AlignedRunsAsDrawn
<1>4. CASE StartOrchestrator
  BY <1>4, DrawnStart
<1>5. CASE Recreate
  BY <1>5 DEF Recreate, None, Drawn, AlignedRunsAsDrawn
<1> QED BY <1>2, <1>3, <1>4, <1>5 DEF Next

\* A machine of a federation whose lists agree runs in the role and the group
\* that archipel.json gives its NODE_ID, although the tool compares no lists
\* with each other (generate.js, config.js).
THEOREM AlignedRunsAsDrawnHolds == Spec => []AlignedRunsAsDrawn
<1>1. Init => Drawn
  BY DEF Init, None, Drawn, AlignedRunsAsDrawn
<1> QED BY <1>1, DrawnStep, ArchivesAlways, TypedAlways, PTL DEF Spec, Drawn
=============================================================================
