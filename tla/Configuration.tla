--------------------------- MODULE Configuration ---------------------------
(***************************************************************************)
(* From archipel.json to a machine that runs: the command line tool        *)
(* (cli/src), the start scripts (deployer/archipel) and the orchestrator's *)
(* reading of its configuration.                                           *)
(*                                                                         *)
(* The administrator edits archipel.json freely; "generate" validates some *)
(* of it and writes config.zip, which "zip" updates in place: entries of   *)
(* an earlier archive stay, under their own password.  A machine unpacks   *)
(* only what is newer than what it has.  Two lists of archipel.json that   *)
(* ought to agree are checked by nobody; the reader takes an entry by      *)
(* NODE_ID or a default.                                                   *)
(*                                                                         *)
(* Keys, seeds, addresses and peer ids are abstracted to the generation    *)
(* that made them.  A generation whose validation or tools fail leaves     *)
(* config.zip alone and is not a step.  Machines do not interact here, so  *)
(* one of them is followed.                                                *)
(***************************************************************************)
EXTENDS Integers, Sequences, SequencesExt

CONSTANTS MaxNodes,       \* bound: nodes of a federation
          NodeId,         \* the NODE_IDs of interest
          MaxEdits,       \* bound: edits of archipel.json
          MaxGenerations, \* bound: runs of "generate"
          Password        \* the passwords the administrator chooses from

ASSUME ConfigurationAssumption ==
  /\ MaxNodes \in Nat /\ MaxNodes >= 5
  /\ NodeId \subseteq 1..MaxNodes
  /\ MaxEdits \in Nat
  /\ MaxGenerations \in Nat

VARIABLES
  (* the administrator's working directory *)
  draft,        \* archipel.json
  edits,        \* edits so far
  made,         \* what each generation was made from
  zip,          \* config.zip: file name -> its generation
  (* one machine *)
  id,           \* NODE_ID
  copy,         \* archipel-config.zip
  password,     \* CONFIG_FILE_PASSWORD
  files,        \* /config: file name -> its generation
  chain,        \* the chain node: "down", "failed" or "up"
  orchestrator  \* the orchestrator: its state, the generation it read, and
                \* the role and group it came up with

adminVars == <<draft, edits, made, zip>>
machineVars == <<id, copy, password, files, chain, orchestrator>>
vars == <<adminVars, machineVars>>

\* The roles and services the tool knows.
Role == {"operator", "noservice"}
Supported == {"polkadot", "centrifuge"}

\* Names of files in an archive: config.json and node key files.
ConfigFile == <<"config", 0>>
KeyFile(s, i) == <<s, i>>

Operators(d) == {i \in 1..Len(d.roles) : d.roles[i] # "noservice"}

\* generateServicesTemplate: an empty field set per service node.
Template(services) ==
  LET roles == <<"operator", "operator", "operator", "noservice", "noservice">>
  IN  [ips |-> Len(roles), roles |-> roles, groups |-> <<1, 1, 2, 9, 9>>,
       services |-> services, serviceNodes |-> 3, fields |-> 3, keys |-> "empty"]

\* The service lists "init" may be given.
ServiceLists == {<<"polkadot">>, <<"centrifuge">>, <<"polkadot", "centrifuge">>}

None == [state |-> "down", read |-> 0, role |-> "none", group |-> 0]

Init ==
  /\ draft \in {Template(services) : services \in ServiceLists}
  /\ edits = 0
  /\ made = <<>>
  /\ zip = <<>>
  /\ id \in NodeId
  /\ copy = <<>>
  /\ password = "unset"
  /\ files = <<>>
  /\ chain = "down"
  /\ orchestrator = None

-----------------------------------------------------------------------------
(* The administrator                                                       *)

\* The fields of the services are filled in, with seeds subkey accepts or not.
FillKeys ==
  /\ draft.keys # "set"
  /\ \E k \in {"set", "bad"} : draft' = [draft EXCEPT !.keys = k]
  /\ UNCHANGED <<edits, made, zip, machineVars>>

Near(k) == {k - 1, k + 1} \cap (0..MaxNodes)

\* One list or number of archipel.json is changed, and no other with it.  An
\* empty groups list stands for a missing one.
Edit ==
  /\ edits < MaxEdits
  /\ edits' = edits + 1
  /\ \/ \E n \in 3..MaxNodes : draft' = [draft EXCEPT !.ips = n]
     \/ \E i \in 1..Len(draft.roles), r \in Role \cup {"validator"} :
          draft' = [draft EXCEPT !.roles[i] = r]
     \/ Len(draft.roles) > 1 /\ draft' = [draft EXCEPT !.roles = Front(@)]
     \/ draft.groups # <<>> /\ draft' = [draft EXCEPT !.groups = Front(@)]
     \/ draft' = [draft EXCEPT !.groups = <<>>]
     \/ draft' = [draft EXCEPT !.services = Reverse(@)]
     \/ draft' = [draft EXCEPT !.services = <<"kusama">>]
     \/ \E n \in Near(draft.serviceNodes) : draft' = [draft EXCEPT !.serviceNodes = n]
     \/ \E n \in Near(draft.fields) : draft' = [draft EXCEPT !.fields = n]
  /\ UNCHANGED <<made, zip, machineVars>>

NodesRoleValid(d) == \A i \in 1..Len(d.roles) : d.roles[i] \in Role
ServicesSupported(d) == \A i \in 1..Len(d.services) : d.services[i] \in Supported

\* Every field of every set must be there when the archive is made ...
FieldsSet(d) == d.fields > 0 => d.keys # "empty"

\* ... and be a seed.
SeedsValid(d) == d.fields > 0 => d.keys # "bad"

\* What "generate" checks.  Neither the groups nor serviceNodesNumber nor the
\* lengths of the lists are looked at.
Valid(d) ==
  /\ d.ips >= 4
  /\ NodesRoleValid(d) /\ ServicesSupported(d) /\ SeedsValid(d) /\ FieldsSet(d)

\* Variant for mutation: a node key for the service nodes only.
ChainKeysForServiceNodes(d) == {KeyFile("archipel", i) : i \in 1..d.serviceNodes}

\* generateArchipelConfig: a node key of the HABS chain for every node.
ChainKeys(d) == {KeyFile("archipel", i) : i \in 1..d.ips}

\* generateServicesConfig: a node key of each service for every service node.
ServiceKeys(d) ==
  {KeyFile(d.services[j], i) : i \in 1..d.serviceNodes, j \in 1..Len(d.services)}

\* Entries written over others: those that are not replaced stay.
Over(new, old) ==
  [f \in DOMAIN new \cup DOMAIN old |-> IF f \in DOMAIN new THEN new[f] ELSE old[f]]

\* createArchive: the entries of an archive that is there are replaced one by
\* one, and those the new directory lacks stay.
Update(old, names, g) == Over([f \in names |-> g], old)

Generate(p) ==
  /\ Valid(draft)
  /\ Len(made) < MaxGenerations
  /\ made' = Append(made, [draft |-> draft, password |-> p])
  /\ zip' = Update(zip, {ConfigFile} \cup ChainKeys(draft) \cup ServiceKeys(draft), Len(made'))
  /\ UNCHANGED <<draft, edits, machineVars>>

\* config.zip is moved away: the next archive starts empty.
MoveArchive ==
  /\ zip # <<>>
  /\ zip' = <<>>
  /\ UNCHANGED <<draft, edits, made, machineVars>>

\* The archive and the password given for it reach the machine.
Install ==
  /\ zip # <<>>
  /\ copy' = zip
  /\ password' = made[Len(made)].password
  /\ UNCHANGED <<adminVars, id, files, chain, orchestrator>>

-----------------------------------------------------------------------------
(* The machine                                                             *)

\* What "unzip -u" tries to extract, and what of it the password opens.
Newer == {f \in DOMAIN copy : f \notin DOMAIN files \/ files[f] < copy[f]}
Opened == {f \in Newer : made[copy[f]].password = password}

Unzip == files' = Over([f \in Opened |-> copy[f]], files)

\* start-wireguard.sh and start-chain.sh: an entry that cannot be extracted, a
\* NODE_ID out of range or a missing key file ends them.
StartChain ==
  /\ copy # <<>>
  /\ Unzip
  /\ chain' =
       IF /\ Opened = Newer
          /\ id <= made[files'[ConfigFile]].draft.ips
          /\ KeyFile("archipel", id) \in DOMAIN files'
       THEN "up" ELSE "failed"
  /\ UNCHANGED <<adminVars, id, copy, password, orchestrator>>

\* Variant for mutation: NODE_ID is taken for an index from 0.
EntryNext(list, i, default) == IF i + 1 \in DOMAIN list THEN list[i + 1] ELSE default

\* Entry i of a comma separated list, or the default of config.js.
Entry(list, i, default) == IF i \in DOMAIN list THEN list[i] ELSE default

\* What the orchestrator needs of d to run the service on node i.
ServiceConfigured(d, i) ==
  /\ d.services[1] = "polkadot"
  /\ i <= d.fields
  /\ i <= d.serviceNodes
  /\ KeyFile("polkadot", i) \in DOMAIN files'

\* start-orchestrator.sh goes on whatever unzip says; the configuration is read
\* and the service constructed from the config.json there is.
StartOrchestrator ==
  /\ copy # <<>>
  /\ Unzip
  /\ LET g == files'[ConfigFile]
         d == made[g].draft
         role == Entry(d.roles, id, "operator")
     IN  orchestrator' =
           IF /\ id <= d.ips
              /\ d.groups # <<>>
              /\ role = "noservice" \/ ServiceConfigured(d, id)
           THEN [state |-> "up", read |-> g, role |-> role, group |-> Entry(d.groups, id, 1)]
           ELSE [None EXCEPT !.state = "failed", !.read = g]
  /\ UNCHANGED <<adminVars, id, copy, password, chain>>

\* The container is created anew: /config is empty again.
Recreate ==
  /\ files # <<>>
  /\ files' = <<>>
  /\ chain' = "down"
  /\ orchestrator' = None
  /\ UNCHANGED <<adminVars, id, copy, password>>

Next ==
  \/ FillKeys \/ Edit \/ MoveArchive \/ Install
  \/ \E p \in Password : Generate(p)
  \/ StartChain \/ StartOrchestrator \/ Recreate

Spec == Init /\ [][Next]_vars
-----------------------------------------------------------------------------
(* Properties                                                              *)

\* doc/deployment-with-docker.md:66: the chain node of every machine of the
\* federation comes up with the archive and the password given to the tool,
\* whatever the role, group and service lists say.  The one way to fail is an
\* archive that still holds an entry under another password.
ChainComesUp ==
  [][StartChain /\ chain' = "failed" =>
       \/ id > made[files'[ConfigFile]].draft.ips
       \/ \E f \in DOMAIN copy : made[copy[f]].password # password]_vars

\* Archives of federations of different sizes, written over each other and
\* unpacked over each other, never mix: the key files a machine uses are those
\* that its config.json was made with.
FilesOfOneGeneration ==
  ConfigFile \in DOMAIN files =>
    LET g == files[ConfigFile]
        d == made[g].draft
        own(s) == KeyFile(s, id) \in DOMAIN files /\ files[KeyFile(s, id)] = g
    IN  /\ id <= d.ips => own("archipel")
        /\ id <= d.serviceNodes => \A j \in 1..Len(d.services) : own(d.services[j])

\* The lists of archipel.json agree with each other and with what is run.
Aligned(d) ==
  /\ Len(d.roles) = d.ips
  /\ Len(d.groups) = d.ips
  /\ \A i \in Operators(d) : i <= d.serviceNodes /\ i <= d.fields
  /\ d.services[1] = "polkadot"

\* A machine of a federation whose lists agree runs in the role and the group
\* that archipel.json gives its NODE_ID, although the tool never compared them.
AlignedRunsAsDrawn ==
  orchestrator.state # "down" =>
    LET d == made[orchestrator.read].draft
    IN  id <= d.ips /\ Aligned(d) =>
          /\ orchestrator.state = "up"
          /\ orchestrator.role = d.roles[id]
          /\ orchestrator.group = d.groups[id]
=============================================================================
