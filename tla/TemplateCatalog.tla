-------------------------- MODULE TemplateCatalog --------------------------
(***************************************************************************)
(* The template catalog of the control plane (ravn-server remediation.rs,  *)
(* ravn-core remediation.rs): loading and validation of the templates at   *)
(* start-up, the match of an event, the resolution of its parameters, and  *)
(* the building of a command, by policy at once or by an approval that may *)
(* come after the server was restarted on other templates.                 *)
(*                                                                         *)
(* Text is a sequence of character classes: "a" is a lowercase letter or a *)
(* digit, "-" a dash, "." any other character. A field of a capability is  *)
(* a sequence of pieces, each a literal text or a {{parameter}}. What a    *)
(* check must equal, titles, rationales, keys and times are left out; so   *)
(* is the dedup of proposals, which is in RemediationLifecycle.            *)
(***************************************************************************)
EXTENDS Naturals, FiniteSets, SequencesExt

CONSTANTS
  Events,        \* the events that arrive
  Directories,   \* what an operator deploys: sets of templates
  MaxLabel,      \* the longest Kubernetes label, 63
  MaxProposals, MaxLoads  \* bounds

VARIABLES
  directory,  \* the deployed set of templates
  catalog,    \* the loaded templates in the order of read_dir, or Down
  loads,      \* how often the server was started
  proposals,  \* the proposals, with the template they were built from
  commands,   \* the signed commands
  refused     \* the last build that ended in an error: <<proposal, load, reason>>, or <<>>

tcVars == <<directory, catalog, loads, proposals, commands, refused>>

Down == <<[down |-> TRUE]>>   \* no server: its start ended in an error

-----------------------------------------------------------------------------
(* Events and the paths into them. *)

Always == {"host", "title", "severity", "payload.kind"}

\* The string fields every payload of a kind has, and those it may have.
Required ==
  [failed_unit |-> {"payload.unit", "payload.result"},
   journald |-> {"payload.message"},
   config_drift |-> {"payload.path", "payload.new_hash"},
   auth |-> {"payload.action"},
   update |-> {"payload.mechanism"},
   kube_workload |-> {"payload.namespace", "payload.name", "payload.object_kind", "payload.reason"},
   kube_node |-> {"payload.node", "payload.condition"},
   circuit_breaker_trip |-> {}]
Optional ==
  [failed_unit |-> {},
   journald |-> {"payload.unit"},
   config_drift |-> {"payload.old_hash", "payload.diff"},
   auth |-> {"payload.user", "payload.remote_addr"},
   update |-> {"payload.from", "payload.to"},
   kube_workload |-> {"payload.message", "payload.container"},
   kube_node |-> {"payload.message"},
   circuit_breaker_trip |-> {}]

ValidPaths == Always \cup UNION {Required[k] \cup Optional[k] : k \in DOMAIN Required}

\* event_field: no value where the path is not a field of this payload.
HasField(e, path) == path \in DOMAIN e.fields

ASSUME EventAssumption ==
  /\ \A e \in Events : /\ Always \cup Required[e.kind] \subseteq DOMAIN e.fields
                       /\ DOMAIN e.fields \subseteq Always \cup Required[e.kind] \cup Optional[e.kind]
  /\ MaxLabel \in Nat /\ MaxProposals \in Nat /\ MaxLoads \in Nat

-----------------------------------------------------------------------------
(* Capabilities and templates. *)

ReadOnly == {"unit_state", "pod_state"}
Kube     == {"delete_pod", "restart_deployment", "pod_state"}

IsHole(piece) == "hole" \in DOMAIN piece
Holes(cap) == {piece.hole : piece \in {p \in UNION {ToSet(cap.args[a]) : a \in DOMAIN cap.args} : IsHole(p)}}

\* is_valid_k8s_label
IsLabel(s) ==
  /\ Len(s) \in 1..MaxLabel
  /\ s[1] = "a" /\ s[Len(s)] = "a"
  /\ ToSet(s) \subseteq {"a", "-"}

\* resolve_str: every piece replaced by its text, none of it scanned again.
ResolveStr(raw, values) ==
  FlattenSeq([i \in DOMAIN raw |-> IF IsHole(raw[i]) THEN values[raw[i].hole] ELSE raw[i].text])

ResolveCap(cap, values) == [cap EXCEPT !.args = [a \in DOMAIN cap.args |-> ResolveStr(cap.args[a], values)]]

\* Why Capability::resolve refuses.
Missing(cap, values) == ~(Holes(cap) \subseteq DOMAIN values)

\* (mutation of NotALabel: only the namespace is validated)
NotALabelNamespace(cap, values) ==
  cap.name \in Kube /\ ~IsLabel(ResolveStr(cap.args["namespace"], values))

NotALabel(cap, values) ==
  /\ cap.name \in Kube
  /\ \E a \in DOMAIN cap.args : ~IsLabel(ResolveStr(cap.args[a], values))

Checks(t) == ToSet(t.preconditions) \cup ToSet(t.verify)
Caps(t) == Checks(t) \cup ToSet(t.steps)

\* A directory has finitely many files; each is parsed into a list of steps and into
\* capabilities that have a name and arguments, or the server does not start.
ASSUME DirectoryAssumption ==
  \A dir \in Directories :
    /\ IsFiniteSet(dir)
    /\ \A t \in dir : /\ t.steps \in Seq(ToSet(t.steps))
                      /\ \A c \in Caps(t) : c = [name |-> c.name, args |-> c.args]

\* (mutation of Validate: the placeholders of the checks are not looked at)
ValidateSteps(t) ==
  /\ \A c \in Checks(t) : c.name \in ReadOnly
  /\ \A c \in ToSet(t.steps) : Holes(c) \subseteq DOMAIN t.parameters
  /\ t.steps # <<>>

\* Template::validate and validate_template_paths
Validate(t) ==
  /\ \A c \in Checks(t) : c.name \in ReadOnly
  /\ \A c \in Caps(t) : Holes(c) \subseteq DOMAIN t.parameters
  /\ t.steps # <<>>
ValidatePaths(t) ==
  /\ DOMAIN t.conditions \subseteq ValidPaths
  /\ \A p \in DOMAIN t.parameters : t.parameters[p] \in ValidPaths

\* load_dir: any order of the files, or no server at all.
LoadDir(dir) ==
  IF \A t \in dir : Validate(t) /\ ValidatePaths(t) THEN SetToSeqs(dir) ELSE {Down}

Matches(t, e) ==
  /\ t.source = e.kind
  /\ \A path \in DOMAIN t.conditions : HasField(e, path) /\ e.fields[path] = t.conditions[path]

\* match_event and get: the index of the first, 0 if there is none.
MatchEvent(e) == SelectInSeq(catalog, LAMBDA t : Matches(t, e))
Get(id) == SelectInSeq(catalog, LAMBDA t : t.id = id)

K8sIdParamNames == {"namespace", "pod", "deployment", "name"}

Resolvable(t, e) ==
  \A p \in DOMAIN t.parameters :
    /\ HasField(e, t.parameters[p])
    /\ p \in K8sIdParamNames => IsLabel(e.fields[t.parameters[p]])
ResolveParams(t, e) == [p \in DOMAIN t.parameters |-> e.fields[t.parameters[p]]]

\* build_command: the first capability that cannot be resolved ends it.
BuildError(t, values) ==
  IF \E c \in Caps(t) : Missing(c, values) THEN "missing"
  ELSE IF \E c \in Caps(t) : NotALabel(c, values) THEN "identifier"
  ELSE "none"

BuildCommand(of, t, values) ==
  [of |-> of, template |-> t, load |-> loads,
   steps |-> [i \in DOMAIN t.steps |-> ResolveCap(t.steps[i], values)],
   checks |-> {ResolveCap(c, values) : c \in Checks(t)}]

-----------------------------------------------------------------------------
TcInit ==
  /\ directory \in Directories
  /\ catalog \in LoadDir(directory)
  /\ loads = 1
  /\ proposals = <<>> /\ commands = {} /\ refused = <<>>

\* The server is started again, maybe on another set of templates; proposals are
\* rows of the database and stay.
Restart ==
  /\ loads < MaxLoads
  /\ directory' \in Directories
  /\ catalog' \in LoadDir(directory')
  /\ loads' = loads + 1
  /\ UNCHANGED <<proposals, commands, refused>>

\* build_proposal; the load, and whether another file has the same id, are kept for
\* the properties.
Proposal(e, t) ==
  [event |-> e, template |-> t, params |-> ResolveParams(t, e), load |-> loads,
   twin |-> \E u \in directory : u.id = t.id /\ u # t]

\* prepare_inner on an event some template matches; a gap, of an event none matches,
\* goes to the knowledge base.
\* The policy answers Approve: the proposal waits for a human.
PrepareProposal(e) ==
  /\ catalog # Down
  /\ Len(proposals) < MaxProposals
  /\ MatchEvent(e) # 0
  /\ LET t == catalog[MatchEvent(e)] IN
       /\ Resolvable(t, e)
       /\ proposals' = Append(proposals, Proposal(e, t))
  /\ UNCHANGED <<directory, catalog, loads, commands, refused>>

\* The policy answers Auto: auto_execute builds the command at once, or drops it.
PrepareAuto(e) ==
  /\ catalog # Down
  /\ Len(proposals) < MaxProposals
  /\ MatchEvent(e) # 0
  /\ LET t == catalog[MatchEvent(e)]
         error == BuildError(t, ResolveParams(t, e)) IN
       /\ Resolvable(t, e)
       /\ \/ /\ error = "none"
             /\ proposals' = Append(proposals, Proposal(e, t))
             /\ commands' = commands \cup {BuildCommand(Len(proposals'), t, ResolveParams(t, e))}
             /\ UNCHANGED refused
          \/ /\ error # "none"
             /\ refused' = <<Proposal(e, t), loads, error>>
             /\ UNCHANGED <<proposals, commands>>
  /\ UNCHANGED <<directory, catalog, loads>>

\* approve_remediation: the template is looked up again, by its id alone.
Approve(n) ==
  LET p == proposals[n] IN
  /\ catalog # Down
  /\ \A c \in commands : c.of # n
  /\ Get(p.template.id) # 0
  /\ LET t == catalog[Get(p.template.id)]
         error == BuildError(t, p.params) IN
       \/ /\ error = "none"
          /\ commands' = commands \cup {BuildCommand(n, t, p.params)}
          /\ UNCHANGED refused
       \/ /\ error # "none"
          /\ refused' = <<p, loads, error>>
          /\ UNCHANGED commands
  /\ UNCHANGED <<directory, catalog, loads, proposals>>

TcNext ==
  \/ Restart
  \/ \E e \in Events : PrepareProposal(e) \/ PrepareAuto(e)
  \/ \E n \in DOMAIN proposals : Approve(n)

-----------------------------------------------------------------------------
(* Properties *)

\* Whatever was loaded, edited and approved in between, a signed command has steps,
\* checks that only read, and every name it hands to the Kubernetes API is a label,
\* even where a parameter has another name than resolve_params looks for or is
\* glued to a literal.
CommandsAreSound ==
  \A c \in commands :
    /\ c.steps # <<>>
    /\ \A k \in c.checks : k.name \in ReadOnly
    /\ \A k \in ToSet(c.steps) \cup c.checks :
         k.name \in Kube => \A a \in DOMAIN k.args : IsLabel(k.args[a])

Excused(p, load) == load > p.load \/ p.twin

\* An approval runs the very template the operator was shown, and finds a value for
\* each of its parameters, unless the server was restarted in between or two files
\* have the same id: nothing else lets the lookup by id answer differently from the
\* match, and the validation at load time covers every parameter that is used.
ShownIsRun ==
  /\ \A c \in commands :
       c.template = proposals[c.of].template \/ Excused(proposals[c.of], c.load)
  /\ refused # <<>> /\ refused[3] = "missing" => Excused(refused[1], refused[2])
=============================================================================
