----------------------- MODULE CatalogKnowledgeProofs -----------------------
(***************************************************************************)
(* Proofs about two parts of the control plane that share no state, each   *)
(* with the specification that lets its own next-state relation run: the   *)
(* catalog of templates that commands are built from (TemplateCatalog) and *)
(* the knowledge base of what came of them (KnowledgeBase).                *)
(***************************************************************************)
EXTENDS TemplateCatalog, KnowledgeBase, FiniteSetTheorems, SequenceTheorems,
        WellFoundedInduction, TLAPS

-----------------------------------------------------------------------------
(* TemplateCatalog *)

TcSpec == TcInit /\ [][TcNext]_tcVars

\* A server that runs has the templates of the directory, each of which is valid.
LoadedOK ==
  /\ directory \in Directories /\ loads \in Nat
  /\ catalog # Down => catalog \in SetToSeqs(directory) /\ \A t \in directory : Validate(t)

\* A proposal has a value for each parameter of its template; one of this start, whose
\* id was not ambiguous, is of the only template with that id.
ProposalsOK ==
  /\ proposals \in Seq(ToSet(proposals))
  /\ \A n \in 1..Len(proposals) :
       /\ proposals[n].load \in Nat /\ proposals[n].load <= loads
       /\ DOMAIN proposals[n].params = DOMAIN proposals[n].template.parameters
       /\ proposals[n].load = loads /\ ~proposals[n].twin =>
            \A u \in directory : u.id = proposals[n].template.id => u = proposals[n].template

CommandsOK == \A c \in commands : c.of \in 1..Len(proposals)

TcInv == LoadedOK /\ ProposalsOK /\ CommandsOK /\ CommandsAreSound /\ ShownIsRun

\* A set of numbers has a least one.
LEMMA MinIsIn == ASSUME NEW I, I \subseteq Nat, I # {} PROVE Min(I) \in I
<1> DEFINE R == OpToRel(<, Nat)
<1>1. IsWellFoundedOn(R, Nat)
  BY NatLessThanWellFounded
<1> HIDE DEF R
<1>2. PICK x \in I : \A y \in I : ~(<<y, x>> \in R)
  BY <1>1, WFMin
<1>3. \A y \in Nat, z \in Nat : <<y, z>> \in R <=> y < z
  BY DEF R, OpToRel
<1>4. ASSUME NEW y \in I PROVE x =< y
  <2>1. x \in Nat /\ y \in Nat
    OBVIOUS
  <2>2. ~(y < x)
    BY <1>2, <1>3, <2>1
  <2> QED BY <2>1, <2>2
<1> QED BY <1>2, <1>4 DEF Min

\* What matches an event is a template of the directory.
LEMMA MatchFinds ==
  ASSUME directory \in Directories, catalog \in SetToSeqs(directory), NEW e, MatchEvent(e) # 0
  PROVE  catalog[MatchEvent(e)] \in directory
<1> DEFINE I == {i \in 1..Len(catalog) : Matches(catalog[i], e)}
<1>0. Cardinality(directory) \in Nat
  BY DirectoryAssumption, FS_CardinalityType
<1>1. /\ catalog \in [1..Cardinality(directory) -> directory] /\ Len(catalog) = Cardinality(directory)
  BY <1>0 DEF SetToSeqs
<1>2. MatchEvent(e) = IF I # {} THEN Min(I) ELSE 0
  BY DEF MatchEvent, SelectInSeq
<1>3. I \subseteq Nat
  BY <1>0, <1>1
<1>4. MatchEvent(e) \in I
  BY <1>2, <1>3, MinIsIn
<1> QED BY <1>1, <1>4

\* So is what an approval looks up, and its id is the one asked for.
LEMMA GetFinds ==
  ASSUME directory \in Directories, catalog \in SetToSeqs(directory), NEW id, Get(id) # 0
  PROVE  catalog[Get(id)] \in directory /\ catalog[Get(id)].id = id
<1> DEFINE I == {i \in 1..Len(catalog) : catalog[i].id = id}
<1>0. Cardinality(directory) \in Nat
  BY DirectoryAssumption, FS_CardinalityType
<1>1. /\ catalog \in [1..Cardinality(directory) -> directory] /\ Len(catalog) = Cardinality(directory)
  BY <1>0 DEF SetToSeqs
<1>2. Get(id) = IF I # {} THEN Min(I) ELSE 0
  BY DEF Get, SelectInSeq
<1>3. I \subseteq Nat
  BY <1>0, <1>1
<1>4. Get(id) \in I
  BY <1>2, <1>3, MinIsIn
<1> QED BY <1>1, <1>4

\* A capability is resolved argument by argument and keeps its name.
LEMMA ResolveKeeps ==
  ASSUME NEW cap, cap = [name |-> cap.name, args |-> cap.args], NEW values
  PROVE  /\ ResolveCap(cap, values).name = cap.name
         /\ DOMAIN ResolveCap(cap, values).args = DOMAIN cap.args
         /\ \A a \in DOMAIN cap.args : ResolveCap(cap, values).args[a] = ResolveStr(cap.args[a], values)
<1> DEFINE args == [a \in DOMAIN cap.args |-> ResolveStr(cap.args[a], values)]
<1>1. ResolveCap(cap, values) = [cap EXCEPT !.args = args]
  BY DEF ResolveCap
<1>2. DOMAIN args = DOMAIN cap.args /\ \A a \in DOMAIN cap.args : args[a] = ResolveStr(cap.args[a], values)
  OBVIOUS
<1> HIDE DEF args
<1>3. ResolveCap(cap, values).name = cap.name /\ ResolveCap(cap, values).args = args
  BY <1>1
<1> QED BY <1>2, <1>3

\* A command that is built of a valid template is sound.
LEMMA BuiltIsSound ==
  ASSUME NEW dir \in Directories, NEW t \in dir, Validate(t), NEW values, BuildError(t, values) = "none",
         NEW of, NEW c, c = BuildCommand(of, t, values)
  PROVE  /\ c.of = of /\ c.template = t /\ c.load = loads
         /\ c.steps # <<>> /\ \A k \in c.checks : k.name \in ReadOnly
         /\ \A k \in ToSet(c.steps) \cup c.checks : k.name \in Kube => \A a \in DOMAIN k.args : IsLabel(k.args[a])
<1>1. \A cap \in Caps(t) : cap = [name |-> cap.name, args |-> cap.args] /\ ~NotALabel(cap, values)
  BY DirectoryAssumption DEF BuildError
<1>2. ASSUME NEW cap \in Caps(t), NEW k, k = ResolveCap(cap, values)
      PROVE  k.name = cap.name /\ (k.name \in Kube => \A a \in DOMAIN k.args : IsLabel(k.args[a]))
  BY <1>1, <1>2, ResolveKeeps DEF NotALabel
<1>s. PICK steps, checks : /\ steps = [i \in DOMAIN t.steps |-> ResolveCap(t.steps[i], values)]
                           /\ checks = {ResolveCap(cap, values) : cap \in Checks(t)}
  OBVIOUS
<1>3. c = [of |-> of, template |-> t, load |-> loads, steps |-> steps, checks |-> checks]
  BY <1>s DEF BuildCommand
<1>4. c.of = of /\ c.template = t /\ c.load = loads /\ c.steps = steps /\ c.checks = checks
  BY <1>3
<1>5. steps # <<>>
  <2>1. t.steps \in Seq(ToSet(t.steps)) /\ t.steps # <<>>
    BY DirectoryAssumption DEF Validate
  <2>2. Len(t.steps) \in Nat /\ Len(t.steps) # 0 /\ DOMAIN t.steps = 1..Len(t.steps)
    BY <2>1, EmptySeq
  <2>3. 1 \in DOMAIN t.steps
    BY <2>2
  <2>4. 1 \in DOMAIN steps /\ DOMAIN (<<>>) = {}
    BY <2>3, <1>s
  <2> QED BY <2>4
<1>6. \A k \in checks : k.name \in ReadOnly
  <2> SUFFICES ASSUME NEW k \in checks PROVE k.name \in ReadOnly
    OBVIOUS
  <2>1. PICK cap \in Checks(t) : k = ResolveCap(cap, values)
    BY <1>s
  <2>2. cap \in Caps(t)
    BY DEF Caps
  <2> QED BY <2>1, <2>2, <1>2 DEF Validate
<1>7. \A k \in ToSet(steps) \cup checks : \E cap \in Caps(t) : k = ResolveCap(cap, values)
  BY <1>s DEF ToSet, Caps
<1> QED BY <1>2, <1>4, <1>5, <1>6, <1>7

\* The server starts with a directory, without proposals.
LEMMA TcInitInv == TcInit => TcInv
<1> SUFFICES ASSUME TcInit PROVE TcInv
  OBVIOUS
<1>1. LoadedOK
  BY DEF TcInit, LoadedOK, LoadDir
<1>2. ProposalsOK
  BY DEF TcInit, ProposalsOK
<1>3. CommandsOK /\ CommandsAreSound /\ ShownIsRun
  BY DEF TcInit, CommandsOK, CommandsAreSound, ShownIsRun
<1> QED BY <1>1, <1>2, <1>3 DEF TcInv

\* The next start: the proposals there are count as older ones.
LEMMA RestartInv == ASSUME TcInv, Restart PROVE TcInv'
<1>0. LoadedOK /\ ProposalsOK /\ CommandsOK /\ CommandsAreSound /\ ShownIsRun
  BY DEF TcInv
<1>1. /\ directory' \in Directories /\ catalog' \in LoadDir(directory') /\ loads' = loads + 1
      /\ UNCHANGED <<proposals, commands, refused>> /\ loads \in Nat
  BY <1>0 DEF Restart, LoadedOK
<1>2. LoadedOK'
  BY <1>1 DEF LoadedOK, LoadDir
<1>3. ProposalsOK'
  <2>1. \A n \in 1..Len(proposals) : proposals[n].load \in Nat /\ proposals[n].load <= loads' /\ proposals[n].load # loads'
    BY <1>0, <1>1 DEF ProposalsOK
  <2> QED BY <1>0, <1>1, <2>1 DEF ProposalsOK
<1>4. CommandsOK' /\ CommandsAreSound' /\ ShownIsRun'
  BY <1>0, <1>1 DEF CommandsOK, CommandsAreSound, ShownIsRun
<1> QED BY <1>2, <1>3, <1>4 DEF TcInv

\* A proposal is made of a template of the directory: those before it stay.
LEMMA ProposeEffect ==
  ASSUME TcInv, UNCHANGED <<directory, loads>>, NEW e, NEW t \in directory,
         proposals' = Append(proposals, Proposal(e, t))
  PROVE  /\ ProposalsOK' /\ Len(proposals') = Len(proposals) + 1 /\ Len(proposals) \in Nat
         /\ \A n \in 1..Len(proposals) : proposals'[n] = proposals[n]
         /\ proposals'[Len(proposals')].template = t
<1>0. LoadedOK /\ ProposalsOK
  BY DEF TcInv
<1>p. PICK p : p = Proposal(e, t)
  OBVIOUS
<1>1. /\ p.template = t /\ p.load = loads /\ DOMAIN p.params = DOMAIN t.parameters
      /\ ~p.twin => \A u \in directory : u.id = t.id => u = t
  BY <1>p DEF Proposal, ResolveParams
<1>2. proposals' = Append(proposals, p) /\ proposals \in Seq(ToSet(proposals))
  BY <1>0, <1>p DEF ProposalsOK
<1>3. /\ Len(proposals') = Len(proposals) + 1 /\ Len(proposals) \in Nat
      /\ \A n \in 1..Len(proposals) : proposals'[n] = proposals[n]
      /\ proposals'[Len(proposals) + 1] = p
      /\ proposals' \in Seq(ToSet(proposals) \cup {p})
  BY <1>2
<1>4. \A n \in 1..Len(proposals') : n \in 1..Len(proposals) \/ n = Len(proposals) + 1
  BY <1>3
<1>5. proposals' \in Seq(ToSet(proposals'))
  BY <1>3 DEF ToSet
<1>6. ASSUME NEW n \in 1..Len(proposals')
      PROVE  /\ proposals'[n].load \in Nat /\ proposals'[n].load <= loads
             /\ DOMAIN proposals'[n].params = DOMAIN proposals'[n].template.parameters
             /\ proposals'[n].load = loads /\ ~proposals'[n].twin =>
                  \A u \in directory : u.id = proposals'[n].template.id => u = proposals'[n].template
  <2>1. CASE n \in 1..Len(proposals)
    BY <2>1, <1>0, <1>3 DEF ProposalsOK
  <2>2. CASE n = Len(proposals) + 1
    BY <2>2, <1>0, <1>1, <1>3 DEF LoadedOK
  <2> QED BY <2>1, <2>2, <1>4
<1>7. ProposalsOK'
  BY <1>5, <1>6 DEF ProposalsOK
<1> QED BY <1>1, <1>3, <1>7

\* A command more, sound and of its proposal's template unless that is excused.
LEMMA IssueInv ==
  ASSUME TcInv, ProposalsOK', UNCHANGED <<directory, catalog, loads, refused>>, catalog # Down,
         Len(proposals) \in Nat, Len(proposals') \in Nat, Len(proposals) <= Len(proposals'),
         \A n \in 1..Len(proposals) : proposals'[n] = proposals[n],
         NEW of \in 1..Len(proposals'), NEW t \in directory, NEW values, BuildError(t, values) = "none",
         t = proposals'[of].template \/ Excused(proposals'[of], loads),
         commands' = commands \cup {BuildCommand(of, t, values)}
  PROVE  TcInv'
<1>0. LoadedOK /\ CommandsOK /\ CommandsAreSound /\ ShownIsRun
  BY DEF TcInv
<1>c. PICK c : c = BuildCommand(of, t, values) /\ commands' = commands \cup {c}
  OBVIOUS
<1>1. directory \in Directories /\ Validate(t)
  BY <1>0 DEF LoadedOK
<1>2. /\ c.of = of /\ c.template = t /\ c.load = loads
      /\ c.steps # <<>> /\ \A k \in c.checks : k.name \in ReadOnly
      /\ \A k \in ToSet(c.steps) \cup c.checks : k.name \in Kube => \A a \in DOMAIN k.args : IsLabel(k.args[a])
  BY <1>1, <1>c, BuiltIsSound
<1>3. LoadedOK'
  BY <1>0 DEF LoadedOK
<1>4. CommandsOK'
  <2>1. 1..Len(proposals) \subseteq 1..Len(proposals')
    OBVIOUS
  <2> QED BY <2>1, <1>0, <1>2, <1>c DEF CommandsOK
<1>5. CommandsAreSound'
  BY <1>0, <1>2, <1>c DEF CommandsAreSound
<1>6. ShownIsRun'
  <2>1. \A d \in commands : d.of \in 1..Len(proposals)
    BY <1>0 DEF CommandsOK
  <2>2. \A d \in commands' : d.template = proposals'[d.of].template \/ Excused(proposals'[d.of], d.load)
    BY <2>1, <1>0, <1>2, <1>c DEF ShownIsRun
  <2> QED BY <2>2, <1>0 DEF ShownIsRun
<1> QED BY <1>3, <1>4, <1>5, <1>6 DEF TcInv

\* A build that was refused for a missing parameter is one that is excused.
LEMMA RefuseInv ==
  ASSUME TcInv, UNCHANGED <<directory, catalog, loads, proposals, commands>>,
         NEW p, NEW error, refused' = <<p, loads, error>>, error = "missing" => Excused(p, loads)
  PROVE  TcInv'
<1>1. refused'[1] = p /\ refused'[2] = loads /\ refused'[3] = error
  OBVIOUS
<1>2. LoadedOK' /\ ProposalsOK' /\ CommandsOK' /\ CommandsAreSound'
  BY DEF TcInv, LoadedOK, ProposalsOK, CommandsOK, CommandsAreSound
<1>3. ShownIsRun'
  BY <1>1 DEF TcInv, ShownIsRun
<1> QED BY <1>2, <1>3 DEF TcInv

\* The values of a template's own parameters are all that its capabilities need.
LEMMA NoneMissing ==
  ASSUME NEW t, Validate(t), NEW values, DOMAIN values = DOMAIN t.parameters
  PROVE  BuildError(t, values) # "missing"
  BY DEF Validate, BuildError, Missing

\* A proposal is put to a human, who sees the template that matched.
LEMMA PrepareProposalInv == ASSUME TcInv, NEW e, PrepareProposal(e) PROVE TcInv'
<1>0. LoadedOK /\ ProposalsOK /\ CommandsOK /\ CommandsAreSound /\ ShownIsRun
  BY DEF TcInv
<1>t. PICK t : t = catalog[MatchEvent(e)]
  OBVIOUS
<1>1. /\ catalog # Down /\ MatchEvent(e) # 0 /\ proposals' = Append(proposals, Proposal(e, t))
      /\ UNCHANGED <<directory, catalog, loads, commands, refused>>
  BY <1>t DEF PrepareProposal
<1>2. t \in directory
  BY <1>0, <1>1, <1>t, MatchFinds DEF LoadedOK
<1>3. /\ ProposalsOK' /\ Len(proposals') = Len(proposals) + 1 /\ Len(proposals) \in Nat
      /\ \A n \in 1..Len(proposals) : proposals'[n] = proposals[n]
  BY <1>1, <1>2, ProposeEffect
<1>4. LoadedOK' /\ CommandsAreSound'
  BY <1>0, <1>1 DEF LoadedOK, CommandsAreSound
<1>5. CommandsOK'
  <2>1. 1..Len(proposals) \subseteq 1..Len(proposals')
    BY <1>3
  <2> QED BY <2>1, <1>0, <1>1 DEF CommandsOK
<1>6. ShownIsRun'
  <2>1. \A d \in commands : proposals'[d.of] = proposals[d.of]
    BY <1>0, <1>3 DEF CommandsOK
  <2> QED BY <2>1, <1>0, <1>1 DEF ShownIsRun
<1> QED BY <1>3, <1>4, <1>5, <1>6 DEF TcInv

\* The policy has a command built at once, of the template that matched.
LEMMA PrepareAutoInv == ASSUME TcInv, NEW e, PrepareAuto(e) PROVE TcInv'
<1>0. LoadedOK /\ ProposalsOK
  BY DEF TcInv
<1>t. PICK t, values, error : /\ t = catalog[MatchEvent(e)] /\ values = ResolveParams(t, e)
                              /\ error = BuildError(t, values)
  OBVIOUS
<1>1. /\ catalog # Down /\ MatchEvent(e) # 0 /\ UNCHANGED <<directory, catalog, loads>>
      /\ \/ /\ error = "none" /\ proposals' = Append(proposals, Proposal(e, t))
            /\ commands' = commands \cup {BuildCommand(Len(proposals'), t, values)} /\ UNCHANGED refused
         \/ /\ error # "none" /\ refused' = <<Proposal(e, t), loads, error>>
            /\ UNCHANGED <<proposals, commands>>
  BY <1>t DEF PrepareAuto
<1>2. t \in directory /\ Validate(t)
  BY <1>0, <1>1, <1>t, MatchFinds DEF LoadedOK
<1>3. CASE /\ error = "none" /\ proposals' = Append(proposals, Proposal(e, t))
           /\ commands' = commands \cup {BuildCommand(Len(proposals'), t, values)} /\ UNCHANGED refused
  <2>1. /\ ProposalsOK' /\ Len(proposals') = Len(proposals) + 1 /\ Len(proposals) \in Nat
        /\ \A n \in 1..Len(proposals) : proposals'[n] = proposals[n]
        /\ proposals'[Len(proposals')].template = t
    BY <1>1, <1>2, <1>3, ProposeEffect
  <2>2. Len(proposals') \in 1..Len(proposals') /\ Len(proposals') \in Nat /\ Len(proposals) <= Len(proposals')
    BY <2>1
  <2> QED BY <2>1, <2>2, <1>1, <1>2, <1>3, <1>t, IssueInv
<1>4. CASE /\ error # "none" /\ refused' = <<Proposal(e, t), loads, error>>
           /\ UNCHANGED <<proposals, commands>>
  <2>1. error # "missing"
    BY <1>2, <1>t, NoneMissing DEF ResolveParams
  <2> QED BY <2>1, <1>1, <1>4, RefuseInv
<1> QED BY <1>1, <1>3, <1>4

\* An approval looks the template up by its id: the same one, unless that is excused.
LEMMA ApproveInv == ASSUME TcInv, NEW n \in DOMAIN proposals, Approve(n) PROVE TcInv'
<1>0. LoadedOK /\ ProposalsOK
  BY DEF TcInv
<1>t. PICK p, t, error : /\ p = proposals[n] /\ t = catalog[Get(p.template.id)]
                         /\ error = BuildError(t, p.params)
  OBVIOUS
<1>1. /\ catalog # Down /\ Get(p.template.id) # 0 /\ UNCHANGED <<directory, catalog, loads, proposals>>
      /\ \/ /\ error = "none" /\ commands' = commands \cup {BuildCommand(n, t, p.params)} /\ UNCHANGED refused
         \/ error # "none" /\ refused' = <<p, loads, error>> /\ UNCHANGED commands
  BY <1>t DEF Approve
<1>2. t \in directory /\ t.id = p.template.id /\ Validate(t)
  BY <1>0, <1>1, <1>t, GetFinds DEF LoadedOK
<1>3. n \in 1..Len(proposals) /\ Len(proposals) \in Nat
  BY <1>0 DEF ProposalsOK
<1>4. /\ p.load \in Nat /\ p.load <= loads /\ loads \in Nat
      /\ DOMAIN p.params = DOMAIN p.template.parameters
      /\ p.load = loads /\ ~p.twin => t = p.template
  BY <1>0, <1>2, <1>3, <1>t DEF ProposalsOK, LoadedOK
<1>5. t = p.template \/ Excused(p, loads)
  BY <1>4 DEF Excused
<1>6. CASE error = "none" /\ commands' = commands \cup {BuildCommand(n, t, p.params)} /\ UNCHANGED refused
  <2>1. ProposalsOK' /\ proposals' = proposals
    BY <1>0, <1>1 DEF ProposalsOK
  <2> QED BY <2>1, <1>1, <1>2, <1>3, <1>5, <1>6, <1>t, IssueInv
<1>7. CASE error # "none" /\ refused' = <<p, loads, error>> /\ UNCHANGED commands
  <2>1. error = "missing" => Excused(p, loads)
    BY <1>2, <1>4, <1>5, <1>t, NoneMissing
  <2> QED BY <2>1, <1>1, <1>7, RefuseInv
<1> QED BY <1>1, <1>6, <1>7

\* Every step of the catalog keeps its invariant.
LEMMA TcStep == ASSUME TcInv, [TcNext]_tcVars PROVE TcInv'
<1>1. CASE UNCHANGED tcVars
  BY <1>1 DEF tcVars, TcInv, LoadedOK, ProposalsOK, CommandsOK, CommandsAreSound, ShownIsRun
<1> QED BY <1>1, RestartInv, PrepareProposalInv, PrepareAutoInv, ApproveInv DEF TcNext

\* A signed command has steps, checks that only read, and hands the Kubernetes API
\* nothing but labels (Template::validate, Capability::resolve, build_command): for
\* any templates, events and longest label.
THEOREM EveryCommandIsSound == TcSpec => []CommandsAreSound
<1>1. TcInv => CommandsAreSound
  BY DEF TcInv
<1> QED BY <1>1, TcInitInv, TcStep, PTL DEF TcSpec

\* An approval runs the template the operator was shown, and never lacks a parameter,
\* except after a restart or with two files of one id (approve_remediation, get): for
\* any templates and events.
THEOREM WhatWasShownRuns == TcSpec => []ShownIsRun
<1>1. TcInv => ShownIsRun
  BY DEF TcInv
<1> QED BY <1>1, TcInitInv, TcStep, PTL DEF TcSpec

-----------------------------------------------------------------------------
(* KnowledgeBase *)

KbSpec == KbInit /\ [][KbNext]_kbVars

Entries == [sig : Signatures, template : {"real", "gap"}, outcomes : SUBSET Nat, occurrences : Nat]
Recorded == [sig : Signatures, kind : {"outcome", "gap"}, done : BOOLEAN]
Opening == [pc : {"open"}, n : Nat, entry : Entries]
Storing == [pc : {"write", "rename"}, n : Nat, entry : Entries, fd : Nat]
Recording(r) == rec[r].pc # "idle"
HasOpen(r) == rec[r].pc \in {"write", "rename"}

KbTypeOK ==
  /\ inode \in Seq(Entries \cup {Cut})
  /\ file \in [Slugs -> 0..Len(inode)] /\ tmp \in [Slugs -> 0..Len(inode)]
  /\ rec \in [Recorders -> {NoRecording} \cup Opening \cup Storing]
  /\ records \in Seq(Recorded)
  /\ \A r \in Recorders : Recording(r) => rec[r].n \in 1..Len(records)
  /\ \A r \in Recorders : HasOpen(r) => rec[r].fd \in 1..Len(inode)

\* No inode has two names, and one that is open for writing has no name of another slug.
InodesApart ==
  /\ \A s, u \in Slugs : file[s] # 0 => file[s] # tmp[u] /\ (s # u => file[s] # file[u])
  /\ \A s, u \in Slugs : tmp[s] # 0 /\ s # u => tmp[s] # tmp[u]
  /\ \A r \in Recorders, s \in Slugs : HasOpen(r) /\ rec[r].fd \in {file[s], tmp[s]} => SlugOf(r) = s

\* The entry e, of a slug with outcomes O and gaps G, counts none of them twice ...
HonestFor(e, O, G) ==
  /\ e.outcomes \subseteq O
  /\ e.occurrences <= Cardinality(O) + Cardinality(G)
  /\ e.occurrences >= Cardinality(e.outcomes)
\* ... or is made of exactly those.
CompleteFor(e, O, G) ==
  /\ e.outcomes = O
  /\ e.occurrences = Cardinality(O) + Cardinality(G)
  /\ e.template = IF O = {} THEN "gap" ELSE "real"

\* Every entry, on disk under either name or in memory, is honest.
HonestOK ==
  /\ \A s \in Slugs : \A f \in {file[s], tmp[s]} : f # 0 /\ inode[f] # Cut =>
       HonestFor(inode[f], Of(s, "outcome"), Of(s, "gap"))
  /\ \A r \in Recorders : Recording(r) => HonestFor(rec[r].entry, Of(SlugOf(r), "outcome"), Of(SlugOf(r), "gap"))

\* The records of a kind that will be done for its slug once the one of r is.
After(r, kind) ==
  Done(SlugOf(r), kind) \cup (IF records[rec[r].n].kind = kind THEN {rec[r].n} ELSE {})

\* Where no two records overlapped: the file is whole and holds what is done; whoever
\* records is alone, has in hand what is done and its own, and owns the temporary file.
Orderly(s) ==
  s \notin crowded =>
    /\ IF file[s] = 0 THEN Done(s, "outcome") = {} /\ Done(s, "gap") = {}
       ELSE inode[file[s]] # Cut /\ CompleteFor(inode[file[s]], Done(s, "outcome"), Done(s, "gap"))
    /\ \A r \in Recorders : Recording(r) /\ SlugOf(r) = s =>
         /\ \A q \in Recorders \ {r} : Recording(q) => SlugOf(q) # s
         /\ CompleteFor(rec[r].entry, After(r, "outcome"), After(r, "gap")) /\ ~records[rec[r].n].done
         /\ HasOpen(r) => tmp[s] = rec[r].fd
         /\ rec[r].pc = "rename" => inode[rec[r].fd] = rec[r].entry

KbInv == KbTypeOK /\ InodesApart /\ HonestOK /\ \A s \in Slugs : Orderly(s)

\* What the kinds of values are told apart by.
LEMMA KbDistinct ==
  /\ Cut \notin Entries /\ NoEntry \notin Entries /\ NoRecording.pc = "idle"
  /\ \A x \in Opening : x.pc = "open" /\ x.n \in Nat /\ x.entry \in Entries
  /\ \A x \in Storing : x.pc \in {"write", "rename"} /\ x.n \in Nat /\ x.entry \in Entries /\ x.fd \in Nat
  /\ \A sig \in Signatures : Slug(sig) \in Slugs
  BY DEF Cut, NoEntry, Entries, NoRecording, Opening, Storing, Slugs

\* The records of a slug are finitely many, those done among them.
LEMMA OfFinite ==
  ASSUME records \in Seq(Recorded), NEW s, NEW kind
  PROVE  /\ Of(s, kind) \subseteq 1..Len(records) /\ Done(s, kind) \subseteq Of(s, kind)
         /\ IsFiniteSet(Of(s, kind)) /\ IsFiniteSet(Done(s, kind))
         /\ Len(records) \in Nat /\ DOMAIN records = 1..Len(records)
<1>1. Len(records) \in Nat /\ DOMAIN records = 1..Len(records)
  OBVIOUS
<1>2. IsFiniteSet(1..Len(records))
  BY <1>1, FS_Interval
<1>3. Of(s, kind) \subseteq 1..Len(records) /\ Done(s, kind) \subseteq Of(s, kind)
  BY <1>1 DEF Of, Done
<1>4. IsFiniteSet(Of(s, kind)) /\ IsFiniteSet(Done(s, kind))
  BY <1>2, <1>3, FS_Subset
<1> QED BY <1>1, <1>3, <1>4

\* An entry that is honest stays so as records are made.
LEMMA HonestGrows ==
  ASSUME NEW e, e.occurrences \in Nat, NEW O, NEW G, NEW P, NEW H, HonestFor(e, O, G),
         O \subseteq P, G \subseteq H, IsFiniteSet(P), IsFiniteSet(H)
  PROVE  HonestFor(e, P, H)
<1>1. /\ Cardinality(O) <= Cardinality(P) /\ Cardinality(G) <= Cardinality(H)
      /\ Cardinality(O) \in Nat /\ Cardinality(P) \in Nat /\ Cardinality(G) \in Nat /\ Cardinality(H) \in Nat
  BY FS_Subset, FS_CardinalityType
<1>2. e.outcomes \subseteq P /\ e.occurrences <= Cardinality(P) + Cardinality(H)
  BY <1>1 DEF HonestFor
<1> QED BY <1>2 DEF HonestFor

\* One more outcome keeps an entry honest, and complete.
LEMMA OutcomeCounts ==
  ASSUME NEW entry \in Entries \cup {NoEntry}, NEW sig \in Signatures, NEW n \in Nat,
         NEW O, NEW G, IsFiniteSet(O), IsFiniteSet(G), n \notin O, NEW e, e = WithOutcome(entry, sig, n)
  PROVE  /\ e \in Entries
         /\ (entry # NoEntry => HonestFor(entry, O, G)) => HonestFor(e, O \cup {n}, G)
         /\ (IF entry = NoEntry THEN O = {} /\ G = {} ELSE CompleteFor(entry, O, G)) => CompleteFor(e, O \cup {n}, G)
<1>1. /\ Cardinality(O) \in Nat /\ Cardinality(G) \in Nat /\ Cardinality(O \cup {n}) = Cardinality(O) + 1
      /\ Cardinality({}) = 0 /\ IsFiniteSet({})
  BY FS_CardinalityType, FS_AddElement, FS_EmptySet
<1>2. CASE entry = NoEntry
  <2>1. e = [sig |-> sig, template |-> "real", outcomes |-> {n}, occurrences |-> 1]
    BY <1>2 DEF WithOutcome
  <2>2. e \in Entries /\ e.outcomes = {n} /\ e.occurrences = 1 /\ e.template = "real"
    BY <2>1 DEF Entries
  <2>3. Cardinality({n}) = 1
    BY FS_Singleton
  <2>4. HonestFor(e, O \cup {n}, G)
    BY <2>2, <2>3, <1>1 DEF HonestFor
  <2>5. O = {} /\ G = {} => CompleteFor(e, O \cup {n}, G)
    BY <2>2, <2>3, <1>1 DEF CompleteFor
  <2> QED BY <2>2, <2>4, <2>5, <1>2
<1>3. CASE entry # NoEntry
  <2>1. entry \in Entries
    BY <1>3
  <2>2. entry.outcomes \in SUBSET Nat /\ entry.occurrences \in Nat
    BY <2>1 DEF Entries
  <2>o. PICK o \in SUBSET Nat, c \in Nat : o = entry.outcomes \cup {n} /\ c = entry.occurrences + 1
    <3>1. entry.outcomes \cup {n} \in SUBSET Nat /\ entry.occurrences + 1 \in Nat
      BY <2>2
    <3> QED BY <3>1
  <2>3. e = [entry EXCEPT !.template = "real", !.outcomes = o, !.occurrences = c]
    BY <1>3, <2>o DEF WithOutcome
  <2>4. /\ e.outcomes = entry.outcomes \cup {n} /\ e.occurrences = entry.occurrences + 1
        /\ e.template = "real" /\ e \in Entries
    BY <2>1, <2>o, <2>3 DEF Entries
  <2>5. ASSUME HonestFor(entry, O, G) PROVE HonestFor(e, O \cup {n}, G)
    <3>1. IsFiniteSet(entry.outcomes)
      BY <2>5, FS_Subset DEF HonestFor
    <3>2. /\ Cardinality(entry.outcomes) \in Nat /\ n \notin entry.outcomes
          /\ Cardinality(entry.outcomes \cup {n}) = Cardinality(entry.outcomes) + 1
      BY <3>1, <2>5, FS_CardinalityType, FS_AddElement DEF HonestFor
    <3> QED BY <2>2, <2>4, <2>5, <3>2, <1>1 DEF HonestFor
  <2>6. CompleteFor(entry, O, G) => CompleteFor(e, O \cup {n}, G)
    BY <2>4, <1>1 DEF CompleteFor
  <2> QED BY <2>4, <2>5, <2>6, <1>3
<1> QED BY <1>2, <1>3

\* So does one more gap.
LEMMA GapCounts ==
  ASSUME NEW entry \in Entries \cup {NoEntry}, NEW sig \in Signatures, NEW n \in Nat,
         NEW O, NEW G, IsFiniteSet(O), IsFiniteSet(G), n \notin G, NEW e, e = WithGap(entry, sig)
  PROVE  /\ e \in Entries
         /\ (entry # NoEntry => HonestFor(entry, O, G)) => HonestFor(e, O, G \cup {n})
         /\ (IF entry = NoEntry THEN O = {} /\ G = {} ELSE CompleteFor(entry, O, G)) => CompleteFor(e, O, G \cup {n})
<1>1. /\ Cardinality(O) \in Nat /\ Cardinality(G) \in Nat /\ Cardinality(G \cup {n}) = Cardinality(G) + 1
      /\ Cardinality({}) = 0 /\ IsFiniteSet({})
  BY FS_CardinalityType, FS_AddElement, FS_EmptySet
<1>2. CASE entry = NoEntry
  <2>1. e = [sig |-> sig, template |-> "gap", outcomes |-> {}, occurrences |-> 1]
    BY <1>2 DEF WithGap
  <2>2. e \in Entries /\ e.outcomes = {} /\ e.occurrences = 1 /\ e.template = "gap"
    BY <2>1 DEF Entries
  <2>4. HonestFor(e, O, G \cup {n})
    BY <2>2, <1>1 DEF HonestFor
  <2>5. O = {} /\ G = {} => CompleteFor(e, O, G \cup {n})
    BY <2>2, <1>1 DEF CompleteFor
  <2> QED BY <2>2, <2>4, <2>5, <1>2
<1>3. CASE entry # NoEntry
  <2>1. entry \in Entries
    BY <1>3
  <2>2. entry.outcomes \in SUBSET Nat /\ entry.occurrences \in Nat
    BY <2>1 DEF Entries
  <2>3. e = [entry EXCEPT !.occurrences = entry.occurrences + 1]
    BY <1>3 DEF WithGap
  <2>4. /\ e.outcomes = entry.outcomes /\ e.occurrences = entry.occurrences + 1
        /\ e.template = entry.template /\ e \in Entries
    BY <2>1, <2>2, <2>3 DEF Entries
  <2>5. ASSUME HonestFor(entry, O, G) PROVE HonestFor(e, O, G \cup {n})
    <3>1. IsFiniteSet(entry.outcomes)
      BY <2>5, FS_Subset DEF HonestFor
    <3>2. Cardinality(entry.outcomes) \in Nat
      BY <3>1, FS_CardinalityType
    <3> QED BY <2>2, <2>4, <2>5, <3>2, <1>1 DEF HonestFor
  <2>6. CompleteFor(entry, O, G) => CompleteFor(e, O, G \cup {n})
    BY <2>4, <1>1 DEF CompleteFor
  <2> QED BY <2>4, <2>5, <2>6, <1>3
<1> QED BY <1>2, <1>3

\* What is known of a recorder under way and of the names of a slug.
LEMMA KbFacts ==
  ASSUME KbTypeOK
  PROVE  /\ \A r \in Recorders : Recording(r) =>
              /\ rec[r].n \in 1..Len(records) /\ rec[r].entry \in Entries
              /\ SlugOf(r) \in Slugs /\ records[rec[r].n] \in Recorded
         /\ \A r \in Recorders : HasOpen(r) => Recording(r) /\ rec[r].fd \in 1..Len(inode)
         /\ \A s \in Slugs : file[s] \in 0..Len(inode) /\ tmp[s] \in 0..Len(inode)
         /\ \A f \in 1..Len(inode) : inode[f] \in Entries \cup {Cut}
         /\ Len(inode) \in Nat /\ Len(records) \in Nat
<1>1. \A r \in Recorders : Recording(r) => rec[r] \in Opening \cup Storing
  BY KbDistinct DEF KbTypeOK, Recording
<1>2. \A r \in Recorders : Recording(r) => rec[r].n \in 1..Len(records) /\ records[rec[r].n] \in Recorded
  BY DEF KbTypeOK
<1>3. \A r \in Recorders : Recording(r) => SlugOf(r) \in Slugs
  BY <1>2, KbDistinct DEF SlugOf, Recorded
<1>4. \A r \in Recorders : HasOpen(r) => Recording(r) /\ rec[r].fd \in 1..Len(inode)
  BY DEF KbTypeOK, HasOpen, Recording
<1> QED BY <1>1, <1>2, <1>3, <1>4, KbDistinct DEF KbTypeOK

\* A slug that a step is not about, or of which it only ends recordings, stays in order.
LEMMA OrderlyStays ==
  ASSUME KbTypeOK, NEW s \in Slugs, Orderly(s), s \in crowded => s \in crowded',
         file'[s] = file[s], tmp'[s] = tmp[s],
         file[s] # 0 => inode'[file[s]] = inode[file[s]],
         tmp[s] # 0 => inode'[tmp[s]] = inode[tmp[s]],
         \A kind \in {"outcome", "gap"} : Done(s, kind)' = Done(s, kind),
         \A r \in Recorders : Recording(r)' /\ SlugOf(r)' = s =>
           /\ rec'[r] = rec[r] /\ Recording(r) /\ SlugOf(r) = s
           /\ records'[rec[r].n] = records[rec[r].n]
  PROVE  Orderly(s)'
<1> SUFFICES ASSUME s \notin crowded' PROVE Orderly(s)'
  BY DEF Orderly
<1>1. /\ IF file[s] = 0 THEN Done(s, "outcome") = {} /\ Done(s, "gap") = {}
         ELSE inode[file[s]] # Cut /\ CompleteFor(inode[file[s]], Done(s, "outcome"), Done(s, "gap"))
      /\ \A r \in Recorders : Recording(r) /\ SlugOf(r) = s =>
           /\ \A q \in Recorders \ {r} : Recording(q) => SlugOf(q) # s
           /\ CompleteFor(rec[r].entry, After(r, "outcome"), After(r, "gap")) /\ ~records[rec[r].n].done
           /\ HasOpen(r) => tmp[s] = rec[r].fd
           /\ rec[r].pc = "rename" => inode[rec[r].fd] = rec[r].entry
  BY DEF Orderly
<1>2. IF file'[s] = 0 THEN Done(s, "outcome")' = {} /\ Done(s, "gap")' = {}
      ELSE inode'[file'[s]] # Cut /\ CompleteFor(inode'[file'[s]], Done(s, "outcome")', Done(s, "gap")')
  BY <1>1
<1>3. ASSUME NEW r \in Recorders, Recording(r)', SlugOf(r)' = s
      PROVE  /\ \A q \in Recorders \ {r} : Recording(q)' => SlugOf(q)' # s
             /\ CompleteFor(rec'[r].entry, After(r, "outcome")', After(r, "gap")') /\ ~records'[rec'[r].n].done
             /\ HasOpen(r)' => tmp'[s] = rec'[r].fd
             /\ rec'[r].pc = "rename" => inode'[rec'[r].fd] = rec'[r].entry
  <2>1. /\ rec'[r] = rec[r] /\ Recording(r) /\ SlugOf(r) = s
        /\ records'[rec[r].n] = records[rec[r].n]
    BY <1>3
  <2>2. After(r, "outcome")' = After(r, "outcome") /\ After(r, "gap")' = After(r, "gap")
    BY <1>3, <2>1 DEF After
  <2>3. HasOpen(r)' <=> HasOpen(r)
    BY <2>1 DEF HasOpen
  <2>4. HasOpen(r) => tmp[s] = rec[r].fd /\ tmp[s] # 0
    BY <1>1, <2>1, KbFacts
  <2>5. rec[r].pc = "rename" => inode'[rec[r].fd] = rec[r].entry
    BY <1>1, <2>1, <2>4 DEF HasOpen
  <2>6. \A q \in Recorders \ {r} : Recording(q)' => SlugOf(q)' # s
    BY <1>1, <2>1
  <2> QED BY <1>1, <2>1, <2>2, <2>3, <2>4, <2>5, <2>6
<1> QED BY <1>2, <1>3 DEF Orderly

\* Nothing is recorded at first.
LEMMA KbInitInv == KbInit => KbInv
<1> SUFFICES ASSUME KbInit PROVE KbInv
  OBVIOUS
<1>1. Len(inode) = 0 /\ inode \in Seq(Entries \cup {Cut}) /\ records \in Seq(Recorded) /\ DOMAIN records = {}
  BY DEF KbInit
<1>2. /\ \A r \in Recorders : rec[r] = NoRecording /\ ~Recording(r) /\ ~HasOpen(r)
      /\ \A s \in Slugs : file[s] = 0 /\ tmp[s] = 0
  BY DEF KbInit, Recording, HasOpen, NoRecording
<1>3. KbTypeOK
  <2>1. file \in [Slugs -> 0..Len(inode)] /\ tmp \in [Slugs -> 0..Len(inode)]
    BY <1>1 DEF KbInit
  <2>2. rec \in [Recorders -> {NoRecording} \cup Opening \cup Storing]
    BY DEF KbInit
  <2> QED BY <1>1, <1>2, <2>1, <2>2 DEF KbTypeOK
<1>4. InodesApart /\ HonestOK
  BY <1>2 DEF InodesApart, HonestOK
<1>5. \A s \in Slugs : Orderly(s)
  BY <1>1, <1>2 DEF Orderly, Done, Of
<1> QED BY <1>3, <1>4, <1>5 DEF KbInv

\* Recordings end, by a failed write, a rename of what is gone or a crash: nothing
\* that is left says anything new.
LEMMA RecordingsEndInv ==
  ASSUME KbInv, UNCHANGED <<inode, file, tmp, records, crowded>>,
         DOMAIN rec' = Recorders, rec' = [r \in Recorders |-> rec'[r]],
         \A r \in Recorders : rec'[r] = rec[r] \/ rec'[r] = NoRecording
  PROVE  KbInv'
<1>0. KbTypeOK /\ InodesApart /\ HonestOK /\ \A s \in Slugs : Orderly(s)
  BY DEF KbInv
<1>1. \A r \in Recorders : Recording(r)' => rec'[r] = rec[r] /\ Recording(r) /\ SlugOf(r)' = SlugOf(r)
  BY KbDistinct DEF Recording, SlugOf
<1>2. \A r \in Recorders : HasOpen(r)' => rec'[r] = rec[r] /\ HasOpen(r) /\ SlugOf(r)' = SlugOf(r)
  BY KbDistinct DEF HasOpen, SlugOf
<1>3. KbTypeOK'
  <2>1. rec' \in [Recorders -> {NoRecording} \cup Opening \cup Storing]
    BY <1>0 DEF KbTypeOK
  <2> QED BY <1>0, <1>1, <1>2, <2>1 DEF KbTypeOK
<1>4. InodesApart'
  BY <1>0, <1>2 DEF InodesApart
<1>5. \A s, kind : Of(s, kind)' = Of(s, kind) /\ Done(s, kind)' = Done(s, kind)
  BY DEF Of, Done
<1>6. HonestOK'
  BY <1>0, <1>1, <1>5 DEF HonestOK
<1>7. \A s \in Slugs : Orderly(s)'
  BY <1>0, <1>1, <1>5, OrderlyStays
<1> QED BY <1>3, <1>4, <1>6, <1>7 DEF KbInv

\* A record begins: the entry in hand counts it, and with no other under way for the
\* slug it is all that is done and this.
LEMMA RecordLoadInv ==
  ASSUME KbInv, NEW r \in Recorders, NEW sig \in Signatures, NEW kind \in {"outcome", "gap"},
         RecordLoad(r, sig, kind)
  PROVE  KbInv'
<1>0. KbTypeOK /\ InodesApart /\ HonestOK /\ \A s \in Slugs : Orderly(s)
  BY DEF KbInv
<1>n. PICK n, u, entry, e, x :
        /\ n = Len(records) + 1 /\ u = Slug(sig) /\ entry = Load(u)
        /\ e = IF kind = "outcome" THEN WithOutcome(entry, sig, n) ELSE WithGap(entry, sig)
        /\ x = [sig |-> sig, kind |-> kind, done |-> FALSE]
  OBVIOUS
<1>1. /\ rec[r].pc = "idle" /\ records' = Append(records, x)
      /\ rec' = [rec EXCEPT ![r] = [pc |-> "open", n |-> n, entry |-> e]]
      /\ crowded' = IF Busy(u) THEN crowded \cup {u} ELSE crowded
      /\ UNCHANGED <<inode, file, tmp>>
  BY <1>n DEF RecordLoad
<1>2. u \in Slugs /\ x \in Recorded /\ x.sig = sig /\ x.kind = kind /\ x.done = FALSE
  BY <1>n, KbDistinct DEF Recorded
<1>3. /\ records' \in Seq(Recorded) /\ Len(records') = n /\ records'[n] = x /\ Len(records) \in Nat
      /\ \A m \in 1..Len(records) : records'[m] = records[m]
      /\ DOMAIN records = 1..Len(records) /\ DOMAIN records' = 1..Len(records) \cup {n}
      /\ n \in Nat /\ n \notin 1..Len(records) /\ records \in Seq(Recorded)
  <2>1. records \in Seq(Recorded) /\ Len(records) \in Nat
    BY <1>0 DEF KbTypeOK
  <2> QED BY <2>1, <1>1, <1>2, <1>n
<1>4. \A s, k : /\ Of(s, k)' = Of(s, k) \cup (IF s = u /\ k = kind THEN {n} ELSE {})
                /\ Done(s, k)' = Done(s, k)
                /\ n \notin Of(s, k) /\ n \notin Done(s, k)
  BY <1>2, <1>3, <1>n DEF Of, Done
<1>5. \A s, k : /\ IsFiniteSet(Of(s, k)) /\ IsFiniteSet(Done(s, k)) /\ IsFiniteSet(Of(s, k)')
                /\ Of(s, k) \subseteq Of(s, k)'
  <2>1. \A s, k : IsFiniteSet(Of(s, k)) /\ IsFiniteSet(Done(s, k))
    BY <1>3, OfFinite
  <2>2. \A S : IsFiniteSet(S) => IsFiniteSet(S \cup {n})
    BY FS_AddElement
  <2> QED BY <2>1, <2>2, <1>4
<1>6. entry \in Entries \cup {NoEntry} /\ (entry # NoEntry => file[u] # 0 /\ inode[file[u]] # Cut /\ entry = inode[file[u]])
  <2>1. file[u] \in 0..Len(inode) /\ Len(inode) \in Nat
    BY <1>0, <1>2, KbFacts
  <2>2. file[u] # 0 => inode[file[u]] \in Entries \cup {Cut}
    BY <1>0, <2>1, KbFacts
  <2> QED BY <2>1, <2>2, <1>n DEF Load
<1>7. entry # NoEntry => HonestFor(entry, Of(u, "outcome"), Of(u, "gap"))
  BY <1>0, <1>2, <1>6 DEF HonestOK
<1>8. e \in Entries /\ HonestFor(e, Of(u, "outcome")', Of(u, "gap")')
  <2>1. CASE kind = "outcome"
    <3>1. Of(u, "outcome")' = Of(u, "outcome") \cup {n} /\ Of(u, "gap")' = Of(u, "gap")
      BY <2>1, <1>4
    <3>2. e = WithOutcome(entry, sig, n)
      BY <2>1, <1>n
    <3>3. IsFiniteSet(Of(u, "outcome")) /\ IsFiniteSet(Of(u, "gap")) /\ n \notin Of(u, "outcome") /\ n \in Nat
      BY <1>3, <1>4, <1>5
    <3> QED BY <3>1, <3>2, <3>3, <1>6, <1>7, OutcomeCounts
  <2>2. CASE kind = "gap"
    <3>1. Of(u, "outcome")' = Of(u, "outcome") /\ Of(u, "gap")' = Of(u, "gap") \cup {n}
      BY <2>2, <1>4
    <3>2. e = WithGap(entry, sig)
      BY <2>2, <1>n
    <3>3. IsFiniteSet(Of(u, "outcome")) /\ IsFiniteSet(Of(u, "gap")) /\ n \notin Of(u, "gap") /\ n \in Nat
      BY <1>3, <1>4, <1>5
    <3> QED BY <3>1, <3>2, <3>3, <1>6, <1>7, GapCounts
  <2> QED BY <2>1, <2>2
<1>9. \A q \in Recorders : rec'[q] = IF q = r THEN [pc |-> "open", n |-> n, entry |-> e] ELSE rec[q]
  BY <1>0, <1>1 DEF KbTypeOK
<1>10. /\ Recording(r)' /\ ~HasOpen(r)' /\ SlugOf(r)' = u /\ rec'[r].entry = e /\ rec'[r].n = n
       /\ ~Recording(r)
       /\ \A q \in Recorders \ {r} : /\ rec'[q] = rec[q] /\ (Recording(q)' <=> Recording(q))
                                     /\ (HasOpen(q)' <=> HasOpen(q))
                                     /\ Recording(q) => SlugOf(q)' = SlugOf(q) /\ records'[rec[q].n] = records[rec[q].n]
  <2>1. \A q \in Recorders : Recording(q) => rec[q].n \in 1..Len(records)
    BY <1>0, KbFacts
  <2>2. rec'[r] = [pc |-> "open", n |-> n, entry |-> e]
    BY <1>9
  <2> QED BY <2>1, <2>2, <1>1, <1>2, <1>3, <1>9, <1>n DEF Recording, HasOpen, SlugOf
<1>11. KbTypeOK'
  <2>1. [pc |-> "open", n |-> n, entry |-> e] \in Opening
    BY <1>3, <1>8 DEF Opening
  <2>2. rec' \in [Recorders -> {NoRecording} \cup Opening \cup Storing]
    BY <1>0, <1>1, <2>1 DEF KbTypeOK
  <2>3. \A q \in Recorders : Recording(q)' => rec'[q].n \in 1..Len(records')
    BY <1>0, <1>3, <1>10, <1>n DEF KbTypeOK
  <2>4. \A q \in Recorders : HasOpen(q)' => rec'[q].fd \in 1..Len(inode')
    BY <1>0, <1>1, <1>10 DEF KbTypeOK
  <2> QED BY <1>0, <1>1, <1>3, <2>2, <2>3, <2>4 DEF KbTypeOK
<1>12. InodesApart'
  <2>1. \A q \in Recorders : HasOpen(q)' => HasOpen(q) /\ rec'[q] = rec[q] /\ SlugOf(q)' = SlugOf(q)
    BY <1>0, <1>10, KbFacts
  <2> QED BY <1>0, <1>1, <2>1 DEF InodesApart
<1>13. HonestOK'
  <2>1. ASSUME NEW s \in Slugs, NEW f \in {file[s], tmp[s]}, f # 0, inode[f] # Cut
        PROVE  HonestFor(inode[f], Of(s, "outcome")', Of(s, "gap")')
    <3>1. HonestFor(inode[f], Of(s, "outcome"), Of(s, "gap"))
      BY <1>0, <2>1 DEF HonestOK
    <3>2. f \in 1..Len(inode)
      BY <1>0, <2>1, KbFacts
    <3>3. inode[f] \in Entries
      BY <1>0, <2>1, <3>2, KbFacts
    <3>4. inode[f].occurrences \in Nat
      BY <3>3 DEF Entries
    <3> QED BY <3>1, <3>4, <1>5, HonestGrows
  <2>2. ASSUME NEW q \in Recorders, q # r, Recording(q)
        PROVE  HonestFor(rec'[q].entry, Of(SlugOf(q), "outcome")', Of(SlugOf(q), "gap")')
    <3>v. PICK v : v = SlugOf(q)
      OBVIOUS
    <3>1. HonestFor(rec[q].entry, Of(v, "outcome"), Of(v, "gap"))
      BY <1>0, <2>2, <3>v DEF HonestOK
    <3>2. rec[q].entry.occurrences \in Nat
      BY <1>0, <2>2, KbFacts DEF Entries
    <3>3. HonestFor(rec[q].entry, Of(v, "outcome")', Of(v, "gap")')
      BY <3>1, <3>2, <1>5, HonestGrows
    <3>4. SlugOf(q)' = v /\ rec'[q] = rec[q]
      BY <3>v, <2>2, <1>10
    <3> QED BY <3>3, <3>4
  <2>3. HonestFor(rec'[r].entry, Of(SlugOf(r), "outcome")', Of(SlugOf(r), "gap")')
    BY <1>8, <1>10
  <2> QED BY <2>1, <2>2, <2>3, <1>1, <1>10 DEF HonestOK
<1>14. ASSUME NEW s \in Slugs PROVE Orderly(s)'
  <2>1. CASE s # u
    <3>1. s \in crowded => s \in crowded'
      BY <1>1
    <3>2. \A q \in Recorders : Recording(q)' /\ SlugOf(q)' = s =>
            /\ rec'[q] = rec[q] /\ Recording(q) /\ SlugOf(q) = s
            /\ records'[rec[q].n] = records[rec[q].n]
      BY <2>1, <1>10
    <3> QED BY <1>0, <1>1, <1>4, <3>1, <3>2, OrderlyStays
  <2>2. CASE s = u
    <3> SUFFICES ASSUME u \notin crowded' PROVE Orderly(u)'
      BY <2>2 DEF Orderly
    <3>1. ~Busy(u) /\ u \notin crowded
      BY <1>1
    <3>2. \A q \in Recorders : Recording(q) => SlugOf(q) # u
      BY <3>1 DEF Busy, Recording, SlugOf
    <3>3. IF file[u] = 0 THEN Done(u, "outcome") = {} /\ Done(u, "gap") = {}
          ELSE inode[file[u]] # Cut /\ CompleteFor(inode[file[u]], Done(u, "outcome"), Done(u, "gap"))
      BY <1>0, <1>2, <3>1 DEF Orderly
    <3>4. IF entry = NoEntry THEN Done(u, "outcome") = {} /\ Done(u, "gap") = {}
          ELSE CompleteFor(entry, Done(u, "outcome"), Done(u, "gap"))
      <4>1. file[u] # 0 => file[u] \in 1..Len(inode)
        BY <1>0, <1>2, KbFacts
      <4>2. file[u] # 0 => inode[file[u]] \in Entries \cup {Cut}
        BY <1>0, <4>1, KbFacts
      <4> QED BY <3>3, <4>2, <1>n, KbDistinct DEF Load
    <3>5. After(r, "outcome")' = Done(u, "outcome") \cup (IF kind = "outcome" THEN {n} ELSE {})
      BY <1>2, <1>3, <1>4, <1>10 DEF After
    <3>6. After(r, "gap")' = Done(u, "gap") \cup (IF kind = "gap" THEN {n} ELSE {})
      BY <1>2, <1>3, <1>4, <1>10 DEF After
    <3>7. CompleteFor(e, After(r, "outcome")', After(r, "gap")')
      <4>1. CASE kind = "outcome"
        <5>1. After(r, "outcome")' = Done(u, "outcome") \cup {n} /\ After(r, "gap")' = Done(u, "gap")
          BY <4>1, <3>5, <3>6
        <5>2. e = WithOutcome(entry, sig, n)
          BY <4>1, <1>n
        <5>3. IsFiniteSet(Done(u, "outcome")) /\ IsFiniteSet(Done(u, "gap")) /\ n \notin Done(u, "outcome") /\ n \in Nat
          BY <1>3, <1>4, <1>5
        <5> QED BY <5>1, <5>2, <5>3, <3>4, <1>6, OutcomeCounts
      <4>2. CASE kind = "gap"
        <5>1. After(r, "outcome")' = Done(u, "outcome") /\ After(r, "gap")' = Done(u, "gap") \cup {n}
          BY <4>2, <3>5, <3>6
        <5>2. e = WithGap(entry, sig)
          BY <4>2, <1>n
        <5>3. IsFiniteSet(Done(u, "outcome")) /\ IsFiniteSet(Done(u, "gap")) /\ n \notin Done(u, "gap") /\ n \in Nat
          BY <1>3, <1>4, <1>5
        <5> QED BY <5>1, <5>2, <5>3, <3>4, <1>6, GapCounts
      <4> QED BY <4>1, <4>2
    <3>8. IF file'[u] = 0 THEN Done(u, "outcome")' = {} /\ Done(u, "gap")' = {}
          ELSE inode'[file'[u]] # Cut /\ CompleteFor(inode'[file'[u]], Done(u, "outcome")', Done(u, "gap")')
      BY <3>3, <1>1, <1>4
    <3>9. \A q \in Recorders \ {r} : Recording(q)' => SlugOf(q)' # u
      BY <3>2, <1>10
    <3>10. ~records'[rec'[r].n].done /\ ~HasOpen(r)' /\ rec'[r].pc # "rename" /\ rec'[r].entry = e
      BY <1>2, <1>3, <1>10 DEF HasOpen
    <3>11. ASSUME NEW q \in Recorders, Recording(q)', SlugOf(q)' = u
           PROVE  /\ \A y \in Recorders \ {q} : Recording(y)' => SlugOf(y)' # u
                  /\ CompleteFor(rec'[q].entry, After(q, "outcome")', After(q, "gap")') /\ ~records'[rec'[q].n].done
                  /\ HasOpen(q)' => tmp'[u] = rec'[q].fd
                  /\ rec'[q].pc = "rename" => inode'[rec'[q].fd] = rec'[q].entry
      <4>1. q = r
        BY <3>9, <3>11
      <4> QED BY <4>1, <3>7, <3>9, <3>10
    <3> QED BY <3>8, <3>11 DEF Orderly
  <2> QED BY <2>1, <2>2
<1> QED BY <1>11, <1>12, <1>13, <1>14 DEF KbInv

\* The temporary file is opened: whatever it held is gone, and it is nobody else's.
LEMMA StoreOpenInv == ASSUME KbInv, NEW r \in Recorders, StoreOpen(r) PROVE KbInv'
<1>0. KbTypeOK /\ InodesApart /\ HonestOK /\ \A s \in Slugs : Orderly(s)
  BY DEF KbInv
<1>n. PICK u, node, p : /\ u = SlugOf(r) /\ node = IF tmp[u] = 0 THEN Len(inode) + 1 ELSE tmp[u]
                        /\ p = [pc |-> "write", n |-> rec[r].n, entry |-> rec[r].entry, fd |-> node]
  OBVIOUS
<1>1. /\ rec[r].pc = "open"
      /\ inode' = IF tmp[u] = 0 THEN Append(inode, Cut) ELSE [inode EXCEPT ![node] = Cut]
      /\ tmp' = [tmp EXCEPT ![u] = node] /\ rec' = [rec EXCEPT ![r] = p]
      /\ UNCHANGED <<file, records, crowded>>
  BY <1>n DEF StoreOpen
<1>2. /\ Recording(r) /\ ~HasOpen(r) /\ u \in Slugs /\ rec[r].entry \in Entries
      /\ rec[r].n \in 1..Len(records) /\ Len(inode) \in Nat /\ Len(records) \in Nat
  <2>1. Recording(r) /\ ~HasOpen(r)
    BY <1>1 DEF Recording, HasOpen
  <2> QED BY <2>1, <1>0, <1>n, KbFacts
<1>3. \A s \in Slugs : file[s] \in 0..Len(inode) /\ tmp[s] \in 0..Len(inode)
  BY <1>0, KbFacts
<1>4. /\ inode' \in Seq(Entries \cup {Cut}) /\ Len(inode') \in Nat /\ Len(inode) <= Len(inode')
      /\ node \in 1..Len(inode') /\ inode'[node] = Cut
      /\ \A f \in 1..Len(inode) : f # node => inode'[f] = inode[f]
  <2>0. inode \in Seq(Entries \cup {Cut}) /\ tmp[u] \in 0..Len(inode)
    BY <1>0, <1>2, <1>3 DEF KbTypeOK
  <2>1. CASE tmp[u] = 0
    BY <2>0, <2>1, <1>1, <1>2, <1>n
  <2>2. CASE tmp[u] # 0
    <3>1. node \in 1..Len(inode) /\ inode' = [inode EXCEPT ![node] = Cut]
      BY <2>0, <2>2, <1>1, <1>2, <1>n
    <3> QED BY <2>0, <3>1, <1>2
  <2> QED BY <2>1, <2>2
<1>5. /\ \A s \in Slugs : file[s] # node
      /\ \A s \in Slugs : s # u => tmp[s] # node
      /\ \A q \in Recorders : HasOpen(q) /\ rec[q].fd = node => SlugOf(q) = u
  <2>1. CASE tmp[u] = 0
    <3>1. \A q \in Recorders : HasOpen(q) => rec[q].fd \in 1..Len(inode)
      BY <1>0, KbFacts
    <3> QED BY <2>1, <3>1, <1>2, <1>3, <1>n
  <2>2. CASE tmp[u] # 0
    <3>1. node = tmp[u]
      BY <2>2, <1>n
    <3> QED BY <3>1, <2>2, <1>0, <1>2 DEF InodesApart
  <2> QED BY <2>1, <2>2
<1>6. /\ \A s \in Slugs : tmp'[s] = IF s = u THEN node ELSE tmp[s]
      /\ \A q \in Recorders : rec'[q] = IF q = r THEN p ELSE rec[q]
      /\ p.pc = "write" /\ p.n = rec[r].n /\ p.entry = rec[r].entry /\ p.fd = node
  BY <1>0, <1>1, <1>n DEF KbTypeOK
<1>7. \A q \in Recorders : /\ rec'[q].n = rec[q].n /\ (Recording(q)' <=> Recording(q)) /\ SlugOf(q)' = SlugOf(q)
                           /\ rec'[q].entry = rec[q].entry
                           /\ HasOpen(q)' <=> HasOpen(q) \/ q = r
                           /\ rec'[q].pc = "rename" => rec[q].pc = "rename"
  BY <1>1, <1>2, <1>6 DEF Recording, SlugOf, HasOpen
<1>8. \A s, kind : Of(s, kind)' = Of(s, kind) /\ Done(s, kind)' = Done(s, kind)
  BY <1>1 DEF Of, Done
<1>9. KbTypeOK'
  <2>1. p \in Storing
    BY <1>2, <1>4, <1>n DEF Storing
  <2>2. rec' \in [Recorders -> {NoRecording} \cup Opening \cup Storing]
    BY <1>0, <1>1, <2>1 DEF KbTypeOK
  <2>3. tmp' \in [Slugs -> 0..Len(inode')]
    <3>1. tmp \in [Slugs -> 0..Len(inode')]
      BY <1>0, <1>2, <1>4 DEF KbTypeOK
    <3>2. node \in 0..Len(inode')
      BY <1>4
    <3> QED BY <3>1, <3>2, <1>1
  <2>4. file' \in [Slugs -> 0..Len(inode')]
    BY <1>0, <1>1, <1>2, <1>4 DEF KbTypeOK
  <2>5. \A q \in Recorders : Recording(q)' => rec'[q].n \in 1..Len(records')
    BY <1>0, <1>1, <1>7 DEF KbTypeOK
  <2>6. \A q \in Recorders : HasOpen(q)' => rec'[q].fd \in 1..Len(inode')
    BY <1>0, <1>2, <1>4, <1>6, <1>7 DEF KbTypeOK
  <2> QED BY <1>0, <1>1, <1>4, <2>2, <2>3, <2>4, <2>5, <2>6 DEF KbTypeOK
<1>10. InodesApart'
  <2>1. \A s, v \in Slugs : file'[s] # 0 => file'[s] # tmp'[v] /\ (s # v => file'[s] # file'[v])
    BY <1>0, <1>1, <1>5, <1>6 DEF InodesApart
  <2>2. \A s, v \in Slugs : tmp'[s] # 0 /\ s # v => tmp'[s] # tmp'[v]
    BY <1>0, <1>5, <1>6 DEF InodesApart
  <2>3. ASSUME NEW q \in Recorders, NEW s \in Slugs, HasOpen(q)', rec'[q].fd \in {file'[s], tmp'[s]}
        PROVE  SlugOf(q)' = s
    <3>1. CASE q = r
      BY <3>1, <2>3, <1>1, <1>5, <1>6, <1>7, <1>n
    <3>2. CASE q # r
      <4>1. HasOpen(q) /\ rec'[q] = rec[q]
        BY <3>2, <2>3, <1>6, <1>7
      <4>2. CASE rec[q].fd \in {file[s], tmp[s]}
        BY <4>1, <4>2, <1>0, <1>7 DEF InodesApart
      <4>3. CASE rec[q].fd = node /\ s = u
        BY <4>1, <4>3, <1>5, <1>7
      <4> QED BY <4>1, <4>2, <4>3, <2>3, <1>1, <1>6
    <3> QED BY <3>1, <3>2
  <2> QED BY <2>1, <2>2, <2>3 DEF InodesApart
<1>11. HonestOK'
  <2>1. ASSUME NEW s \in Slugs, NEW f \in {file'[s], tmp'[s]}, f # 0, inode'[f] # Cut
        PROVE  HonestFor(inode'[f], Of(s, "outcome")', Of(s, "gap")')
    <3>1. f # node
      BY <2>1, <1>4
    <3>2. f \in {file[s], tmp[s]}
      BY <2>1, <3>1, <1>1, <1>6
    <3>3. f \in 1..Len(inode)
      BY <2>1, <3>2, <1>3, <1>2
    <3>4. inode'[f] = inode[f]
      BY <3>1, <3>3, <1>4
    <3> QED BY <2>1, <3>2, <3>4, <1>0, <1>8 DEF HonestOK
  <2>2. \A q \in Recorders : Recording(q)' => HonestFor(rec'[q].entry, Of(SlugOf(q), "outcome")', Of(SlugOf(q), "gap")')
    BY <1>0, <1>7, <1>8 DEF HonestOK
  <2> QED BY <2>1, <2>2 DEF HonestOK
<1>12. ASSUME NEW s \in Slugs PROVE Orderly(s)'
  <2>0. file[s] # 0 => inode'[file[s]] = inode[file[s]]
    BY <1>2, <1>3, <1>4, <1>5
  <2>1. CASE s # u
    <3>1. tmp[s] # 0 => inode'[tmp[s]] = inode[tmp[s]]
      BY <2>1, <1>2, <1>3, <1>4, <1>5
    <3>2. \A q \in Recorders : Recording(q)' /\ SlugOf(q)' = s =>
            /\ rec'[q] = rec[q] /\ Recording(q) /\ SlugOf(q) = s
            /\ records'[rec[q].n] = records[rec[q].n]
      BY <2>1, <1>1, <1>6, <1>7, <1>n
    <3> QED BY <2>0, <2>1, <1>0, <1>1, <1>6, <1>8, <3>1, <3>2, OrderlyStays
  <2>2. CASE s = u
    <3> SUFFICES ASSUME u \notin crowded PROVE Orderly(u)'
      BY <2>2, <1>1 DEF Orderly
    <3>1. /\ IF file[u] = 0 THEN Done(u, "outcome") = {} /\ Done(u, "gap") = {}
             ELSE inode[file[u]] # Cut /\ CompleteFor(inode[file[u]], Done(u, "outcome"), Done(u, "gap"))
          /\ \A q \in Recorders \ {r} : Recording(q) => SlugOf(q) # u
          /\ CompleteFor(rec[r].entry, After(r, "outcome"), After(r, "gap")) /\ ~records[rec[r].n].done
      BY <1>0, <1>2, <1>n DEF Orderly
    <3>2. IF file'[u] = 0 THEN Done(u, "outcome")' = {} /\ Done(u, "gap")' = {}
          ELSE inode'[file'[u]] # Cut /\ CompleteFor(inode'[file'[u]], Done(u, "outcome")', Done(u, "gap")')
      BY <3>1, <2>0, <2>2, <1>1, <1>8
    <3>3. After(r, "outcome")' = After(r, "outcome") /\ After(r, "gap")' = After(r, "gap")
      BY <1>1, <1>7, <1>8 DEF After
    <3>4. /\ \A q \in Recorders \ {r} : Recording(q)' => SlugOf(q)' # u
          /\ CompleteFor(rec'[r].entry, After(r, "outcome")', After(r, "gap")') /\ ~records'[rec'[r].n].done
          /\ tmp'[u] = rec'[r].fd /\ rec'[r].pc # "rename"
      BY <3>1, <3>3, <1>1, <1>2, <1>6, <1>7
    <3> QED BY <3>2, <3>4 DEF Orderly
  <2> QED BY <2>1, <2>2
<1> QED BY <1>9, <1>10, <1>11, <1>12 DEF KbInv

\* The entry is written to what was opened, be that the temporary file or, renamed by
\* another, the file of the slug.
LEMMA StoreWriteInv == ASSUME KbInv, NEW r \in Recorders, StoreWrite(r) PROVE KbInv'
<1>0. KbTypeOK /\ InodesApart /\ HonestOK /\ \A s \in Slugs : Orderly(s)
  BY DEF KbInv
<1>n. PICK u, node, e, p : /\ u = SlugOf(r) /\ node = rec[r].fd /\ e = rec[r].entry
                           /\ p = [rec[r] EXCEPT !.pc = "rename"]
  OBVIOUS
<1>1. /\ rec[r].pc = "write" /\ inode' = [inode EXCEPT ![node] = e]
      /\ rec' = [rec EXCEPT ![r] = p]
      /\ UNCHANGED <<file, tmp, records, crowded>>
  BY <1>n DEF StoreWrite
<1>2. /\ Recording(r) /\ HasOpen(r) /\ u \in Slugs /\ e \in Entries
      /\ node \in 1..Len(inode) /\ Len(inode) \in Nat /\ rec[r] \in Storing
  <2>1. Recording(r) /\ HasOpen(r)
    BY <1>1 DEF Recording, HasOpen
  <2>2. rec[r] \in Storing
    BY <1>0, <1>1, KbDistinct DEF KbTypeOK
  <2> QED BY <2>1, <2>2, <1>0, <1>n, KbFacts
<1>3. p \in Storing /\ p.pc = "rename" /\ p.n = rec[r].n /\ p.entry = e /\ p.fd = node
  BY <1>2, <1>n DEF Storing
<1>4. /\ inode' \in Seq(Entries \cup {Cut}) /\ Len(inode') = Len(inode)
      /\ \A f \in 1..Len(inode) : inode'[f] = IF f = node THEN e ELSE inode[f]
  BY <1>0, <1>1, <1>2 DEF KbTypeOK
<1>5. \A q \in Recorders : rec'[q] = IF q = r THEN p ELSE rec[q]
  BY <1>0, <1>1 DEF KbTypeOK
<1>6. \A q \in Recorders : /\ rec'[q].n = rec[q].n /\ (Recording(q)' <=> Recording(q)) /\ SlugOf(q)' = SlugOf(q)
                           /\ rec'[q].entry = rec[q].entry /\ (HasOpen(q)' <=> HasOpen(q))
                           /\ HasOpen(q) => rec'[q].fd = rec[q].fd
  BY <1>1, <1>2, <1>3, <1>5, <1>n DEF Recording, SlugOf, HasOpen
<1>7. \A s, kind : Of(s, kind)' = Of(s, kind) /\ Done(s, kind)' = Done(s, kind)
  BY <1>1 DEF Of, Done
<1>8. \A s \in Slugs : file[s] \in 0..Len(inode) /\ tmp[s] \in 0..Len(inode)
  BY <1>0, KbFacts
<1>9. \A s \in Slugs : node \in {file[s], tmp[s]} => s = u
  BY <1>0, <1>2, <1>n DEF InodesApart
<1>10. KbTypeOK'
  <2>1. rec' \in [Recorders -> {NoRecording} \cup Opening \cup Storing]
    BY <1>0, <1>1, <1>3 DEF KbTypeOK
  <2>2. \A q \in Recorders : Recording(q)' => rec'[q].n \in 1..Len(records')
    BY <1>0, <1>1, <1>6 DEF KbTypeOK
  <2>3. \A q \in Recorders : HasOpen(q)' => rec'[q].fd \in 1..Len(inode')
    BY <1>0, <1>4, <1>6 DEF KbTypeOK
  <2> QED BY <1>0, <1>1, <1>4, <2>1, <2>2, <2>3 DEF KbTypeOK
<1>11. InodesApart'
  BY <1>0, <1>1, <1>6 DEF InodesApart
<1>12. HonestOK'
  <2>1. ASSUME NEW s \in Slugs, NEW f \in {file[s], tmp[s]}, f # 0, inode'[f] # Cut
        PROVE  HonestFor(inode'[f], Of(s, "outcome"), Of(s, "gap"))
    <3>1. f \in 1..Len(inode)
      BY <2>1, <1>2, <1>8
    <3>2. CASE f = node
      <4>1. s = u /\ inode'[f] = e
        BY <2>1, <3>1, <3>2, <1>4, <1>9
      <4> QED BY <4>1, <1>0, <1>2, <1>n DEF HonestOK
    <3>3. CASE f # node
      <4>1. inode'[f] = inode[f]
        BY <3>1, <3>3, <1>4
      <4> QED BY <4>1, <2>1, <1>0 DEF HonestOK
    <3> QED BY <3>2, <3>3
  <2>2. \A q \in Recorders : Recording(q)' => HonestFor(rec'[q].entry, Of(SlugOf(q), "outcome")', Of(SlugOf(q), "gap")')
    BY <1>0, <1>6, <1>7 DEF HonestOK
  <2> QED BY <2>1, <2>2, <1>1, <1>7 DEF HonestOK
<1>13. ASSUME NEW s \in Slugs PROVE Orderly(s)'
  <2>1. CASE s # u
    <3>1. /\ file[s] # 0 => inode'[file[s]] = inode[file[s]]
          /\ tmp[s] # 0 => inode'[tmp[s]] = inode[tmp[s]]
      BY <2>1, <1>2, <1>4, <1>8, <1>9
    <3>2. \A q \in Recorders : Recording(q)' /\ SlugOf(q)' = s =>
            /\ rec'[q] = rec[q] /\ Recording(q) /\ SlugOf(q) = s
            /\ records'[rec[q].n] = records[rec[q].n]
      BY <2>1, <1>1, <1>5, <1>6, <1>n
    <3> QED BY <1>0, <1>1, <1>7, <3>1, <3>2, OrderlyStays
  <2>2. CASE s = u
    <3> SUFFICES ASSUME u \notin crowded PROVE Orderly(u)'
      BY <2>2, <1>1 DEF Orderly
    <3>1. /\ IF file[u] = 0 THEN Done(u, "outcome") = {} /\ Done(u, "gap") = {}
             ELSE inode[file[u]] # Cut /\ CompleteFor(inode[file[u]], Done(u, "outcome"), Done(u, "gap"))
          /\ \A q \in Recorders \ {r} : Recording(q) => SlugOf(q) # u
          /\ CompleteFor(rec[r].entry, After(r, "outcome"), After(r, "gap")) /\ ~records[rec[r].n].done
          /\ tmp[u] = node
      BY <1>0, <1>2, <1>n DEF Orderly
    <3>2. file[u] # 0 => file[u] # node
      BY <3>1, <1>0, <1>2 DEF InodesApart
    <3>3. file[u] # 0 => inode'[file[u]] = inode[file[u]]
      BY <3>2, <1>2, <1>4, <1>8
    <3>4. IF file'[u] = 0 THEN Done(u, "outcome")' = {} /\ Done(u, "gap")' = {}
          ELSE inode'[file'[u]] # Cut /\ CompleteFor(inode'[file'[u]], Done(u, "outcome")', Done(u, "gap")')
      BY <3>1, <3>3, <1>1, <1>7
    <3>5. After(r, "outcome")' = After(r, "outcome") /\ After(r, "gap")' = After(r, "gap")
      BY <1>1, <1>6, <1>7 DEF After
    <3>6. /\ \A q \in Recorders \ {r} : Recording(q)' => SlugOf(q)' # u
          /\ CompleteFor(rec'[r].entry, After(r, "outcome")', After(r, "gap")') /\ ~records'[rec'[r].n].done
          /\ tmp'[u] = rec'[r].fd /\ inode'[rec'[r].fd] = rec'[r].entry
      BY <3>1, <3>5, <1>1, <1>2, <1>3, <1>4, <1>5, <1>6, <1>n
    <3> QED BY <3>4, <3>6 DEF Orderly
  <2> QED BY <2>1, <2>2
<1> QED BY <1>10, <1>11, <1>12, <1>13 DEF KbInv

\* The temporary file becomes the file: the record of whoever was alone is in it.
LEMMA StoreRenameInv == ASSUME KbInv, NEW r \in Recorders, StoreRename(r) PROVE KbInv'
<1>0. KbTypeOK /\ InodesApart /\ HonestOK /\ \A s \in Slugs : Orderly(s)
  BY DEF KbInv
<1>n. PICK u, n, x : u = SlugOf(r) /\ n = rec[r].n /\ x = [records[n] EXCEPT !.done = TRUE]
  OBVIOUS
<1>1. /\ rec[r].pc = "rename" /\ rec' = [rec EXCEPT ![r] = NoRecording]
      /\ UNCHANGED <<inode, crowded>>
  BY DEF StoreRename
<1>2. /\ Recording(r) /\ HasOpen(r) /\ u \in Slugs /\ n \in 1..Len(records) /\ records[n] \in Recorded
      /\ rec[r].fd \in 1..Len(inode) /\ Len(inode) \in Nat /\ Len(records) \in Nat /\ rec[r].entry \in Entries
  <2>1. Recording(r) /\ HasOpen(r)
    BY <1>1 DEF Recording, HasOpen
  <2> QED BY <2>1, <1>0, <1>n, KbFacts
<1>3. \A q \in Recorders : rec'[q] = IF q = r THEN NoRecording ELSE rec[q]
  BY <1>0, <1>1 DEF KbTypeOK
<1>4. CASE tmp[u] = 0
  <2>1. UNCHANGED <<inode, file, tmp, records, crowded>>
    BY <1>4, <1>n DEF StoreRename
  <2>2. DOMAIN rec' = Recorders /\ rec' = [q \in Recorders |-> rec'[q]]
    BY <1>0, <1>1 DEF KbTypeOK
  <2> QED BY <2>1, <2>2, <1>3, RecordingsEndInv
<1>5. CASE tmp[u] # 0
  <2>1. /\ file' = [file EXCEPT ![u] = tmp[u]] /\ tmp' = [tmp EXCEPT ![u] = 0]
        /\ records' = [records EXCEPT ![n] = x]
    BY <1>5, <1>n DEF StoreRename
  <2>2. x \in Recorded /\ x.sig = records[n].sig /\ x.kind = records[n].kind /\ x.done = TRUE
    BY <1>2, <1>n DEF Recorded
  <2>3. /\ records' \in Seq(Recorded) /\ Len(records') = Len(records) /\ DOMAIN records' = DOMAIN records
        /\ DOMAIN records = 1..Len(records)
        /\ \A m \in 1..Len(records) : records'[m] = IF m = n THEN x ELSE records[m]
    BY <1>0, <1>2, <2>1, <2>2 DEF KbTypeOK
  <2>4. \A m \in 1..Len(records) : records'[m].sig = records[m].sig /\ records'[m].kind = records[m].kind
    BY <2>2, <2>3
  <2>5. /\ \A s \in Slugs : file'[s] = IF s = u THEN tmp[u] ELSE file[s]
        /\ \A s \in Slugs : tmp'[s] = IF s = u THEN 0 ELSE tmp[s]
    BY <1>0, <2>1 DEF KbTypeOK
  <2>6. \A q \in Recorders : /\ Recording(q)' => q # r /\ rec'[q] = rec[q] /\ Recording(q) /\ SlugOf(q)' = SlugOf(q)
                             /\ HasOpen(q)' => q # r /\ rec'[q] = rec[q] /\ HasOpen(q) /\ SlugOf(q)' = SlugOf(q)
    <3>1. \A q \in Recorders : HasOpen(q) => Recording(q)
      BY <1>0, KbFacts
    <3>2. \A q \in Recorders : Recording(q) => rec[q].n \in 1..Len(records)
      BY <1>0, KbFacts
    <3>3. \A q \in Recorders : /\ Recording(q)' => q # r /\ rec'[q] = rec[q] /\ Recording(q)
                               /\ HasOpen(q)' => q # r /\ rec'[q] = rec[q] /\ HasOpen(q)
      BY <1>3, KbDistinct DEF Recording, HasOpen
    <3> QED BY <3>1, <3>2, <3>3, <2>4 DEF SlugOf
  <2>7. \A s, kind : Of(s, kind)' = Of(s, kind)
    BY <2>3, <2>4 DEF Of
  <2>8. \A kind : /\ \A s : s # u => Done(s, kind)' = Done(s, kind)
                  /\ Done(u, kind)' = After(r, kind)
    <3>1. Slug(records[n].sig) = u
      BY <1>n DEF SlugOf
    <3>2. ASSUME NEW s, NEW kind
          PROVE  Done(s, kind)' = Done(s, kind) \cup (IF s = u /\ records[n].kind = kind THEN {n} ELSE {})
      BY <2>2, <2>3, <2>7, <3>1, <1>2 DEF Of, Done
    <3> QED BY <3>2, <1>n DEF After
  <2>9. KbTypeOK'
    <3>1. tmp[u] \in 0..Len(inode) /\ 0 \in 0..Len(inode)
      BY <1>0, <1>2 DEF KbTypeOK
    <3>2. file' \in [Slugs -> 0..Len(inode)] /\ tmp' \in [Slugs -> 0..Len(inode)]
      BY <1>0, <2>1, <3>1 DEF KbTypeOK
    <3>3. rec' \in [Recorders -> {NoRecording} \cup Opening \cup Storing]
      BY <1>0, <1>1 DEF KbTypeOK
    <3> QED BY <1>0, <1>1, <2>3, <2>6, <3>2, <3>3 DEF KbTypeOK
  <2>10. InodesApart'
    <3>1. \A s, v \in Slugs : file'[s] # 0 => file'[s] # tmp'[v] /\ (s # v => file'[s] # file'[v])
      BY <1>0, <1>2, <1>5, <2>5 DEF InodesApart
    <3>2. \A s, v \in Slugs : tmp'[s] # 0 /\ s # v => tmp'[s] # tmp'[v]
      BY <1>0, <2>5 DEF InodesApart
    <3>3. \A q \in Recorders, s \in Slugs : HasOpen(q)' /\ rec'[q].fd \in {file'[s], tmp'[s]} => SlugOf(q)' = s
      <4> SUFFICES ASSUME NEW q \in Recorders, NEW s \in Slugs, HasOpen(q)', rec'[q].fd \in {file'[s], tmp'[s]}
                   PROVE  SlugOf(q)' = s
        OBVIOUS
      <4>1. HasOpen(q) /\ rec'[q] = rec[q] /\ SlugOf(q)' = SlugOf(q)
        BY <2>6
      <4>2. rec[q].fd \in 1..Len(inode)
        BY <4>1, <1>0, KbFacts
      <4>3. rec[q].fd \in {file[s], tmp[s]}
        BY <4>1, <4>2, <2>5
      <4> QED BY <4>1, <4>3, <1>0 DEF InodesApart
    <3> QED BY <3>1, <3>2, <3>3 DEF InodesApart
  <2>11. HonestOK'
    <3>1. ASSUME NEW s \in Slugs, NEW f \in {file'[s], tmp'[s]}, f # 0, inode[f] # Cut
          PROVE  HonestFor(inode[f], Of(s, "outcome"), Of(s, "gap"))
      <4>1. f \in {file[s], tmp[s]}
        BY <3>1, <2>5
      <4> QED BY <3>1, <4>1, <1>0 DEF HonestOK
    <3>2. \A q \in Recorders : Recording(q)' => HonestFor(rec'[q].entry, Of(SlugOf(q), "outcome")', Of(SlugOf(q), "gap")')
      BY <1>0, <2>6, <2>7 DEF HonestOK
    <3> QED BY <3>1, <3>2, <1>1, <2>7 DEF HonestOK
  <2>12. ASSUME NEW s \in Slugs PROVE Orderly(s)'
    <3>1. CASE s # u
      <4>1. \A q \in Recorders : Recording(q)' /\ SlugOf(q)' = s =>
              /\ rec'[q] = rec[q] /\ Recording(q) /\ SlugOf(q) = s
              /\ records'[rec[q].n] = records[rec[q].n]
        <5> SUFFICES ASSUME NEW q \in Recorders, Recording(q)', SlugOf(q)' = s
                     PROVE  /\ rec'[q] = rec[q] /\ Recording(q) /\ SlugOf(q) = s
                            /\ records'[rec[q].n] = records[rec[q].n]
          OBVIOUS
        <5>1. rec'[q] = rec[q] /\ Recording(q) /\ SlugOf(q) = s
          BY <2>6
        <5>2. rec[q].n \in 1..Len(records)
          BY <5>1, <1>0, KbFacts
        <5>3. rec[q].n # n
          BY <5>1, <3>1, <1>n DEF SlugOf
        <5> QED BY <5>1, <5>2, <5>3, <2>3
      <4> QED BY <3>1, <4>1, <1>0, <1>1, <2>5, <2>8, OrderlyStays
    <3>2. CASE s = u
      <4> SUFFICES ASSUME u \notin crowded PROVE Orderly(u)'
        BY <3>2, <1>1 DEF Orderly
      <4>1. /\ \A q \in Recorders \ {r} : Recording(q) => SlugOf(q) # u
            /\ CompleteFor(rec[r].entry, After(r, "outcome"), After(r, "gap"))
            /\ tmp[u] = rec[r].fd /\ inode[rec[r].fd] = rec[r].entry
        BY <1>0, <1>1, <1>2, <1>n DEF Orderly
      <4>2. /\ file'[u] # 0 /\ inode'[file'[u]] = rec[r].entry /\ rec[r].entry # Cut
            /\ CompleteFor(inode'[file'[u]], Done(u, "outcome")', Done(u, "gap")')
        BY <4>1, <1>1, <1>2, <1>5, <2>5, <2>8, KbDistinct
      <4>3. \A q \in Recorders : Recording(q)' => SlugOf(q)' # u
        BY <4>1, <2>6
      <4> QED BY <4>2, <4>3 DEF Orderly
    <3> QED BY <3>1, <3>2
  <2> QED BY <2>9, <2>10, <2>11, <2>12 DEF KbInv
<1> QED BY <1>4, <1>5

\* Every step of the knowledge base keeps its invariant.
LEMMA KbStep == ASSUME KbInv, [KbNext]_kbVars PROVE KbInv'
<1>0. rec \in [Recorders -> {NoRecording} \cup Opening \cup Storing]
  BY DEF KbInv, KbTypeOK
<1>1. ASSUME NEW r \in Recorders,
             \/ \E sig \in Signatures, kind \in {"outcome", "gap"} : RecordLoad(r, sig, kind)
             \/ StoreOpen(r) \/ StoreWrite(r) \/ StoreRename(r)
      PROVE  KbInv'
  BY <1>1, RecordLoadInv, StoreOpenInv, StoreWriteInv, StoreRenameInv
<1>2. ASSUME NEW r \in Recorders, StoreWriteFails(r) PROVE KbInv'
  <2>1. rec' = [rec EXCEPT ![r] = NoRecording] /\ UNCHANGED <<inode, file, tmp, records, crowded>>
    BY <1>2 DEF StoreWriteFails
  <2>2. /\ DOMAIN rec' = Recorders /\ rec' = [q \in Recorders |-> rec'[q]]
        /\ \A q \in Recorders : rec'[q] = rec[q] \/ rec'[q] = NoRecording
    BY <1>0, <2>1
  <2> QED BY <2>1, <2>2, RecordingsEndInv
<1>3. CASE KbCrash
  <2>1. /\ DOMAIN rec' = Recorders /\ rec' = [q \in Recorders |-> rec'[q]]
        /\ \A q \in Recorders : rec'[q] = rec[q] \/ rec'[q] = NoRecording
        /\ UNCHANGED <<inode, file, tmp, records, crowded>>
    BY <1>3 DEF KbCrash
  <2> QED BY <2>1, RecordingsEndInv
<1>4. CASE UNCHANGED kbVars
  <2>1. /\ DOMAIN rec' = Recorders /\ rec' = [q \in Recorders |-> rec'[q]]
        /\ \A q \in Recorders : rec'[q] = rec[q] \/ rec'[q] = NoRecording
        /\ UNCHANGED <<inode, file, tmp, records, crowded>>
    BY <1>0, <1>4 DEF kbVars
  <2> QED BY <2>1, RecordingsEndInv
<1> QED BY <1>1, <1>2, <1>3, <1>4 DEF KbNext

\* No crash and no failed write leaves a partial entry where records did not overlap
\* (KnowledgeBase::store): for any signatures and number of recorders.
THEOREM NoEntryIsPartial == KbSpec => []NoPartialEntry
<1>1. KbInv => NoPartialEntry
  BY DEF KbInv, Orderly, NoPartialEntry
<1> QED BY <1>1, KbInitInv, KbStep, PTL DEF KbSpec

\* An entry counts every record once, claims none that was not made and, where records
\* did not overlap, misses none that was completed (record_outcome, record_gap): for
\* any signatures and number of recorders.
THEOREM EntriesAreHonest == KbSpec => []HistoryIsHonest
<1>1. KbInv => HistoryIsHonest
  <2> SUFFICES ASSUME KbInv, NEW s \in Slugs
               PROVE  LET e == Load(s) IN
                      /\ e # NoEntry =>
                           /\ e.outcomes \subseteq Of(s, "outcome")
                           /\ e.occurrences <= Cardinality(Of(s, "outcome")) + Cardinality(Of(s, "gap"))
                           /\ e.occurrences >= Cardinality(e.outcomes)
                      /\ s \notin crowded =>
                           IF e = NoEntry THEN Done(s, "outcome") \cup Done(s, "gap") = {}
                           ELSE /\ e.outcomes = Done(s, "outcome")
                                /\ e.occurrences = Cardinality(Done(s, "outcome")) + Cardinality(Done(s, "gap"))
                                /\ e.template = IF e.outcomes = {} THEN "gap" ELSE "real"
    BY DEF HistoryIsHonest
  <2>0. KbTypeOK /\ HonestOK /\ Orderly(s)
    BY DEF KbInv
  <2>e. PICK e : e = Load(s)
    OBVIOUS
  <2>1. file[s] # 0 => file[s] \in 1..Len(inode)
    BY <2>0, KbFacts
  <2>2. file[s] # 0 => inode[file[s]] \in Entries \cup {Cut}
    BY <2>0, <2>1, KbFacts
  <2>3. e # NoEntry => HonestFor(e, Of(s, "outcome"), Of(s, "gap"))
    BY <2>0, <2>e DEF Load, HonestOK
  <2>4. s \notin crowded => IF e = NoEntry THEN Done(s, "outcome") \cup Done(s, "gap") = {}
                            ELSE CompleteFor(e, Done(s, "outcome"), Done(s, "gap"))
    BY <2>0, <2>2, <2>e, KbDistinct DEF Load, Orderly
  <2> QED BY <2>3, <2>4, <2>e DEF HonestFor, CompleteFor
<1> QED BY <1>1, KbInitInv, KbStep, PTL DEF KbSpec
=============================================================================
