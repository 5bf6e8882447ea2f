--------------------------- MODULE EvolutionApproval ---------------------------
(***************************************************************************)
(* Proposals to evolve a strategy: generate_rule_based_recommendations     *)
(* inserts them, an admin rejects or approves them, and an approval makes  *)
(* a new version in the catalog (routes_evolution.py).  An approval is     *)
(* three SELECTs and three statements on three tables, each an action;     *)
(* other admins' requests run in between and any of them may fail there.   *)
(*                                                                         *)
(* The catalog is that of one strategy, and its versions are numbered.     *)
(* What a version says (the merged details) is left out.                   *)
(***************************************************************************)
EXTENDS Naturals

CONSTANTS
    Proposals,       \* ids of recommendations
    Admins,          \* tasks that serve admins' requests
    LastVersion      \* bound on the version numbers

ASSUME EvolutionAssumption == LastVersion \in Nat \ {0}

VARIABLES
    proposal,        \* rows of s004_strategy_evolution_recommendations
    catalog,         \* publish_status of each version, Absent without a row
    changelog,       \* rows of s004_strategy_version_changelog
    job              \* what each admin's request is doing

evoVars == <<proposal, catalog, changelog, job>>

Versions == 1 .. LastVersion
Absent == "absent"
PublishStatus == {"DRAFT", "PUBLISHED", "ARCHIVED"}
Unborn == [status |-> "none"]
Free == [stage |-> "free"]

Born == [status : {"PENDING_REVIEW", "REJECTED"}, from : Versions]
Done == [status : {"IMPLEMENTED"}, from : Versions, version : Versions]
Generating == [stage : {"rules", "propose"}, from : Versions]
Approving ==
    [stage : {"source", "exists", "create", "log", "mark"}, proposal : Proposals,
     from : Versions, to : Versions]

EvoInit ==
    /\ proposal = [p \in Proposals |-> Unborn]
    /\ catalog = [v \in Versions |-> IF v = 1 THEN "PUBLISHED" ELSE Absent]
    /\ changelog = {}
    /\ job = [a \in Admins |-> Free]

InStage(a, stage) == job[a].stage = stage
Leave(a) == job' = [job EXCEPT ![a] = Free]
Proceed(a, stage) == job' = [job EXCEPT ![a].stage = stage]

-----------------------------------------------------------------------------
(* generate_rule_based_recommendations *)

\* A version of the SELECT for which a rule fires.
ApplyRules(a, v) ==
    /\ InStage(a, "free")
    /\ catalog[v] \in {"PUBLISHED", "DRAFT"}
    /\ job' = [job EXCEPT ![a] = [stage |-> "rules", from |-> v]]
    /\ UNCHANGED <<proposal, catalog, changelog>>

IsOpenFor(p, v) == proposal[p].status = "PENDING_REVIEW" /\ proposal[p].from = v

\* A pending row with the same code and version is not repeated.
SkipDuplicate(a) ==
    /\ InStage(a, "rules")
    /\ IF \E p \in Proposals : IsOpenFor(p, job[a].from)
         THEN Leave(a) ELSE Proceed(a, "propose")
    /\ UNCHANGED <<proposal, catalog, changelog>>

Propose(a) ==
    /\ InStage(a, "propose")
    /\ \E p \in Proposals :
         /\ proposal[p] = Unborn
         /\ proposal' = [proposal EXCEPT
                ![p] = [status |-> "PENDING_REVIEW", from |-> job[a].from]]
    /\ Leave(a)
    /\ UNCHANGED <<catalog, changelog>>

-----------------------------------------------------------------------------
(* reject and approve *)

\* Mutant of Reject: the UPDATE does not look at the status.
RejectAnyStatus(p) ==
    /\ proposal[p] # Unborn
    /\ proposal' = [proposal EXCEPT
            ![p] = [status |-> "REJECTED", from |-> proposal[p].from]]
    /\ UNCHANGED <<catalog, changelog, job>>

\* UPDATE ... WHERE status = 'PENDING_REVIEW', else 404.
Reject(p) ==
    /\ proposal[p].status = "PENDING_REVIEW"
    /\ proposal' = [proposal EXCEPT ![p].status = "REJECTED"]
    /\ UNCHANGED <<catalog, changelog, job>>

\* The proposal is read; one that is not pending is refused.
ReadProposal(a, p) ==
    /\ InStage(a, "free")
    /\ proposal[p].status = "PENDING_REVIEW"
    /\ job' = [job EXCEPT ![a] =
            [stage |-> "source", proposal |-> p, from |-> proposal[p].from,
             to |-> proposal[p].from]]
    /\ UNCHANGED <<proposal, catalog, changelog>>

\* The source version is read, the patch merged in and validated (it may fail), and
\* the new version chosen: the admin's, or the next number.
ReadSource(a) ==
    /\ InStage(a, "source")
    /\ \/ /\ catalog[job[a].from] # Absent
          /\ \E v \in Versions :
               job' = [job EXCEPT ![a].stage = "exists", ![a].to = v]
       \/ Leave(a)
    /\ UNCHANGED <<proposal, catalog, changelog>>

\* 409 when the version is there.
CheckVersion(a) ==
    /\ InStage(a, "exists")
    /\ IF catalog[job[a].to] # Absent THEN Leave(a) ELSE Proceed(a, "create")
    /\ UNCHANGED <<proposal, catalog, changelog>>

\* Mutant of CreateVersion: ON CONFLICT DO UPDATE, as in create_strategy.
CreateVersionUpsert(a) ==
    /\ InStage(a, "create")
    /\ catalog' = [catalog EXCEPT ![job[a].to] = "DRAFT"]
    /\ Proceed(a, "log")
    /\ UNCHANGED <<proposal, changelog>>

\* INSERT of the DRAFT; a version that came in between violates the unique key.
CreateVersion(a) ==
    /\ InStage(a, "create")
    /\ IF catalog[job[a].to] = Absent
         THEN /\ catalog' = [catalog EXCEPT ![job[a].to] = "DRAFT"]
              /\ Proceed(a, "log")
         ELSE /\ Leave(a)
              /\ UNCHANGED catalog
    /\ UNCHANGED <<proposal, changelog>>

LogRow(a) ==
    [proposal |-> job[a].proposal, from |-> job[a].from, to |-> job[a].to]

\* Mutant of WriteChangelog: the changelog is left to the end, after the mark.
WriteChangelogLater(a) ==
    /\ InStage(a, "log")
    /\ Proceed(a, "mark")
    /\ UNCHANGED <<proposal, catalog, changelog>>

\* A row that db_client inserts twice is the same record.
WriteChangelog(a) ==
    /\ InStage(a, "log")
    /\ changelog' = changelog \cup {LogRow(a)}
    /\ Proceed(a, "mark")
    /\ UNCHANGED <<proposal, catalog>>

\* UPDATE ... SET status = 'IMPLEMENTED' WHERE id, whatever the status is by now.
MarkImplemented(a) ==
    LET p == job[a].proposal IN
    /\ InStage(a, "mark")
    /\ proposal' = [proposal EXCEPT
            ![p] = [status |-> "IMPLEMENTED", from |-> proposal[p].from,
                    version |-> job[a].to]]
    /\ Leave(a)
    /\ UNCHANGED <<catalog, changelog>>

\* An exception or a restart ends the request where it is.
FailJob(a) ==
    /\ job[a] # Free
    /\ Leave(a)
    /\ UNCHANGED <<proposal, catalog, changelog>>

-----------------------------------------------------------------------------
(* The catalog's other writers: create_strategy, set_strategy_publish_status *)

\* ON CONFLICT only the texts of an existing version change.
CreateStrategy(v) ==
    /\ catalog[v] = Absent
    /\ catalog' = [catalog EXCEPT ![v] = "DRAFT"]
    /\ UNCHANGED <<proposal, changelog, job>>

SetPublishStatus(v) ==
    /\ catalog[v] # Absent
    /\ \E s \in PublishStatus : catalog' = [catalog EXCEPT ![v] = s]
    /\ UNCHANGED <<proposal, changelog, job>>

EvoNext ==
    \/ \E v \in Versions : CreateStrategy(v) \/ SetPublishStatus(v)
    \/ \E p \in Proposals : Reject(p)
    \/ \E a \in Admins, v \in Versions : ApplyRules(a, v)
    \/ \E a \in Admins, p \in Proposals : ReadProposal(a, p)
    \/ \E a \in Admins :
         \/ SkipDuplicate(a) \/ Propose(a)
         \/ ReadSource(a) \/ CheckVersion(a) \/ CreateVersion(a)
         \/ WriteChangelog(a) \/ MarkImplemented(a) \/ FailJob(a)

EvoSpec == EvoInit /\ [][EvoNext]_evoVars

-----------------------------------------------------------------------------
(* Properties *)

\* Every variable keeps its shape.
EvoTypeOK ==
    /\ proposal \in [Proposals -> {Unborn} \cup Born \cup Done]
    /\ catalog \in [Versions -> {Absent} \cup PublishStatus]
    /\ changelog \subseteq [proposal : Proposals, from : Versions, to : Versions]
    /\ job \in [Admins -> {Free} \cup Generating \cup Approving]

\* An approval that fails half-way claims nothing it has not done: the version an
\* IMPLEMENTED proposal names is in the catalog, and the changelog tells where it
\* comes from.
ImplementedIsBacked ==
    \A p \in Proposals : proposal[p].status = "IMPLEMENTED" =>
        /\ catalog[proposal[p].version] # Absent
        /\ [proposal |-> p, from |-> proposal[p].from, to |-> proposal[p].version]
             \in changelog

\* However approvals overlap, a version has one origin: the changelog never derives
\* it from two proposals or two versions.
OneOrigin == \A x, y \in changelog : x.to = y.to => x = y

UnderApproval(p) ==
    \E a \in Admins : job[a] \in Approving /\ job[a].proposal = p

Settled(p) ==
    proposal[p].status \in {"REJECTED", "IMPLEMENTED"} /\ ~UnderApproval(p)

\* "Only PENDING_REVIEW recommendations can be approved": what is left of it when
\* requests overlap.  Once the approvals that were under way at the time are over, a
\* decision is final.
DecisionStands ==
    [][\A p \in Proposals :
         Settled(p) => Settled(p)' /\ proposal'[p] = proposal[p]]_evoVars
=============================================================================
