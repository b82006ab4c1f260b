------------------------------- MODULE Services ------------------------------
(* What a replica lives by, each part beside the others: the questions its agents ask a human
   (HumanInput), the configuration that reaches it (ConfigReload) and its own process
   (ReplicaLife).  The parts share no state that the code couples: a behaviour takes the steps
   of one and leaves the others at rest, and each part's properties are stated here of the
   whole.  Each has promises about what comes in the end, and its own fairness. *)
EXTENDS Naturals

CONSTANTS
    Parts,
    Questions, Faults,
    Hosts, MaxVersion, Broken, MaxPrompts,
    MaxGatewayRestarts, MaxRestarts,
    MaxFaults

\* The first prompts are published at the start, as version 1.
ASSUME ServicesAssumption ==
    /\ MaxVersion \in Nat /\ MaxPrompts \in Nat \ {0} /\ MaxFaults \in Nat
    /\ MaxGatewayRestarts \in Nat /\ MaxRestarts \in Nat

VARIABLES
    part,
    asker, sent, loop, waiting, answering, dropped, failing, replies, keySet, root, done,
    target, file, synced, sighup, watching, seen, config, reloads, connected, policy, held, prompts,
    copied, failed, lapped, reloadFaults,
    kind, main, status, reported, serving, child, restarts, beat, halted, stopping, loaded, lives,
    lifeFaults

humanVars ==
    <<asker, sent, loop, waiting, answering, dropped, failing, replies, keySet, root, done>>
configVars ==
    <<target, file, synced, sighup, watching, seen, config, reloads, connected, policy, held,
      prompts, copied, failed, lapped, reloadFaults>>
lifeVars ==
    <<kind, main, status, reported, serving, child, restarts, beat, halted, stopping, loaded, lives,
      lifeFaults>>
vars ==
    <<part, humanVars, configVars, lifeVars>>

Human == INSTANCE HumanInput
Reload == INSTANCE ConfigReload WITH faults <- reloadFaults
Life == INSTANCE ReplicaLife WITH faults <- lifeFaults

(******************************** the parts at rest *******************************)
Asking(A) ==
    /\ part = "questions" /\ A
    /\ UNCHANGED <<part, configVars, lifeVars>>
Applying(A) ==
    /\ part = "config" /\ A
    /\ UNCHANGED <<part, humanVars, lifeVars>>
Living(A) ==
    /\ part = "replica" /\ A
    /\ UNCHANGED <<part, humanVars, configVars>>

(********************************* specification **********************************)
\* A part at rest starts in one way only.
ServicesInit ==
    /\ part \in Parts
    /\ Human!Init
    /\ Reload!ConfigInit
    /\ (part # "config" => target = "docker")
    /\ Life!LifeInit
    /\ (part # "replica" => kind = "agent")

ServicesNext ==
    \/ Asking(Human!Next)
    \/ Applying(Reload!ConfigNext)
    \/ Living(Life!LifeNext)

\* The fairness of the parts' own specifications, each of its own part's steps.
ServicesFairness ==
    /\ WF_vars(Asking(Human!Loop))
    /\ \A f \in Human!Failers : WF_vars(Asking(Human!Pop(f) \/ Human!Fail(f)))
    /\ WF_vars(Asking(\E q \in answering : Human!WriteAnswer(q)))
    /\ WF_vars(Asking(\E r \in replies : Human!Receive(r)))
    /\ WF_vars(Asking(Human!SetKey)) /\ WF_vars(Asking(Human!StartDone))
    /\ WF_vars(Applying(Reload!Watch)) /\ WF_vars(Applying(Reload!Handle))
    /\ WF_vars(Applying(Reload!Reloading)) /\ WF_vars(Applying(Reload!Refresh(Reload!Local)))
    /\ WF_vars(Living(Life!Watch)) /\ WF_vars(Living(Life!Report)) /\ WF_vars(Living(Life!Rest))
    /\ WF_vars(Living(Life!ChildUp \/ Life!ChildExits))

ServicesSpec == ServicesInit /\ [][ServicesNext]_vars /\ ServicesFairness

(********************************** properties ***********************************)
\* Whichever part runs, each keeps its variables' types.
PartsTypeOK == Human!TypeOK /\ Reload!ConfigTypeOK /\ Life!LifeTypeOK

\* HumanInput: a waiting asker's question is in exactly one place.
InOnePlace == Human!InOnePlace

\* The parts' types; and between ask, POST /answer, the loop and the request's end, which all take
\* questions off one list, none is lost or taken twice while its asker waits.
ServicesInv == PartsTypeOK /\ InOnePlace

\* HumanInput: the root call's result releases every asker.
EndReleasesAskers == Human!EndReleasesAskers

\* ConfigReload: a valid edit that was noticed reaches the controllers of this machine.
EditsApply == Reload!EditsApply

\* ReplicaLife: a serving replica gets its gateway back, or fails, or stops.
GatewayReturns == Life!GatewayReturns
=============================================================================
