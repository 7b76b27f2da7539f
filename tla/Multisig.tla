------------------------------- MODULE Multisig -------------------------------
(***************************************************************************)
(* The admin multisig (contracts/packages/admin): signers propose, approve *)
(* and execute actions, three of which change the signers and the          *)
(* threshold the other proposals are judged by.  It is initialized: with   *)
(* any list of signers, repeated ones included, and a threshold of at      *)
(* least two.                                                              *)
(***************************************************************************)
EXTENDS Clock, SequencesExt

CONSTANTS
    Accounts,       \* addresses that are or may become signers
    FirstSigners,   \* lists of signers initialize may be given
    Actions,        \* actions signers propose, of the ActionTypes below
    Expiration,     \* proposal_expiration
    MaxProposals    \* bound: proposals

VARIABLES
    signers,     \* MultisigConfig.signers
    threshold,   \* MultisigConfig.threshold
    proposals,   \* AdminProposal, in order of proposal_id
    stopped      \* is_emergency_stopped

multisigVars == <<now, signers, threshold, proposals, stopped>>

Thresholds == 1..Cardinality(Accounts)

\* ParameterChange and ContractUpgrade only emit an event when executed.
ActionTypes ==
    [type : {"AddSigner", "RemoveSigner"}, target : Accounts]
    \cup [type : {"UpdateThreshold"}, threshold : Thresholds]
    \cup [type : {"EmergencyStop", "EmergencyResume", "Other"}]

\* What the parameters must satisfy.
MultisigAssumption ==
    /\ FirstSigners \subseteq {s \in Seq(Accounts) : Len(s) >= 2}
    /\ Actions \subseteq ActionTypes
    /\ Expiration \in Nat \ {0}
    /\ MaxProposals \in Nat

Proposal == [proposer : Accounts, action : Actions, expires_at : Nat,
             approvals : SUBSET Accounts, executed : BOOLEAN, cancelled : BOOLEAN]

MultisigTypeOK ==
    /\ now \in Nat
    /\ signers \in Seq(Accounts)
    /\ threshold \in Nat
    /\ proposals \in Seq(Proposal)
    /\ stopped \in BOOLEAN

MultisigInit ==
    /\ now = 0
    /\ signers \in FirstSigners
    /\ threshold \in 2..Len(signers)
    /\ proposals = <<>>
    /\ stopped = FALSE

IsSigner(a) == a \in ToSet(signers)

ProposeAdminAction(proposer, action) ==
    /\ IsSigner(proposer)
    /\ action.type = "UpdateThreshold" => action.threshold >= 2
    /\ Len(proposals) < MaxProposals
    /\ proposals' = Append(proposals,
          [proposer |-> proposer, action |-> action, expires_at |-> now + Expiration,
           approvals |-> {proposer}, executed |-> FALSE, cancelled |-> FALSE])
    /\ UNCHANGED <<now, signers, threshold, stopped>>

IsOpen(p) == ~p.executed /\ ~p.cancelled /\ now <= p.expires_at

\* has_approved makes the list of approvals a set, and is one with it.
ApproveAdminAction(signer, id) ==
    /\ IsSigner(signer)
    /\ IsOpen(proposals[id])
    /\ signer \notin proposals[id].approvals
    /\ proposals' = [proposals EXCEPT ![id].approvals = @ \cup {signer}]
    /\ UNCHANGED <<now, signers, threshold, stopped>>

AddSigner(new_signer) ==
    /\ ~IsSigner(new_signer)
    /\ signers' = Append(signers, new_signer)
    /\ UNCHANGED <<threshold, stopped>>

\* The list the loop of remove_signer_internal builds: every entry that is not a.
Without(list, a) ==
    LET kept[n \in 0..Len(list)] ==
            IF n = 0 THEN <<>>
            ELSE IF list[n] = a THEN kept[n - 1] ELSE Append(kept[n - 1], list[n])
    IN  kept[Len(list)]

\* Mutant: what is left is not compared with the threshold.
RemoveSignerUnchecked(remove_signer) ==
    /\ IsSigner(remove_signer)
    /\ signers' = Without(signers, remove_signer)
    /\ UNCHANGED <<threshold, stopped>>

RemoveSigner(remove_signer) ==
    LET new_signers == Without(signers, remove_signer)
    IN  /\ IsSigner(remove_signer)
        /\ Len(new_signers) >= threshold
        /\ signers' = new_signers
        /\ UNCHANGED <<threshold, stopped>>

UpdateThreshold(new_threshold) ==
    /\ Len(signers) >= new_threshold /\ new_threshold >= 2
    /\ threshold' = new_threshold
    /\ UNCHANGED <<signers, stopped>>

\* Mutant: the expiration is not looked at.
ExecuteExpired(executor, id) ==
    LET p == proposals[id]
    IN  /\ IsSigner(executor)
        /\ ~p.executed /\ ~p.cancelled
        /\ Cardinality(p.approvals) >= threshold
        /\ \/ p.action.type = "AddSigner" /\ AddSigner(p.action.target)
           \/ p.action.type = "RemoveSigner" /\ RemoveSigner(p.action.target)
           \/ p.action.type = "UpdateThreshold" /\ UpdateThreshold(p.action.threshold)
           \/ /\ p.action.type \in {"EmergencyStop", "EmergencyResume"}
              /\ stopped' = (p.action.type = "EmergencyStop")
              /\ UNCHANGED <<signers, threshold>>
           \/ p.action.type = "Other" /\ UNCHANGED <<signers, threshold, stopped>>
        /\ proposals' = [proposals EXCEPT ![id].executed = TRUE]
        /\ UNCHANGED now

\* The action's own check is made when it is executed, not when it is proposed.
ExecuteAdminAction(executor, id) ==
    LET p == proposals[id]
    IN  /\ IsSigner(executor)
        /\ IsOpen(p)
        /\ Cardinality(p.approvals) >= threshold
        /\ \/ p.action.type = "AddSigner" /\ AddSigner(p.action.target)
           \/ p.action.type = "RemoveSigner" /\ RemoveSigner(p.action.target)
           \/ p.action.type = "UpdateThreshold" /\ UpdateThreshold(p.action.threshold)
           \/ /\ p.action.type \in {"EmergencyStop", "EmergencyResume"}
              /\ stopped' = (p.action.type = "EmergencyStop")
              /\ UNCHANGED <<signers, threshold>>
           \/ p.action.type = "Other" /\ UNCHANGED <<signers, threshold, stopped>>
        /\ proposals' = [proposals EXCEPT ![id].executed = TRUE]
        /\ UNCHANGED now

\* Neither the expiration nor whether the proposer still signs is looked at.
CancelProposal(proposer, id) ==
    /\ proposals[id].proposer = proposer
    /\ ~proposals[id].executed /\ ~proposals[id].cancelled
    /\ proposals' = [proposals EXCEPT ![id].cancelled = TRUE]
    /\ UNCHANGED <<now, signers, threshold, stopped>>

MultisigNext ==
    \/ \E a \in Accounts, action \in Actions : ProposeAdminAction(a, action)
    \/ \E a \in Accounts, id \in 1..Len(proposals) :
          ApproveAdminAction(a, id) \/ ExecuteAdminAction(a, id) \/ CancelProposal(a, id)
    \/ Tick /\ UNCHANGED <<signers, threshold, proposals, stopped>>

MultisigSpec == MultisigInit /\ [][MultisigNext]_multisigVars

(***************************************************************************)
(* Properties.                                                             *)
(***************************************************************************)

\* The signers cannot lock themselves out, whichever removals and thresholds
\* are proposed together and in which order they are executed: if the contract
\* was initialized with a list that names nobody twice, the list never will,
\* and there are always as many different signers as the threshold, which is at
\* least two, asks for.  A list that names a signer twice is accepted, and
\* promises nothing: <<a, a>> can never agree.
ThresholdInReach ==
    /\ [](IsInjective(signers) =>
             2 <= threshold /\ threshold <= Cardinality(ToSet(signers)))
    /\ [][IsInjective(signers) => IsInjective(signers')]_multisigVars

\* The signers, the threshold and the emergency flag change only by a proposal
\* that is executed in that step, once and while it is neither cancelled nor
\* expired, approved by as many different addresses as the threshold then asks.
OnlyByAgreement ==
    [][/\ <<signers, threshold, stopped>>' # <<signers, threshold, stopped>> =>
             \E id \in DOMAIN proposals :
                 /\ IsOpen(proposals[id]) /\ proposals'[id].executed
                 /\ Cardinality(proposals[id].approvals) >= threshold
       /\ \A id \in DOMAIN proposals :
             proposals[id].executed \/ proposals[id].cancelled =>
                 proposals'[id] = proposals[id]]_multisigVars
=============================================================================
