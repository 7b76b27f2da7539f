---------------------------- MODULE UpgradeControl ----------------------------
(***************************************************************************)
(* The four contracts that decide about upgrades and parameters.  None     *)
(* calls another, so a behaviour is one of one contract, chosen at first;  *)
(* the others stay as they are.                                            *)
(***************************************************************************)
EXTENDS Multisig, UpgradeTimelock, Governance, Proxy

ASSUME ContractsAssumption ==
    MultisigAssumption /\ TimelockAssumption /\ GovernanceAssumption /\ ProxyAssumption

VARIABLE contract

adminOnly == <<signers, threshold, proposals, stopped>>
timelockOnly == <<owner, roles, timelock, upgrade, announced>>
votesOnly == <<gov_owner, gov_roles, motions, voted>>
proxyOnly == <<proxy_owner, proxy_roles, config, council, upgrades, migrations>>
vars == <<contract, now, adminOnly, timelockOnly, votesOnly, proxyOnly>>

TypesOK == MultisigTypeOK /\ TimelockTypeOK /\ GovernanceTypeOK /\ ProxyTypeOK

Init ==
    /\ contract \in {"admin", "upgrade", "governance", "proxy"}
    /\ MultisigInit /\ TimelockInit /\ GovernanceInit /\ ProxyInit

Next ==
    /\ UNCHANGED contract
    /\ \/ /\ contract = "admin" /\ MultisigNext
          /\ UNCHANGED <<timelockOnly, votesOnly, proxyOnly>>
       \/ /\ contract = "upgrade" /\ TimelockNext
          /\ UNCHANGED <<adminOnly, votesOnly, proxyOnly>>
       \/ /\ contract = "governance" /\ GovernanceNext
          /\ UNCHANGED <<adminOnly, timelockOnly, proxyOnly>>
       \/ /\ contract = "proxy" /\ ProxyNext
          /\ UNCHANGED <<now, adminOnly, timelockOnly, votesOnly>>

Spec == Init /\ [][Next]_vars
=============================================================================
