--------------------------- MODULE MCUpgradeControl ---------------------------
\* Owners are alike, and so are the first implementations; a contract that is
\* not the behaviour's starts in one way.
EXTENDS UpgradeControl

CONSTANTS a, b, c, u, v, i

MCFirstSigners == {<<a, a>>, <<a, b, c>>}
MCActions ==
    {[type |-> "AddSigner", target |-> c], [type |-> "RemoveSigner", target |-> b],
     [type |-> "RemoveSigner", target |-> c], [type |-> "UpdateThreshold", threshold |-> 1],
     [type |-> "UpdateThreshold", threshold |-> 3],
     [type |-> "EmergencyStop"], [type |-> "EmergencyResume"], [type |-> "Other"]}
MCCouncils ==
    [signers : {<<u, v>>}, threshold : 1..2] \cup {[signers |-> <<v>>, threshold |-> 1]}

MCInit ==
    /\ Init
    /\ <<owner, gov_owner, proxy_owner, config.implementation>> = <<u, u, u, i>>
    /\ contract # "admin" => signers = <<a, a>>
    /\ contract # "proxy" => council = [signers |-> <<u, v>>, threshold |-> 1]

MCSpec == MCInit /\ [][Next]_vars
=============================================================================
