---------------------------- MODULE GroupBooking ----------------------------
(***************************************************************************)
(* One group booking (packages/backend, groupBooking): its members join,   *)
(* are invited, accept and pay, and are booked when all have paid.  A      *)
(* payment and an invitation write the group back as they read it, with    *)
(* the members it had (the relation cascades), over what was saved         *)
(* meanwhile, and so does a confirmation once it has booked the members    *)
(* one by one; the other calls are taken to run alone, apart from the      *)
(* shares of an acceptance and the confirmation an approval leads to.      *)
(* Shares and amounts are left out, and so is the hold of the group's      *)
(* seats, which is SeatLocks': here it only may fail the calls that ask    *)
(* for it.                                                                 *)
(***************************************************************************)
EXTENDS Integers, FiniteSets, NoValue

CONSTANTS
    People, Organizer,
    Seating,       \* seatsAvailable of the flight at first
    MaxGroupCalls  \* bound: payments and invitations begun

VARIABLES
    group,           \* the group_bookings row: status and approvalStatus
    members,         \* status of the group_members rows
    seatsAvailable,  \* of the flight
    approval,        \* status of the group's booking_approvals row
    paying,          \* processMemberPayment calls: where they are, what they read
    saving,          \* an inviteMembers or acceptInvitation call under way: what it read
    confirming,      \* confirmGroupBooking calls, of a member's payment or (None) of the
                     \* approval: what they read, who is yet to be booked
    booked,          \* members an individual booking was made for
    charged,         \* (history) members a payment was taken of
    groupCalls       \* calls counted for MaxGroupCalls

groupVars == <<group, members, seatsAvailable, approval, paying, saving, confirming,
               booked, charged, groupCalls>>

Group == [status : {"pending", "inviting", "awaiting_payment", "partial_paid", "paid",
                    "confirmed", "cancelled"},
          approval : {"not_required", "pending", "approved", "rejected"}]
MemberStatus == {"absent", "pending", "confirmed", "paid"}
Copy == [group : Group, members : [People -> MemberStatus]]
Payment == [step : {"charge", "confirm", "save"}, seat : BOOLEAN, copy : Copy]
Saving == [step : {"invite", "accept"}, copy : Copy]
Confirmation == [copy : Copy, due : SUBSET People]
Confirmers == People \cup {None}

\* What the parameters must satisfy.
GroupAssumption ==
    /\ Organizer \in People
    /\ Seating \in Nat /\ MaxGroupCalls \in Nat
    /\ None \notin People
    /\ None \notin Group \cup Payment \cup Saving \cup Confirmation
    /\ None \notin {"pending", "approved", "rejected"}

GroupTypeOK ==
    /\ group \in Group \cup {None}
    /\ members \in [People -> MemberStatus]
    /\ seatsAvailable \in Int
    /\ approval \in {None, "pending", "approved", "rejected"}
    /\ paying \in [People -> Payment \cup {None}]
    /\ saving \in Saving \cup {None}
    /\ confirming \in [Confirmers -> Confirmation \cup {None}]
    /\ booked \subseteq People /\ charged \subseteq People
    /\ groupCalls \in 0..MaxGroupCalls

GroupInit ==
    /\ group = None
    /\ members = [m \in People |-> "absent"]
    /\ seatsAvailable = Seating
    /\ approval = None
    /\ paying = [m \in People |-> None] /\ saving = None
    /\ confirming = [c \in Confirmers |-> None]
    /\ booked = {} /\ charged = {} /\ groupCalls = 0

Present == {m \in People : members[m] # "absent"}
Read == [group |-> group, members |-> members]

\* Saving a group saves the members it was read with too, and fails where one was
\* made since: that one would lose its groupBookingId, which may not be null.
SaveGroup(copy) ==
    /\ \A m \in Present : copy.members[m] # "absent"
    /\ group' = copy.group /\ members' = copy.members

\* createGroupBooking, and createCorporateGroupBooking, which asks for the
\* approval a policy requires.  When the hold fails the group stays without
\* members.
CreateGroupBooking(joining, requiresApproval) ==
    /\ group = None
    /\ seatsAvailable >= Cardinality(joining \cup {Organizer})
    /\ group' = [status |-> "pending",
                 approval |-> IF requiresApproval THEN "pending" ELSE "not_required"]
    /\ \/ /\ members' = [m \in People |-> IF m = Organizer THEN "confirmed"
                                          ELSE IF m \in joining THEN "pending" ELSE "absent"]
          /\ approval' = IF requiresApproval THEN "pending" ELSE None
       \/ UNCHANGED <<members, approval>>
    /\ UNCHANGED <<seatsAvailable, paying, saving, confirming, booked, charged, groupCalls>>

Open == group # None /\ group.status \notin {"confirmed", "cancelled"}

\* inviteMembers: new members are saved, if the hold could be made larger; the
\* e-mails are awaited ...
InviteMembers(invited) ==
    /\ Open /\ saving = None
    /\ groupCalls < MaxGroupCalls /\ groupCalls' = groupCalls + 1
    /\ members' = [m \in People |-> IF m \in invited THEN "pending" ELSE members[m]]
    /\ saving' = [step |-> "invite", copy |-> Read]
    /\ UNCHANGED <<group, seatsAvailable, approval, paying, confirming, booked, charged>>

\* ... and the group is written as it was read.
InvitationsSent ==
    /\ saving # None /\ saving.step = "invite"
    /\ SaveGroup([saving.copy EXCEPT !.group.status = "inviting"])
    /\ saving' = None
    /\ UNCHANGED <<seatsAvailable, approval, paying, confirming, booked, charged, groupCalls>>

\* Only a member that is confirmed is refused, not one that has paid.  The
\* member is saved, and all are read for their shares ...
AcceptInvitation(m) ==
    /\ m \in Present /\ members[m] # "confirmed" /\ saving = None
    /\ members' = [members EXCEPT ![m] = "confirmed"]
    /\ saving' = [step |-> "accept", copy |-> [Read EXCEPT !.members = members']]
    /\ UNCHANGED <<group, seatsAvailable, approval, paying, confirming, booked, charged,
                   groupCalls>>

\* ... which are saved with the members as read; checkAllMembersConfirmed.
SharesSaved ==
    /\ saving # None /\ saving.step = "accept"
    /\ members' = [m \in People |->
           IF saving.copy.members[m] = "confirmed" \/ m = Organizer
           THEN saving.copy.members[m] ELSE members[m]]
    /\ group' = IF /\ group.status = "inviting"
                   /\ \A n \in Present \ {Organizer} : members'[n] = "confirmed"
                THEN [group EXCEPT !.status = "awaiting_payment"] ELSE group
    /\ saving' = None
    /\ UNCHANGED <<seatsAvailable, approval, paying, confirming, booked, charged, groupCalls>>

\* processMemberPayment: the group and the flight are read ...
ProcessMemberPayment(m) ==
    /\ m \in Present /\ members[m] # "paid" /\ paying[m] = None
    /\ groupCalls < MaxGroupCalls /\ groupCalls' = groupCalls + 1
    /\ paying' = [paying EXCEPT ![m] =
           [step |-> "charge", seat |-> seatsAvailable > 0, copy |-> Read]]
    /\ UNCHANGED <<group, members, seatsAvailable, approval, saving, confirming, booked, charged>>

AllPaid(copy) == \A m \in People \ {Organizer} : copy.members[m] \in {"absent", "paid"}

\* ... a seat is taken if there was one, the member is saved as paid ...
ChargeMember(m) ==
    /\ paying[m] # None /\ paying[m].step = "charge"
    /\ LET copy == [paying[m].copy EXCEPT !.members[m] = "paid"]
       IN paying' = [paying EXCEPT ![m] = [
              step |-> IF AllPaid(copy) THEN "confirm" ELSE "save",
              seat |-> paying[m].seat,
              copy |-> [copy EXCEPT !.group.status =
                           IF AllPaid(copy) THEN "paid" ELSE "partial_paid"]]]
    /\ seatsAvailable' = IF paying[m].seat THEN seatsAvailable - 1 ELSE seatsAvailable
    /\ members' = [members EXCEPT ![m] = "paid"]
    /\ charged' = charged \cup {m}
    /\ UNCHANGED <<group, approval, saving, confirming, booked, groupCalls>>

\* Mutant: every member of a group is booked.
ConfirmEveryone(c, g) ==
    confirming' = IF g.approval = "pending" THEN confirming
                  ELSE [confirming EXCEPT ![c] =
                           [copy |-> [group |-> g, members |-> members], due |-> Present]]

\* Who is booked, once more each time.
Due == {m \in Present : members[m] = "paid" \/ m = Organizer}

\* confirmGroupBooking, of the group g ...
ConfirmGroupBooking(c, g) ==
    confirming' = IF g.approval = "pending" THEN confirming
                  ELSE [confirming EXCEPT ![c] =
                           [copy |-> [group |-> g, members |-> members], due |-> Due]]

\* ... books those due one after the other ...
BookMember(c, m) ==
    /\ confirming[c] # None /\ m \in confirming[c].due
    /\ confirming' = [confirming EXCEPT ![c].due = @ \ {m}]
    /\ booked' = booked \cup {m}
    /\ UNCHANGED <<group, members, seatsAvailable, approval, paying, saving,
                   charged, groupCalls>>

\* ... and writes the group as it read it.
GroupConfirmed(c) ==
    /\ confirming[c] # None /\ confirming[c].due = {}
    /\ SaveGroup([confirming[c].copy EXCEPT !.group.status = "confirmed"])
    /\ confirming' = [confirming EXCEPT ![c] = None]
    /\ UNCHANGED <<seatsAvailable, approval, paying, saving, booked, charged, groupCalls>>

\* ... the last payment has the group confirmed ...
PaymentConfirms(m) ==
    /\ paying[m] # None /\ paying[m].step = "confirm"
    /\ ConfirmGroupBooking(m, group)
    /\ paying' = [paying EXCEPT ![m].step = "save"]
    /\ UNCHANGED <<group, members, seatsAvailable, approval, saving, booked, charged, groupCalls>>

\* ... and the group is written as it was read.
PaymentSaved(m) ==
    /\ paying[m] # None /\ paying[m].step = "save" /\ confirming[m] = None
    /\ SaveGroup(paying[m].copy)
    /\ paying' = [paying EXCEPT ![m] = None]
    /\ UNCHANGED <<seatsAvailable, approval, saving, confirming, booked, charged, groupCalls>>

\* A call ends where the database fails it, as it does a save of too few members,
\* or the server stops.
GroupCallFails ==
    /\ \/ saving # None /\ saving' = None /\ UNCHANGED <<paying, confirming>>
       \/ \E m \in People :
            /\ paying[m] # None /\ paying' = [paying EXCEPT ![m] = None]
            /\ confirming' = [confirming EXCEPT ![m] = None]
            /\ UNCHANGED saving
       \/ /\ confirming[None] # None /\ confirming' = [confirming EXCEPT ![None] = None]
          /\ UNCHANGED <<paying, saving>>
    /\ UNCHANGED <<group, members, seatsAvailable, approval, booked, charged, groupCalls>>

ApproveBooking ==
    /\ approval = "pending"
    /\ approval' = "approved"
    /\ group' = [group EXCEPT !.approval = "approved"]
    /\ IF group.status = "paid" THEN ConfirmGroupBooking(None, group')
       ELSE UNCHANGED confirming
    /\ UNCHANGED <<members, seatsAvailable, paying, saving, booked, charged, groupCalls>>

RejectBooking ==
    /\ approval = "pending"
    /\ approval' = "rejected"
    /\ group' = [group EXCEPT !.approval = "rejected"]
    /\ UNCHANGED <<members, seatsAvailable, paying, saving, confirming, booked, charged,
                   groupCalls>>

\* What was paid is not given back, nor are the seats.
CancelGroupBooking ==
    /\ Open
    /\ group' = [group EXCEPT !.status = "cancelled"]
    /\ UNCHANGED <<members, seatsAvailable, approval, paying, saving, confirming, booked,
                   charged, groupCalls>>

GroupNext ==
    \/ \E joining \in SUBSET (People \ {Organizer}), requiresApproval \in BOOLEAN :
          joining # {} /\ CreateGroupBooking(joining, requiresApproval)
    \/ \E invited \in SUBSET (People \ Present) : InviteMembers(invited)
    \/ InvitationsSent \/ SharesSaved
    \/ \E m \in People :
          \/ AcceptInvitation(m) \/ ProcessMemberPayment(m) \/ ChargeMember(m)
          \/ PaymentConfirms(m) \/ PaymentSaved(m)
    \/ \E c \in Confirmers :
          GroupConfirmed(c) \/ \E m \in People : BookMember(c, m)
    \/ GroupCallFails \/ ApproveBooking \/ RejectBooking \/ CancelGroupBooking

GroupSpec == GroupInit /\ [][GroupNext]_groupVars

\* Whatever is written over what: nobody but the organizer is booked without
\* having paid, and nobody while the approval the group needs is undecided.
BookingsAreDue ==
    /\ booked \subseteq charged \cup {Organizer}
    /\ booked # {} => approval # "pending"
=============================================================================
