------------------------ MODULE MCSubmitTransaction -------------------------
(* Two accounts, and a contract at three moments of its life. *)
EXTENDS SubmitTransaction

CONSTANTS alice, bob

\* Just deployed.
Deployed(on) == [on |-> on, admin |-> None, custodians |-> {}, receipt |-> Unissued]

\* Set up by alice, with her as custodian and nothing issued yet.
SetUp(on) == [Deployed(on) EXCEPT !.admin = alice, !.custodians = {alice}]

\* bob is a custodian too, and alice owns a receipt that she issued.
InUse(on) == [SetUp(on) EXCEPT !.custodians = {alice, bob}, !.receipt = Issued(alice, alice, 2)]

MCBeginnings ==
  UNION {{Deployed(on), SetUp(on), InUse(on)} : on \in {"sesame", "maize"}}
=============================================================================
