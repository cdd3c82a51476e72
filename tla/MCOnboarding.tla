----------------------------- MODULE MCOnboarding -----------------------------
(***************************************************************************)
(* Two requests of every kind at a time on a bank with a manager, an       *)
(* administrator, and a customer and a cashier who wait to be approved.    *)
(* Two newcomers, or a newcomer and the customer, want the same address.   *)
(***************************************************************************)
EXTENDS Onboarding, TLC

CONSTANTS meg, adam, carl, cash, r1, r2, e1, e2, e3, e4, e5, m1, m2, m3, m4, m5, m6, doc1, doc2

Doc(e, m, ro, status) ==
  [email |-> e, mobile |-> m, role |-> ro, approvalStatus |-> status,
   kycStatus |-> "NOT_STARTED", kycDocumentKey |-> NoKey, profileImageKey |-> NoKey]

MCStart ==
  meg :> Doc(e1, m1, "MANAGER", "APPROVED") @@ adam :> Doc(e2, m2, "ADMIN", "APPROVED")
  @@ carl :> Doc(e3, m3, "CUSTOMER", "PENDING")
  @@ cash :> Doc(e4, m4, "CASHIER", "PENDING")

MCOperations ==
  {[kind |-> "register", email |-> e, mobile |-> m, role |-> ro] :
     e \in {e3, e5}, m \in {m5, m6}, ro \in {"CUSTOMER", "MANAGER"}}
  \cup [kind : {"approveRegistration"}, by : {meg, adam, carl}, id : {carl, cash, r1},
        action : {"APPROVE", "REJECT"}]
  \cup [kind : {"updateUserRole"}, by : {meg, adam, carl}, id : {meg, adam, carl},
        role : {"CUSTOMER", "MANAGER", "CASHIER"}]
  \cup [kind : {"updateKycStatus"}, by : {meg, cash}, id : {carl, cash},
        status : {"VERIFIED", "REJECTED"}]
  \cup [kind : {"submitKYC", "updateProfileImage"}, by : {carl}, key : {doc1, doc2}]
  \cup [kind : {"updateProfile"}, by : {carl, cash}, email : {e3, e5}, mobile : {m3, m5}]
  \cup [kind : {"createAccount"}, by : {carl, meg}, accountType : AccountType]
=============================================================================
