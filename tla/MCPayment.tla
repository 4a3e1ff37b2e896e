----------------------------- MODULE MCPayment ------------------------------
(***************************************************************************)
(* Instances of Payment for TLC: WeChat Pay with two orders of one buyer,  *)
(* and the free gateway, which settles inside create, with two buyers.     *)
(***************************************************************************)
EXTENDS Payment, TLC

CONSTANTS b1, b2, c1

MCDeployments ==
  {[gateway |-> "wechat", redisFails |-> TRUE,
    calls |-> {"create", "notify", "recover", "refund", "close"},
    buyers |-> {b1}, orders |-> {1, 2}, coupons |-> {}],
   [gateway |-> "free", redisFails |-> FALSE,
    calls |-> {"create", "refund", "close", "redeem", "grant"},
    buyers |-> {b1, b2}, orders |-> {1}, coupons |-> {c1}]}

Symmetry == Permutations(Workers)
=============================================================================
