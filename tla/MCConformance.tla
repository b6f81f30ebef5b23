--------------------------- MODULE MCConformance ---------------------------
(* Conformance with the tests of the repository, for TLC.                   *)
EXTENDS Conformance

Protocol == INSTANCE ProtocolTests
Layout == INSTANCE LayoutTests
Diameter == INSTANCE DiameterTests

Null == -1
AllTypes == Protocol!ProtocolTypes @@ Layout!LayoutTypes @@ Diameter!DiameterTypes
AllTests == Protocol!ProtocolTestSet \cup Layout!LayoutTestSet \cup Diameter!DiameterTestSet
DamagedTests == UNION {Protocol!dec_seq_ok, Protocol!decode_set_ok, Protocol!decode_msg_func,
                       Layout!plain, Layout!any, Layout!seq}
ItemsTest == Layout!vlvar_items

MCCallback(name, v) ==
    CASE name \in Protocol!ProtocolFunctors -> Protocol!ProtocolFunctor(name, v)
      [] name \in Layout!LayoutFunctors -> Layout!LayoutFunctor(name, v)
      [] name \in Diameter!DiameterFunctors -> Diameter!DiameterFunctor(name, v)
=============================================================================
