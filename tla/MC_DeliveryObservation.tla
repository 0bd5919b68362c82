----------------------- MODULE MC_DeliveryObservation -----------------------
(* Routes of up to three items. *)
EXTENDS DeliveryObservation

MCContents == [route \in Routes |->
  {<<"x">>, <<"y", "x">>, <<"x", "y", "z">>}]
=============================================================================
