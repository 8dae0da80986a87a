------------------------ MODULE OrderBookRefinement ------------------------
(***************************************************************************)
(* The linked lists, price maps, slot pool and index of OrderBook, read as *)
(* the set of resting orders of PriceTimeBook.  The steps that find a      *)
(* level and that leave one change nothing a caller could see.             *)
(***************************************************************************)
EXTENDS OrderBook

RestingOrders ==
  [id \in DOMAIN order_location |->
     [side |-> Slot(id).side, price |-> Slot(id).price,
      quantity |-> Slot(id).quantity,
      arrival |-> arrival[order_location[id]]]]

Abstract == INSTANCE PriceTimeBook WITH
  resting <- RestingOrders, incoming <- order, left <- remaining

(* The order book is a price-time priority book: every behaviour of the    *)
(* code's data structures is one of PriceTimeBook.                         *)
ImplementsPriceTimeBook == Abstract!Spec
=============================================================================
