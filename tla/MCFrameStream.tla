---------------------------- MODULE MCFrameStream ----------------------------
(***************************************************************************)
(* Every message of the order protocol once, with values at the borders of *)
(* their types: negative prices and quantities, the largest and smallest   *)
(* integers, empty and longer strings, and lists of no, one and two rows.  *)
(***************************************************************************)
EXTENDS FrameStream

Message(type, values) == [type |-> type, values |-> values]

Top == Bytes(IntBytes) \div 2 - 1

MCRequests ==
    {Message("NewOrder", <<Bytes(IntBytes) - 1, <<3>>, 1, -1, Top, Base>>),
     Message("CancelOrder", <<Base>>),
     Message("ModifyOrder", <<1, -Top - 1, -2>>),
     Message("BookQuery", << <<7, 0>> >>)}

Reject(id, reason) == Message("OrderReject", <<id, reason>>)

MCMalformed == Reject(0, <<9, 9>>)

MCReplies(request) ==
    CASE request.type = "NewOrder" ->
            {Message("OrderAck", <<request.values[1],
                 << <<1, 2, request.values[1], <<3>>, -1, Top, 5>> >> >>),
             Reject(request.values[1], <<>>)}
      [] request.type = "BookQuery" ->
            {Message("BookSnapshot",
                 <<request.values[1], << <<Top, 3, 1>>, <<-1, -3, 2>> >>, <<>> >>)}
      [] OTHER ->
            {Message("OrderAck", <<request.values[1], <<>>>>),
             Reject(request.values[1], <<4, 0>>)}
=============================================================================
