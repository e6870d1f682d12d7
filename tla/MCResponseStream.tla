-------------------------- MODULE MCResponseStream --------------------------
EXTENDS ResponseStream

Msg(flag, payload) == [flag |-> flag, payload |-> payload]

\* Plain messages of every size up to the limits, an empty one among them, and
\* one of each kind the parser refuses: too large, compressed, of unknown flag.
DeliveryScripts ==
    {<<Msg(0, <<1>>), Msg(0, <<>>), Msg(0, <<2>>)>>,
     <<Msg(0, <<1>>), Msg(0, <<2, 3>>)>>,
     <<Msg(0, <<1>>), Msg(1, <<2>>)>>,
     <<Msg(2, <<>>)>>, <<Msg(0, <<1, 2, 3>>)>>}

Field(name, value) == [name |-> name, value |-> value]

DeliveryFields ==
    {Field("content-type", "application/grpc"), Field("grpc-status", "OK")}

Compressed == {<<Msg(1, <<>>)>>}

ClassificationFields ==
    {Field("content-type", v) : v \in {"application/grpc", "text/html"}}
    \cup {Field("grpc-status", v) : v \in {"OK", NoStatus}}
    \cup {Field("grpc-encoding", "gzip"), Field("grpc-message", "any"),
          Field("grpc-status-details-bin", "any"), Field("custom", "any")}
=============================================================================
