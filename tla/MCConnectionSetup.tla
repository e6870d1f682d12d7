------------------------- MODULE MCConnectionSetup -------------------------
(* Two channels to one host, with and without their own names and roots.   *)
EXTENDS ConnectionSetup, TLC

CONSTANTS host, name, pem

MCTexts == {host, name, pem}

\* Roots that are not given, given or empty; a chain with and without its key.
MCSslArguments ==
    {[root_certs |-> NULL, private_key |-> NULL, cert_chain |-> NULL],
     [root_certs |-> pem, private_key |-> NULL, cert_chain |-> NULL],
     [root_certs |-> EMPTY, private_key |-> pem, cert_chain |-> pem],
     [root_certs |-> EMPTY, private_key |-> NULL, cert_chain |-> pem]}

MCChannelOptions ==
    {[host |-> host, authority |-> NULL, tls_verify_name |-> name, valid |-> TRUE],
     [host |-> host, authority |-> name, tls_verify_name |-> EMPTY, valid |-> TRUE],
     [host |-> host, authority |-> name, tls_verify_name |-> NULL, valid |-> FALSE]}

\* No channel and no credentials object is told from another.
MCSymmetry == Permutations(Channels) \cup Permutations(CredObjects)

=============================================================================
