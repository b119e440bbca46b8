-------------------------- MODULE MCWebhookDelivery --------------------------
EXTENDS WebhookDelivery, TLC

Resolved == "ext" :> "public" @@ "local" :> "loopback"

Offer(i, host, active) == [id |-> i, scheme |-> "https", host |-> host, secret |-> TRUE,
                           active |-> active, types |-> {}]
\* One that is reached; one of a local server, which development mode accepts and no
\* attempt reaches; one that is refused.
Tried == {Offer(1, "ext", TRUE), Offer(2, "local", TRUE),
          [Offer(1, "ext", TRUE) EXCEPT !.secret = FALSE]}
=============================================================================
