------------------------- MODULE MCWebhookDelivery -------------------------
EXTENDS WebhookDelivery

MCSkews == {-4, 0, 1}
=============================================================================
