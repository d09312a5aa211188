-------------------------- MODULE MCScaleCampaign --------------------------
EXTENDS ScaleCampaign

CONSTANTS e1, e2

TwoCells == <<{e1, e2}, {e1}>>
OneCell == <<{e1}>>
=============================================================================
