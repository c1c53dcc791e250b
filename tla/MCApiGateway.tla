---------------------------- MODULE MCApiGateway ----------------------------
EXTENDS ApiGateway
=============================================================================
