----------------------------- MODULE MCApiClient -----------------------------
(***************************************************************************)
(* One safe and one unsafe method; a token that lives shorter than the     *)
(* safety margin and one that lives longer.                                *)
(***************************************************************************)
EXTENDS ApiClient

AllStrategies == {StaticAuth, Jwt, ClientCredentials, AuthorizationCode}
=============================================================================
