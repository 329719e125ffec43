------------------------------ MODULE MCClients ------------------------------
(***************************************************************************)
(* Two callers, one HelmApp, and the informer for HelmApps, as in the      *)
(* ForResource of the factory.                                             *)
(***************************************************************************)
EXTENDS SharedInformerFactory, TLC

CONSTANTS app, HelmApp

MCTypeOf == app :> HelmApp
=============================================================================
