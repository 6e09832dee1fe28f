------------------------------ MODULE Services ------------------------------
(* Four small services.  They share nothing: each behaviour is of one. *)
EXTENDS PostService, ClusterCounter, Widgets, ChatRoom

VARIABLE app

others == <<app, postVars, counterVars, widgetVars, chatVars>>

ServicesInit ==
  /\ app \in {"posts", "counter", "widgets", "chat"}
  /\ PostInit /\ CounterInit /\ WidgetInit /\ ChatInit

ServicesNext ==
  \/ /\ app = "posts" /\ PostNext
     /\ UNCHANGED <<app, counterVars, widgetVars, chatVars>>
  \/ /\ app = "counter" /\ CounterNext
     /\ UNCHANGED <<app, postVars, widgetVars, chatVars>>
  \/ /\ app = "widgets" /\ WidgetNext
     /\ UNCHANGED <<app, postVars, counterVars, chatVars>>
  \/ /\ app = "chat" /\ ChatNext
     /\ UNCHANGED <<app, postVars, counterVars, widgetVars>>

ServicesSpec == ServicesInit /\ [][ServicesNext]_others

\* The fairness of each: where the service is another, nothing is enabled.
ServicesFairSpec == ServicesSpec /\ PostFairness /\ ChatFairness
=============================================================================
