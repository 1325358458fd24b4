------------------------------- MODULE Routes -------------------------------
(***************************************************************************)
(* The routes of jinbe with the gates each of them runs, in the order in   *)
(* which Fastify calls the hooks: onRequest of the server (requireAuth,    *)
(* which lets the public paths through), onRequest of the plugin,          *)
(* preHandler of the plugin, preHandler of the route, and the check a      *)
(* handler starts with where the route gates itself.  A route is named by  *)
(* its method and path without the plugin's prefix.                        *)
(***************************************************************************)
EXTENDS TLC, Sequences

All(names, chain) == [n \in names |-> chain]

User == <<"Session">>                        \* requireAuth alone
Admin == User \o <<"Admin">>
Author == Admin \o <<"SuperRole">>
SuperAdmin == User \o <<"SuperGroup">>
Public == <<>>

\* /admin
AdminReadRoutes ==
  All({"GET /events", "GET /users", "GET /stats", "GET /access-review", "GET /users/search",
       "GET /users/:id"}, Admin)

AdminEditRoutes ==
  All({"POST /users", "PUT /users/:id", "PATCH /users/:id/metadata", "PATCH /users/:id/state",
       "PATCH /users/:id/organization", "DELETE /users/:id"}, Admin)

AdminGroupRoutes ==
  All({"GET /users/:email/groups", "POST /users/:id/recovery-email", "GET /users/:id/sessions",
       "DELETE /sessions/:sessionId", "DELETE /users/:id/sessions"}, Admin)
  @@ All({"PUT /users/:email/groups"}, Admin \o <<"SuperGroup">>)

\* /admin/rbac
RbacGroupRoutes ==
  All({"GET /rbac/users", "GET /groups", "POST /groups", "PUT /groups/:name", "DELETE /groups/:name"}, Admin)

RbacServiceRoutes ==
  All({"GET /services", "GET /services/:name/permissions", "GET /services/:name/favicon",
       "GET /services/:name/roles"}, Admin)
  @@ All({"POST /services", "DELETE /services/:name", "PATCH /services/:name"}, Author)

RbacServiceEditRoutes ==
  All({"PUT /services/:name/roles", "GET /services/:name/routes", "PUT /services/:name/routes",
       "POST /services/:name/routes/import/preview"}, Admin)

RbacRuleRoutes ==
  All({"GET /access-rules", "GET /access-rules/:id", "GET /oathkeeper/handlers"}, Admin)
  @@ All({"POST /access-rules", "PUT /access-rules/:id", "DELETE /access-rules/:id"}, Author)

RbacMapRoutes ==
  All({"GET /org-service-map", "PUT /org-service-map", "GET /org-admin-map",
       "DELETE /org-service-map/:organizationId"}, Admin)
  @@ All({"PUT /org-admin-map"}, Admin \o <<"SuperGroup", "RecentMfa">>)

RbacPreviewRoutes ==
  All({"POST /impact-preview", "POST /simulate", "POST /health-check", "GET /rbac/history"}, Admin)

\* The pull endpoints of OPAL, public by pattern.
RbacOpalRoutes ==
  All({"GET /bindings", "GET /opal/groups", "GET /opal/org_service_map", "GET /opal/org_admin_map",
       "GET /opal/roles/:service", "GET /opal/route_map/:service", "GET /opal-datasource"}, Public)

\* Export, import, backups, history and rollback: no plugin hook, one gate each.
BundleExportRoutes ==
  All({"GET /bundle/export", "POST /bundle/import", "GET /bundle/backups",
       "POST /bundle/backups/restore"}, SuperAdmin)

BundleHistoryRoutes ==
  All({"POST /bundle/backups/now", "GET /bundle/history", "POST /bundle/history/:id/rollback"}, SuperAdmin)

AuthConfigRoutes == All({"GET /methods"}, Admin) @@ All({"PUT /methods"}, SuperAdmin)

\* The hook is added after /metrics, but a hook of a plugin covers all its routes.
AuditRoutes ==
  All({"GET /metrics", "GET /audit/events", "GET /summary", "GET /export"}, Admin)

RecertCampaignRoutes ==
  All({"POST /campaigns", "GET /campaigns", "GET /campaigns/:id", "POST /campaigns/:id/activate",
       "POST /campaigns/:id/close"}, Admin)

RecertItemRoutes ==
  All({"DELETE /campaigns/:id", "GET /campaigns/:id/items", "GET /campaigns/:id/report"}, Admin)
  @@ All({"GET /inbox"}, User)
  @@ All({"POST /items/:campaignId/:itemId/decision"}, User \o <<"ReviewerOrAdmin">>)

\* /scim/v2: the session gate is lifted, the bearer token is the first hook.
ScimDiscoveryRoutes ==
  All({"GET /ServiceProviderConfig", "GET /ResourceTypes", "GET /Schemas"}, Public \o <<"Scim">>)

ScimUserRoutes ==
  All({"GET /Users", "GET /Users/:id", "POST /Users", "PUT /Users/:id", "PATCH /Users/:id",
       "DELETE /Users/:id"}, Public \o <<"Scim">>)

\* /organizations/:organizationId
OrganizationGates == User \o <<"ServiceAdmin", "ManageableOrg">>

OrganizationUserRoutes ==
  All({"GET /assignable-groups", "GET /org/users", "GET /org/users/:id", "POST /org/users",
       "PUT /org/users/:id", "DELETE /org/users/:id", "GET /org/users/:id/groups"}, OrganizationGates)
  @@ All({"PUT /org/users/:id/groups"}, OrganizationGates \o <<"AssignPermission">>)

ApiKeyRoutes ==
  All({"POST /api-keys", "GET /api-keys", "GET /api-keys/:clientId", "DELETE /api-keys/:clientId"},
      User \o <<"ServiceAdmin">>)
  @@ All({"GET /oauth-clients/:clientId/organization"}, User)   \* not on the list of public routes

\* Clusters, databases, backups and their items, jobs: the session is the only gate.
ClusterRoutes ==
  All({"GET /clusters", "GET /clusters/:id", "POST /clusters", "POST /clusters/:id/databases",
       "POST /clusters/:id/backups"}, User)

ClusterEditRoutes ==
  All({"PUT /clusters/:id", "DELETE /clusters/:id", "POST /clusters/verify", "POST /clusters/:id/verify"}, User)

DatabaseRoutes ==
  All({"GET /databases", "GET /databases/:id", "GET /databases/:id/list", "GET /databases/:id/api",
       "POST /databases/:id/api", "PUT /databases/:id", "DELETE /databases/:id"}, User)

BackupRoutes ==
  All({"GET /backups", "GET /backups/:id", "POST /backups/:id/items", "DELETE /backups/:id"}, User)

BackupItemRoutes ==
  All({"GET /backup-items", "GET /backup-items/:id", "PUT /backup-items/:id",
       "DELETE /backup-items/:id"}, User)

DatabaseApiRoutes ==
  All({"GET /database-apis", "GET /database-apis/:id", "PUT /database-apis/:id",
       "DELETE /database-apis/:id"}, User)

JobRoutes == All({"POST /jobs", "GET /jobs", "GET /jobs/:name/pods"}, User)

\* Answers with and without a session; the handler resolves the caller's roles.
WhoamiRoute == All({"GET /whoami"}, Public)

MeRoutes == All({"GET /me/organizations"}, User)

\* Pulled by OPA and Oathkeeper, called by Kratos, and the probe of Kubernetes.
OpaBundleRoutes == All({"GET /opa/bundle"}, Public)
OathkeeperRoutes == All({"GET /oathkeeper/rules"}, Public)
WebhookRoutes == All({"POST /webhooks/kratos"}, Public \o <<"Secret">>)
HealthRoute == All({"GET /health"}, Public)

RouteTable ==
  AdminReadRoutes @@ AdminEditRoutes @@ AdminGroupRoutes
  @@ RbacGroupRoutes @@ RbacServiceRoutes @@ RbacServiceEditRoutes @@ RbacRuleRoutes
  @@ RbacMapRoutes @@ RbacPreviewRoutes @@ RbacOpalRoutes
  @@ BundleExportRoutes @@ BundleHistoryRoutes @@ AuthConfigRoutes @@ AuditRoutes
  @@ RecertCampaignRoutes @@ RecertItemRoutes @@ ScimDiscoveryRoutes @@ ScimUserRoutes
  @@ OrganizationUserRoutes @@ ApiKeyRoutes @@ ClusterRoutes @@ ClusterEditRoutes
  @@ DatabaseRoutes @@ BackupRoutes @@ BackupItemRoutes @@ DatabaseApiRoutes @@ JobRoutes
  @@ WhoamiRoute @@ MeRoutes @@ OpaBundleRoutes @@ OathkeeperRoutes @@ WebhookRoutes @@ HealthRoute

\* The gates that some route runs: what a request's fate depends on.
RouteChains == {RouteTable[r] : r \in DOMAIN RouteTable}
==============================================================================
