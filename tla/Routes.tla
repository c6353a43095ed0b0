------------------------------- MODULE Routes -------------------------------
(***************************************************************************)
(* The single page application's screens: which route exists, which role   *)
(* its guard lets in, where a guard sends everybody else, and which routes *)
(* the menus offer to each role (frontend/src/router, constants/routes.ts, *)
(* components/auth, components/layout).  A route is a name; the path       *)
(* parameters (":id") are left out.                                        *)
(***************************************************************************)
EXTENDS Sequences

Roles == {"agent", "client", "admin"}
NoRole == "none"

PublicRoutes == {"login", "register", "admin_login"}

\* Routes inside a RoleGuard, with the roles it lets in.
GuardRoles ==
  [ agent_dashboard  |-> {"agent"},
    client_dashboard |-> {"client"},
    admin_dashboard  |-> {"admin"},
    agent_reels      |-> {"agent", "admin"},
    client_reels     |-> {"client"},
    marketplace      |-> Roles,
    showroom         |-> Roles,
    my_products      |-> {"agent", "admin"},
    product_review   |-> {"agent", "admin"},
    rfq_create       |-> Roles,
    build_quote      |-> {"agent", "admin"},
    supplier_inbox   |-> {"agent", "admin"},
    doc_upload       |-> {"agent", "admin"},
    doc_detail       |-> {"agent", "admin"},
    pricing_rules    |-> {"admin"},
    pricing_calc     |-> {"agent", "admin"},
    standalone_calc  |-> {"agent", "admin"},
    admin_verify     |-> {"admin"},
    admin_monitor    |-> {"admin"},
    admin_hs_codes   |-> {"admin"},
    admin_users      |-> {"admin"},
    admin_catalog    |-> {"admin"} ]

\* Routes inside ProtectedRoute that have no RoleGuard of their own.
OpenRoutes == {"rfq_list", "rfq_detail", "quotes", "quote_detail", "orders",
               "order_tracking", "chat_list", "chat_room", "settings",
               "profile"}

RouteNames == PublicRoutes \cup DOMAIN GuardRoles \cup OpenRoutes
                \cup {"root", "dashboard"}

\* Paths that start with "/admin": ProtectedRoute has a login page for them.
AdminPaths == {"admin_dashboard", "admin_verify", "admin_monitor",
               "admin_hs_codes", "admin_users", "admin_catalog"}

DashboardPathForRole(role) ==
  IF role = "client" THEN "client_dashboard"
  ELSE IF role = "admin" THEN "admin_dashboard"
  ELSE "agent_dashboard"

\* RoleGuard: the children are rendered only for a role of the list.
RoleGuard(role, r) == r \in DOMAIN GuardRoles => role \in GuardRoles[r]

\* DashboardRouter, the element of /dashboard.
DashboardRouter(role) ==
  IF role = NoRole THEN "login" ELSE DashboardPathForRole(role)

\* ProtectedRoute without a session.
LoginPathFor(r) == IF r \in AdminPaths THEN "admin_login" ELSE "login"

\* Where rendering route r sends the browser next; r itself when the page
\* (or ProtectedRoute's spinner) is shown.
RedirectFrom(r, auth, bootstrapping, role) ==
  CASE r \in PublicRoutes     -> r
    [] r = "root"             -> "dashboard"
    [] ~auth                  -> LoginPathFor(r)
    [] bootstrapping          -> r
    [] r = "dashboard"        -> DashboardRouter(role)
    [] ~RoleGuard(role, r)    -> "dashboard"
    [] OTHER                  -> r

\* Sidebar: the items of each role's menu, by the tour anchor they carry.
\* MobileDrawer renders the same Sidebar.
SidebarNav ==
  [ agent |->
      [ tour_purchase_requests |-> "rfq_list",
        tour_supplier_inbox |-> "supplier_inbox",
        tour_marketplace |-> "marketplace", tour_my_products |-> "my_products",
        tour_upload |-> "doc_upload", tour_review |-> "product_review",
        tour_calculator |-> "standalone_calc", tour_quotes |-> "quotes",
        tour_orders |-> "orders", tour_chat |-> "chat_list",
        tour_reels |-> "agent_reels", home |-> "agent_dashboard",
        calculator |-> "pricing_calc" ],
    client |->
      [ tour_marketplace |-> "marketplace", tour_new_rfq |-> "rfq_create",
        tour_my_requests |-> "rfq_list", tour_chat |-> "chat_list",
        tour_orders |-> "orders", home |-> "client_dashboard" ],
    admin |->
      [ home |-> "admin_dashboard", monitor |-> "admin_monitor",
        verification |-> "admin_verify", rules |-> "pricing_rules",
        hs_codes |-> "admin_hs_codes", catalog |-> "admin_catalog",
        users |-> "admin_users" ] ]

SidebarFooter == {"profile", "settings"}

\* BottomNav: the tabs at the bottom of a phone's screen.
BottomNavTabs ==
  [ client |-> {"client_dashboard", "marketplace", "client_reels",
                "chat_list", "profile"},
    agent  |-> {"agent_dashboard", "supplier_inbox", "agent_reels",
                "chat_list", "profile"},
    admin  |-> {"admin_dashboard", "admin_monitor", "admin_verify"} ]

\* AppLayout: the layout, and so the menu, of a role; no role falls back to
\* the agent's.
LayoutRole(role) == IF role = NoRole THEN "agent" ELSE role

SidebarLinks(role) ==
  {SidebarNav[role][a] : a \in DOMAIN SidebarNav[role]} \cup SidebarFooter

MenuLinks(role) ==
  SidebarLinks(LayoutRole(role)) \cup BottomNavTabs[LayoutRole(role)]

=============================================================================
