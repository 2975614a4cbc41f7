----------------------------- MODULE RrcMeasIes ----------------------------
(***************************************************************************)
(* RRC information elements of 36.331 section 6.3.5: measurement objects,  *)
(* report configurations and the measurement configuration.                *)
(* One layout per function, named without the prefix liblte_rrc_.  Numbers *)
(* in Is, Arm and Enum are values and sizes of enumerations of liblte_rrc.h. *)
(***************************************************************************)
EXTENDS RrcMobilityIes

pack_allowed_meas_bandwidth_ie == <<Enum("", 3, 6)>>

unpack_allowed_meas_bandwidth_ie == <<Enum("", 3, 6)>>

pack_hysteresis_ie == <<Fld("", 5)>>

unpack_hysteresis_ie == <<Fld("", 5)>>

pack_meas_gap_config_ie ==
  <<Fld("setup_present", 1),
    When(On("setup_present"),
      <<Fld("gap_offset_type", 1),
        Case(Off("gap_offset_type"), <<Fld("gap_offset", 6)>>, <<Fld("gap_offset", 7)>>)>>)>>

pack_meas_id_ie == <<Bias("", 5, -1)>>

pack_meas_object_id_ie == <<Bias("", 5, -1)>>

pack_report_config_id_ie == <<Bias("", 5, -1)>>

pack_meas_id_to_add_mod_list_ie ==
  <<Cnt("N_meas_id", 5, -1),
    Each("N_meas_id", "meas_id_list",
      <<Sub("meas_id", pack_meas_id_ie), Sub("meas_obj_id", pack_meas_object_id_ie),
        Sub("rep_cnfg_id", pack_report_config_id_ie)>>)>>

pack_meas_object_cdma2000_ie ==
  <<Fill(0, 1), Flags(<<"search_win_size_present", "cells_to_remove_list_present">>),
    Opt(Some("N_cells_to_add_mod")), Fld("cell_for_which_to_rep_cgi_present", 1),
    Sub("cdma2000_type", pack_cdma2000_type_ie),
    Sub("carrier_freq", pack_carrier_freq_cdma2000_ie),
    When(On("search_win_size_present"), <<Fld("search_win_size", 4)>>),
    Sub("offset_freq", pack_q_offset_range_inter_rat_ie),
    When(On("cells_to_remove_list_present"),
      <<Sub("cells_to_remove_list", pack_cell_index_list_ie)>>),
    When(On("N_cells_to_add_mod"), <<Cnt("N_cells_to_add_mod", 5, -1)>>),
    Each("N_cells_to_add_mod", "cells_to_add_mod_list",
      <<Bias("cell_idx", 5, -1), Sub("pci", pack_phys_cell_id_cdma2000_ie)>>),
    When(On("cell_for_which_to_rep_cgi_present"),
      <<Sub("cell_for_which_to_rep_cgi_present", pack_phys_cell_id_cdma2000_ie)>>)>>

pack_meas_object_eutra_ie ==
  <<Fill(0, 1), Fld("cells_to_remove_list_present", 1), Opt(Some("N_cells_to_add_mod")),
    Fld("black_cells_to_remove_list_present", 1), Opt(Some("N_black_cells_to_add_mod")),
    Fld("cell_for_which_to_rep_cgi_present", 1), Sub("carrier_freq", pack_arfcn_value_eutra_ie),
    Sub("allowed_meas_bw", pack_allowed_meas_bandwidth_ie),
    Sub("presence_ant_port_1", pack_presence_antenna_port_1_ie),
    Sub("neigh_cell_cnfg", pack_neigh_cell_config_ie), Sub("offset_freq", pack_q_offset_range_ie),
    When(On("cells_to_remove_list_present"),
      <<Sub("cells_to_remove_list", pack_cell_index_list_ie)>>),
    When(On("N_cells_to_add_mod"), <<Cnt("N_cells_to_add_mod", 5, -1)>>),
    Each("N_cells_to_add_mod", "cells_to_add_mod_list",
      <<Bias("cell_idx", 5, -1), Sub("pci", pack_phys_cell_id_ie),
        Sub("cell_offset", pack_q_offset_range_ie)>>),
    When(On("black_cells_to_remove_list_present"),
      <<Sub("black_cells_to_remove_list", pack_cell_index_list_ie)>>),
    When(On("N_black_cells_to_add_mod"), <<Cnt("N_black_cells_to_add_mod", 5, -1)>>),
    Each("N_black_cells_to_add_mod", "black_cells_to_add_mod_list",
      <<Bias("cell_idx", 5, -1), Sub("pci_range", pack_phys_cell_id_range_ie)>>),
    When(On("cell_for_which_to_rep_cgi_present"),
      <<Sub("cell_for_which_to_rep_cgi", pack_phys_cell_id_ie)>>)>>

pack_meas_object_geran_ie ==
  <<Fill(0, 1), Fld("cell_for_which_to_rep_cgi_present", 1),
    Sub("carrier_freqs", pack_carrier_freqs_geran_ie),
    Sub("offset_freq", pack_q_offset_range_inter_rat_ie), Fld("ncc_permitted", 8),
    When(On("cell_for_which_to_rep_cgi_present"),
      <<Sub("cell_for_which_to_rep_cgi", pack_phys_cell_id_geran_ie)>>)>>

pack_meas_object_utra_ie ==
  <<Fill(0, 1),
    Flags(<<"cells_to_remove_list_present", "cells_to_add_mod_list_present",
      "cells_for_which_to_rep_cgi_present">>),
    Sub("carrier_freq", pack_arfcn_value_utra_ie),
    Sub("offset_freq", pack_q_offset_range_inter_rat_ie),
    When(On("cells_to_remove_list_present"),
      <<Sub("cells_to_remove_list", pack_cell_index_list_ie)>>),
    When(On("cells_to_add_mod_list_present"),
      <<Fld("cells_to_add_mod_list.type", 1), Cnt("cells_to_add_mod_list.N_cells", 5, -1),
        Case(Off("cells_to_add_mod_list.type"),
          <<Each("cells_to_add_mod_list.N_cells", "cells_to_add_mod_list.cells_fdd",
              <<Bias("cell_idx", 5, -1), Sub("pci", pack_phys_cell_id_utra_fdd_ie)>>)>>,
          <<Each("cells_to_add_mod_list.N_cells", "cells_to_add_mod_list.cells_tdd",
              <<Bias("cell_idx", 5, -1), Sub("pci", pack_phys_cell_id_utra_tdd_ie)>>)>>)>>),
    When(On("cells_for_which_to_rep_cgi_present"),
      <<Fld("cells_for_which_to_rep_cgi.type", 1),
        Case(Off("cells_for_which_to_rep_cgi.type"),
          <<Sub("cells_for_which_to_rep_cgi.pci_fdd", pack_phys_cell_id_utra_fdd_ie)>>,
          <<Sub("cells_for_which_to_rep_cgi.pci_tdd", pack_phys_cell_id_utra_tdd_ie)>>)>>)>>

pack_meas_object_to_add_mod_list_ie ==
  <<Cnt("N_meas_obj", 5, -1),
    Each("N_meas_obj", "meas_obj_list",
      <<Sub("meas_obj_id", pack_meas_object_id_ie), Fld("meas_obj_type", 2),
        Switch("meas_obj_type",
          <<Arm({0}, <<Sub("meas_obj_eutra", pack_meas_object_eutra_ie)>>),
            Arm({1}, <<Sub("meas_obj_utra", pack_meas_object_utra_ie)>>),
            Arm({2}, <<Sub("meas_obj_geran", pack_meas_object_geran_ie)>>)>>,
          <<Sub("meas_obj_cdma2000", pack_meas_object_cdma2000_ie)>>)>>)>>

pack_quantity_config_ie ==
  <<Fill(0, 1),
    Flags(<<"qc_eutra_present", "qc_utra_present", "qc_geran_present", "qc_cdma2000_present">>),
    When(On("qc_eutra_present"),
      <<Sub("qc_eutra.fc_rsrp", pack_filter_coefficient_ie),
        Sub("qc_eutra.fc_rsrq", pack_filter_coefficient_ie)>>),
    When(On("qc_utra_present"),
      <<Fld("qc_utra.mq_fdd", 1), Enum("qc_utra.mq_tdd", 1, 1),
        Sub("qc_utra.fc", pack_filter_coefficient_ie)>>),
    When(On("qc_geran_present"),
      <<Enum("qc_geran.mq", 1, 1), Sub("qc_geran.fc", pack_filter_coefficient_ie)>>),
    When(On("qc_cdma2000_present"), <<Fld("qc_cdma2000.mq", 1)>>)>>

pack_report_interval_ie == <<Fld("", 4)>>

pack_rsrp_range_ie == <<Fld("", 7)>>

pack_rsrq_range_ie == <<Fld("", 6)>>

pack_time_to_trigger_ie == <<Fld("", 4)>>

pack_report_config_eutra_ie ==
  <<Fill(0, 1), Fld("trigger_type", 1),
    Case(Off("trigger_type"),
      <<Enum("event.event_id", 3, 6),
        Switch("event.event_id",
          <<Arm({0},
              <<Fld("event.event_a1.eutra.type", 1),
                Case(Off("event.event_a1.eutra.type"),
                  <<Sub("event.event_a1.eutra.range", pack_rsrp_range_ie)>>,
                  <<Sub("event.event_a1.eutra.range", pack_rsrq_range_ie)>>)>>),
            Arm({1},
              <<Fld("event.event_a2.eutra.type", 1),
                Case(Off("event.event_a2.eutra.type"),
                  <<Sub("event.event_a2.eutra.range", pack_rsrp_range_ie)>>,
                  <<Sub("event.event_a2.eutra.range", pack_rsrq_range_ie)>>)>>),
            Arm({2},
              <<Bias("event.event_a3.offset", 6, 30), Fld("event.event_a3.report_on_leave", 1)>>),
            Arm({3},
              <<Fld("event.event_a4.eutra.type", 1),
                Case(Off("event.event_a4.eutra.type"),
                  <<Sub("event.event_a4.eutra.range", pack_rsrp_range_ie)>>,
                  <<Sub("event.event_a4.eutra.range", pack_rsrq_range_ie)>>)>>),
            Arm({4},
              <<Fld("event.event_a5.eutra1.type", 1),
                Case(Off("event.event_a5.eutra1.type"),
                  <<Sub("event.event_a5.eutra1.range", pack_rsrp_range_ie)>>,
                  <<Sub("event.event_a5.eutra1.range", pack_rsrq_range_ie)>>),
                Fld("event.event_a5.eutra2.type", 1),
                Case(Off("event.event_a5.eutra2.type"),
                  <<Sub("event.event_a5.eutra2.range", pack_rsrp_range_ie)>>,
                  <<Sub("event.event_a5.eutra2.range", pack_rsrq_range_ie)>>)>>)>>,
          <<Bias("event.event_a6.offset", 6, 30), Fld("event.event_a6.report_on_leave", 1)>>),
        Sub("event.hysteresis", pack_hysteresis_ie),
        Sub("event.time_to_trigger", pack_time_to_trigger_ie)>>, <<Fld("periodical.purpose", 1)>>),
    Fld("trigger_quantity", 1), Fld("report_quantity", 1), Bias("max_report_cells", 3, -1),
    Sub("report_interval", pack_report_interval_ie), Fld("report_amount", 3)>>

pack_report_config_inter_rat_ie ==
  <<Fill(0, 1), Fld("trigger_type", 1),
    Case(Off("trigger_type"),
      <<Fld("event.event_id", 1),
        Case(Off("event.event_id"),
          <<Enum("event.event_b1.type", 2, 3),
            Switch("event.event_b1.type",
              <<Arm({0},
                  <<Fld("event.event_b1.utra.type", 1),
                    Case(Off("event.event_b1.utra.type"),
                      <<Bias("event.event_b1.utra.value", 7, 5)>>,
                      <<Fld("event.event_b1.utra.value", 6)>>)>>),
                Arm({1}, <<Fld("event.event_b1.geran", 6)>>)>>,
              <<Fld("event.event_b1.cdma2000", 6)>>)>>,
          <<Fld("event.event_b2.eutra.type", 1),
            Case(Off("event.event_b2.eutra.type"),
              <<Sub("event.event_b2.eutra.range", pack_rsrp_range_ie)>>,
              <<Sub("event.event_b2.eutra.range", pack_rsrq_range_ie)>>),
            Enum("event.event_b2.type2", 2, 3),
            Switch("event.event_b2.type2",
              <<Arm({0},
                  <<Fld("event.event_b2.utra.type", 1),
                    Case(Off("event.event_b2.utra.type"),
                      <<Bias("event.event_b2.utra.value", 7, 5)>>,
                      <<Fld("event.event_b2.utra.value", 6)>>)>>),
                Arm({1}, <<Fld("event.event_b2.geran", 6)>>)>>,
              <<Fld("event.event_b2.cdma2000", 6)>>)>>),
        Sub("event.hysteresis", pack_hysteresis_ie),
        Sub("event.time_to_trigger", pack_time_to_trigger_ie)>>,
      <<Enum("periodical.purpose", 2, 3)>>),
    Bias("max_report_cells", 3, -1), Sub("report_interval", pack_report_interval_ie),
    Fld("report_amount", 3)>>

pack_report_config_to_add_mod_list_ie ==
  <<Cnt("N_rep_cnfg", 5, -1),
    Each("N_rep_cnfg", "rep_cnfg_list",
      <<Sub("rep_cnfg_id", pack_report_config_id_ie), Fld("rep_cnfg_type", 1),
        Case(Off("rep_cnfg_type"), <<Sub("rep_cnfg_eutra", pack_report_config_eutra_ie)>>,
          <<Sub("rep_cnfg_inter_rat", pack_report_config_inter_rat_ie)>>)>>)>>

pack_meas_config_ie ==
  <<Fill(0, 1), Opt(Some("N_meas_obj_to_remove")), Fld("meas_obj_to_add_mod_list_present", 1),
    Opt(Some("N_rep_cnfg_to_remove")), Fld("rep_cnfg_to_add_mod_list_present", 1),
    Opt(Some("N_meas_id_to_remove")),
    Flags(<<"meas_id_to_add_mod_list_present", "quantity_cnfg_present", "meas_gap_cnfg_present",
      "s_meas_present", "pre_reg_info_hrpd_present", "speed_state_params_present">>),
    When(On("N_meas_obj_to_remove"), <<Cnt("N_meas_obj_to_remove", 5, -1)>>),
    Each("N_meas_obj_to_remove", "meas_obj_to_remove_list", <<Sub("", pack_meas_object_id_ie)>>),
    When(On("meas_obj_to_add_mod_list_present"),
      <<Sub("meas_obj_to_add_mod_list", pack_meas_object_to_add_mod_list_ie)>>),
    When(On("N_rep_cnfg_to_remove"), <<Cnt("N_rep_cnfg_to_remove", 5, -1)>>),
    Each("N_rep_cnfg_to_remove", "rep_cnfg_to_remove_list", <<Sub("", pack_report_config_id_ie)>>),
    When(On("rep_cnfg_to_add_mod_list_present"),
      <<Sub("rep_cnfg_to_add_mod_list", pack_report_config_to_add_mod_list_ie)>>),
    When(On("N_meas_id_to_remove"), <<Cnt("N_meas_id_to_remove", 5, -1)>>),
    Each("N_meas_id_to_remove", "meas_id_to_remove_list", <<Sub("", pack_meas_id_ie)>>),
    When(On("meas_id_to_add_mod_list_present"),
      <<Sub("meas_id_to_add_mod_list", pack_meas_id_to_add_mod_list_ie)>>),
    When(On("quantity_cnfg_present"), <<Sub("quantity_cnfg", pack_quantity_config_ie)>>),
    When(On("meas_gap_cnfg_present"), <<Sub("meas_gap_cnfg", pack_meas_gap_config_ie)>>),
    When(On("s_meas_present"), <<Sub("s_meas", pack_rsrp_range_ie)>>),
    When(On("pre_reg_info_hrpd_present"),
      <<Sub("pre_reg_info_hrpd", pack_pre_registration_info_hrpd_ie)>>),
    When(On("speed_state_params_present"),
      <<Fill(1, 1), Sub("speed_state_params.mob_state_params", pack_mobility_state_parameters_ie),
        Sub("speed_state_params.time_to_trig_sf", pack_speed_state_scale_factors_ie)>>)>>

unpack_meas_gap_config_ie ==
  <<Fld("setup_present", 1),
    When(On("setup_present"),
      <<Fld("gap_offset_type", 1),
        Case(Off("gap_offset_type"), <<Fld("gap_offset", 6)>>, <<Fld("gap_offset", 7)>>)>>)>>

unpack_meas_id_ie == <<Bias("", 5, -1)>>

unpack_meas_object_id_ie == <<Bias("", 5, -1)>>

unpack_report_config_id_ie == <<Bias("", 5, -1)>>

(* Mutant: the number of entries without its offset. *)
unpack_meas_id_to_add_mod_list_ie_short ==
  <<Cnt("N_meas_id", 5, 0),
    Each("N_meas_id", "meas_id_list",
      <<Sub("meas_id", unpack_meas_id_ie), Sub("meas_obj_id", unpack_meas_object_id_ie),
        Sub("rep_cnfg_id", unpack_report_config_id_ie)>>)>>

unpack_meas_id_to_add_mod_list_ie ==
  <<Cnt("N_meas_id", 5, -1),
    Each("N_meas_id", "meas_id_list",
      <<Sub("meas_id", unpack_meas_id_ie), Sub("meas_obj_id", unpack_meas_object_id_ie),
        Sub("rep_cnfg_id", unpack_report_config_id_ie)>>)>>

unpack_meas_object_cdma2000_ie ==
  <<Skip(1),
    Flags(<<"search_win_size_present", "cells_to_remove_list_present", "cells_to_add_mod_present",
      "cell_for_which_to_rep_cgi_present">>),
    Sub("cdma2000_type", unpack_cdma2000_type_ie),
    Sub("carrier_freq", unpack_carrier_freq_cdma2000_ie),
    When(On("search_win_size_present"), <<Fld("search_win_size", 4)>>),
    Sub("offset_freq", unpack_q_offset_range_inter_rat_ie),
    When(On("cells_to_remove_list_present"),
      <<Sub("cells_to_remove_list", unpack_cell_index_list_ie)>>),
    Case(On("cells_to_add_mod_present"),
      <<Cnt("N_cells_to_add_mod", 5, -1),
        Each("N_cells_to_add_mod", "cells_to_add_mod_list",
          <<Bias("cell_idx", 5, -1), Sub("pci", unpack_phys_cell_id_cdma2000_ie)>>)>>,
      <<Put("N_cells_to_add_mod", 0)>>),
    When(On("cell_for_which_to_rep_cgi_present"),
      <<Sub("cell_for_which_to_rep_cgi", unpack_phys_cell_id_cdma2000_ie)>>)>>

unpack_meas_object_eutra_ie ==
  <<Skip(1),
    Flags(<<"offset_freq_not_default", "cells_to_remove_list_present",
      "cells_to_add_mod_list_present", "black_cells_to_remove_list_present",
      "black_cells_to_add_mod_list_present", "cell_for_which_to_rep_cgi_present">>),
    Sub("carrier_freq", unpack_arfcn_value_eutra_ie),
    Sub("allowed_meas_bw", unpack_allowed_meas_bandwidth_ie),
    Sub("presence_ant_port_1", unpack_presence_antenna_port_1_ie),
    Sub("neigh_cell_cnfg", unpack_neigh_cell_config_ie),
    When(On("offset_freq_not_default"), <<Sub("offset_freq", unpack_q_offset_range_ie)>>),
    When(On("cells_to_remove_list_present"),
      <<Sub("cells_to_remove_list", unpack_cell_index_list_ie)>>),
    Case(On("cells_to_add_mod_list_present"),
      <<Cnt("N_cells_to_add_mod", 5, -1),
        Each("N_cells_to_add_mod", "cells_to_add_mod_list",
          <<Bias("cell_idx", 5, -1), Sub("pci", unpack_phys_cell_id_ie),
            Sub("cell_offset", unpack_q_offset_range_ie)>>)>>, <<Put("N_cells_to_add_mod", 0)>>),
    When(On("black_cells_to_remove_list_present"),
      <<Sub("black_cells_to_remove_list", unpack_cell_index_list_ie)>>),
    Case(On("black_cells_to_add_mod_list_present"),
      <<Cnt("N_black_cells_to_add_mod", 5, -1),
        Each("N_black_cells_to_add_mod", "black_cells_to_add_mod_list",
          <<Bias("cell_idx", 5, -1), Sub("pci_range", unpack_phys_cell_id_range_ie)>>)>>,
      <<Put("N_black_cells_to_add_mod", 0)>>),
    When(On("cell_for_which_to_rep_cgi_present"),
      <<Sub("cell_for_which_to_rep_cgi", unpack_phys_cell_id_ie)>>)>>

unpack_meas_object_geran_ie ==
  <<Skip(1), Fld("cell_for_which_to_rep_cgi_present", 1),
    Sub("carrier_freqs", unpack_carrier_freqs_geran_ie),
    Sub("offset_freq", unpack_q_offset_range_inter_rat_ie), Fld("ncc_permitted", 8),
    When(On("cell_for_which_to_rep_cgi_present"),
      <<Sub("cell_for_which_to_rep_cgi", unpack_phys_cell_id_geran_ie)>>)>>

unpack_meas_object_utra_ie ==
  <<Skip(1),
    Flags(<<"cells_to_remove_list_present", "cells_to_add_mod_list_present",
      "cells_for_which_to_rep_cgi_present">>),
    Sub("carrier_freq", unpack_arfcn_value_utra_ie),
    Sub("offset_freq", unpack_q_offset_range_inter_rat_ie),
    When(On("cells_to_remove_list_present"),
      <<Sub("cells_to_remove_list", unpack_cell_index_list_ie)>>),
    When(On("cells_to_add_mod_list_present"),
      <<Fld("cells_to_add_mod_list.type", 1), Cnt("cells_to_add_mod_list.N_cells", 5, -1),
        Case(Off("cells_to_add_mod_list.type"),
          <<Each("cells_to_add_mod_list.N_cells", "cells_to_add_mod_list.cells_fdd",
              <<Bias("cell_idx", 5, -1), Sub("pci", unpack_phys_cell_id_utra_fdd_ie)>>)>>,
          <<Each("cells_to_add_mod_list.N_cells", "cells_to_add_mod_list.cells_tdd",
              <<Bias("cell_idx", 5, -1), Sub("pci", unpack_phys_cell_id_utra_tdd_ie)>>)>>)>>),
    When(On("cells_for_which_to_rep_cgi_present"),
      <<Fld("cells_for_which_to_rep_cgi.type", 1),
        Case(Off("cells_for_which_to_rep_cgi.type"),
          <<Sub("cells_for_which_to_rep_cgi.pci_fdd", unpack_phys_cell_id_utra_fdd_ie)>>,
          <<Sub("cells_for_which_to_rep_cgi.pci_tdd", unpack_phys_cell_id_utra_tdd_ie)>>)>>)>>

unpack_meas_object_to_add_mod_list_ie ==
  <<Cnt("N_meas_obj", 5, -1),
    Each("N_meas_obj", "meas_obj_list",
      <<Sub("meas_obj_id", unpack_meas_object_id_ie), Skip(1), Fld("meas_obj_type", 2),
        Switch("meas_obj_type",
          <<Arm({0}, <<Sub("meas_obj_eutra", unpack_meas_object_eutra_ie)>>),
            Arm({1}, <<Sub("meas_obj_utra", unpack_meas_object_utra_ie)>>),
            Arm({2}, <<Sub("meas_obj_geran", unpack_meas_object_geran_ie)>>)>>,
          <<Sub("meas_obj_cdma2000", unpack_meas_object_cdma2000_ie)>>)>>)>>

unpack_quantity_config_ie ==
  <<Skip(1),
    Flags(<<"qc_eutra_present", "qc_utra_present", "qc_geran_present", "qc_cdma2000_present">>),
    When(On("qc_eutra_present"),
      <<Flags(<<"qc_eutra.fc_rsrp_not_default", "qc_eutra.fc_rsrq_not_default">>),
        When(On("qc_eutra.fc_rsrp_not_default"),
          <<Sub("qc_eutra.fc_rsrp", unpack_filter_coefficient_ie)>>),
        When(On("qc_eutra.fc_rsrq_not_default"),
          <<Sub("qc_eutra.fc_rsrq", unpack_filter_coefficient_ie)>>)>>),
    When(On("qc_utra_present"),
      <<Fld("qc_utra.fc_not_default", 1), Fld("qc_utra.mq_fdd", 1), Put("qc_utra.mq_tdd", 0),
        When(On("qc_utra.fc_not_default"), <<Sub("qc_utra.fc", unpack_filter_coefficient_ie)>>)>>),
    When(On("qc_geran_present"),
      <<Fld("qc_geran.fc_not_default", 1), Put("qc_geran.mq", 0),
        When(On("qc_geran.fc_not_default"), <<Sub("qc_geran.fc", unpack_filter_coefficient_ie)>>)>>),
    When(On("qc_cdma2000_present"), <<Fld("qc_cdma2000.mq", 1)>>)>>

unpack_report_interval_ie == <<Fld("", 4)>>

unpack_rsrp_range_ie == <<Fld("", 7)>>

unpack_rsrq_range_ie == <<Fld("", 6)>>

unpack_time_to_trigger_ie == <<Fld("", 4)>>

unpack_report_config_eutra_ie ==
  <<Skip(1), Fld("trigger_type", 1),
    Case(Off("trigger_type"),
      <<Skip(1), Enum("event.event_id", 3, 6),
        Switch("event.event_id",
          <<Arm({0},
              <<Fld("event.event_a1.eutra.type", 1),
                Case(Off("event.event_a1.eutra.type"),
                  <<Sub("event.event_a1.eutra.range", unpack_rsrp_range_ie)>>,
                  <<Sub("event.event_a1.eutra.range", unpack_rsrq_range_ie)>>)>>),
            Arm({1},
              <<Fld("event.event_a2.eutra.type", 1),
                Case(Off("event.event_a2.eutra.type"),
                  <<Sub("event.event_a2.eutra.range", unpack_rsrp_range_ie)>>,
                  <<Sub("event.event_a2.eutra.range", unpack_rsrq_range_ie)>>)>>),
            Arm({2},
              <<Bias("event.event_a3.offset", 6, 30), Fld("event.event_a3.report_on_leave", 1)>>),
            Arm({3},
              <<Fld("event.event_a4.eutra.type", 1),
                Case(Off("event.event_a4.eutra.type"),
                  <<Sub("event.event_a4.eutra.range", unpack_rsrp_range_ie)>>,
                  <<Sub("event.event_a4.eutra.range", unpack_rsrq_range_ie)>>)>>),
            Arm({4},
              <<Fld("event.event_a5.eutra1.type", 1),
                Case(Off("event.event_a5.eutra1.type"),
                  <<Sub("event.event_a5.eutra1.range", unpack_rsrp_range_ie)>>,
                  <<Sub("event.event_a5.eutra1.range", unpack_rsrq_range_ie)>>),
                Fld("event.event_a5.eutra2.type", 1),
                Case(Off("event.event_a5.eutra2.type"),
                  <<Sub("event.event_a5.eutra2.range", unpack_rsrp_range_ie)>>,
                  <<Sub("event.event_a5.eutra2.range", unpack_rsrq_range_ie)>>)>>)>>,
          <<Bias("event.event_a6.offset", 6, 30), Fld("event.event_a6.report_on_leave", 1)>>),
        Sub("event.hysteresis", unpack_hysteresis_ie),
        Sub("event.time_to_trigger", unpack_time_to_trigger_ie)>>, <<Fld("periodical.purpose", 1)>>),
    Fld("trigger_quantity", 1), Fld("report_quantity", 1), Bias("max_report_cells", 3, -1),
    Sub("report_interval", unpack_report_interval_ie), Fld("report_amount", 3)>>

unpack_report_config_inter_rat_ie ==
  <<Skip(1), Fld("trigger_type", 1),
    Case(Off("trigger_type"),
      <<Fld("event.event_id", 1),
        Case(Off("event.event_id"),
          <<Enum("event.event_b1.type", 2, 3),
            Switch("event.event_b1.type",
              <<Arm({0},
                  <<Fld("event.event_b1.utra.type", 1),
                    Case(Off("event.event_b1.utra.type"),
                      <<Bias("event.event_b1.utra.value", 7, 5)>>,
                      <<Fld("event.event_b1.utra.value", 6)>>)>>),
                Arm({1}, <<Fld("event.event_b1.geran", 6)>>)>>,
              <<Fld("event.event_b1.cdma2000", 6)>>)>>,
          <<Fld("event.event_b2.eutra.type", 1),
            Case(Off("event.event_b2.eutra.type"),
              <<Sub("event.event_b2.eutra.range", unpack_rsrp_range_ie)>>,
              <<Sub("event.event_b2.eutra.range", unpack_rsrq_range_ie)>>),
            Enum("event.event_b2.type2", 2, 3),
            Switch("event.event_b2.type2",
              <<Arm({0},
                  <<Fld("event.event_b2.utra.type", 1),
                    Case(Off("event.event_b2.utra.type"),
                      <<Bias("event.event_b2.utra.value", 7, 5)>>,
                      <<Fld("event.event_b2.utra.value", 6)>>)>>),
                Arm({1}, <<Fld("event.event_b2.geran", 6)>>)>>,
              <<Fld("event.event_b2.cdma2000", 6)>>)>>),
        Sub("event.hysteresis", unpack_hysteresis_ie),
        Sub("event.time_to_trigger", unpack_time_to_trigger_ie)>>,
      <<Enum("periodical.purpose", 2, 3)>>),
    Bias("max_report_cells", 3, -1), Sub("report_interval", unpack_report_interval_ie),
    Fld("report_amount", 3)>>

unpack_report_config_to_add_mod_list_ie ==
  <<Cnt("N_rep_cnfg", 5, -1),
    Each("N_rep_cnfg", "rep_cnfg_list",
      <<Sub("rep_cnfg_id", unpack_report_config_id_ie), Fld("rep_cnfg_type", 1),
        Case(Off("rep_cnfg_type"), <<Sub("rep_cnfg_eutra", unpack_report_config_eutra_ie)>>,
          <<Sub("rep_cnfg_inter_rat", unpack_report_config_inter_rat_ie)>>)>>)>>

unpack_meas_config_ie ==
  <<Flags(<<"ext", "meas_obj_to_remove_present", "meas_obj_to_add_mod_list_present",
      "rep_cnfg_to_remove_present", "rep_cnfg_to_add_mod_list_present",
      "meas_id_to_remove_present", "meas_id_to_add_mod_list_present", "quantity_cnfg_present",
      "meas_gap_cnfg_present", "s_meas_present", "pre_reg_info_hrpd_present",
      "speed_state_params_present">>),
    Case(On("meas_obj_to_remove_present"),
      <<Cnt("N_meas_obj_to_remove", 5, -1),
        Each("N_meas_obj_to_remove", "meas_obj_to_remove_list",
          <<Sub("", unpack_meas_object_id_ie)>>)>>, <<Put("N_meas_obj_to_remove", 0)>>),
    When(On("meas_obj_to_add_mod_list_present"),
      <<Sub("meas_obj_to_add_mod_list", unpack_meas_object_to_add_mod_list_ie)>>),
    Case(On("rep_cnfg_to_remove_present"),
      <<Cnt("N_rep_cnfg_to_remove", 5, -1),
        Each("N_rep_cnfg_to_remove", "rep_cnfg_to_remove_list",
          <<Sub("", unpack_report_config_id_ie)>>)>>, <<Put("N_rep_cnfg_to_remove", 0)>>),
    When(On("rep_cnfg_to_add_mod_list_present"),
      <<Sub("rep_cnfg_to_add_mod_list", unpack_report_config_to_add_mod_list_ie)>>),
    Case(On("meas_id_to_remove_present"),
      <<Cnt("N_meas_id_to_remove", 5, -1),
        Each("N_meas_id_to_remove", "meas_id_to_remove_list", <<Sub("", unpack_meas_id_ie)>>)>>,
      <<Put("N_meas_id_to_remove", 0)>>),
    When(On("meas_id_to_add_mod_list_present"),
      <<Sub("meas_id_to_add_mod_list", unpack_meas_id_to_add_mod_list_ie)>>),
    When(On("quantity_cnfg_present"), <<Sub("quantity_cnfg", unpack_quantity_config_ie)>>),
    When(On("meas_gap_cnfg_present"), <<Sub("meas_gap_cnfg", unpack_meas_gap_config_ie)>>),
    When(On("s_meas_present"), <<Sub("s_meas", unpack_rsrp_range_ie)>>),
    When(On("pre_reg_info_hrpd_present"),
      <<Sub("pre_reg_info_hrpd", unpack_pre_registration_info_hrpd_ie)>>),
    When(On("speed_state_params_present"),
      <<Fld("speed_state_params_present", 1),
        When(On("speed_state_params_present"),
          <<Sub("speed_state_params.mob_state_params", unpack_mobility_state_parameters_ie),
            Sub("speed_state_params.time_to_trig_sf", unpack_speed_state_scale_factors_ie)>>)>>)>>

============================================================================
